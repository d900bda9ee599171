CONSTANTS
  Users = {1, 2, 3}
  Slots = {r1}
  SettingsChoices <- MCSettings
  MaxMembers = 50
  MaxRequests = 4
  MaxDisturbed = 0
  Faults = FALSE
SPECIFICATION Spec
CHECK_DEADLOCK FALSE
INVARIANTS
  OwnerIsActiveMember
