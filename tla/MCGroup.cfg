CONSTANTS
  Users = {1, 2, 3, 4}
  Slots = {r1, r2}
  SettingsChoices <- MCSettings
  MaxMembers = 3
  MaxRequests = 6
  MaxDisturbed = 3
  Faults = TRUE
SPECIFICATION Spec
SYMMETRY MCSymmetry
CHECK_DEADLOCK FALSE
INVARIANTS
  DissolvedLeavesNoRow
  CountIsExact
  AdminsHoldTheRole
  OwnerRoleIsOwnerId
PROPERTIES
  DissolvedIsFinal
