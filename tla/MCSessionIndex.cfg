CONSTANTS
  Users = {u1}
  Devices = {app1}
  WebDevices = {}
  Slots = {r1}
  MaxTokens = 2
  MaxRequests = 3
  MaxDisturbed = 0
  Faults = FALSE
SPECIFICATION Spec
SYMMETRY MCSymmetry
CHECK_DEADLOCK FALSE
INVARIANTS
  LogoutsAreTotal
