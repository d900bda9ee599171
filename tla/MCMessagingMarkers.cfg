CONSTANTS
  Members = {u1, u2}
  ClientIds = {k1}
  NoClientId = NoClientId
  Sent = {"text", "split"}
  Slots = {r1, r2}
  MaxPinned = 1
  PageSize = 1
  MaxMessages = 3
  MaxRequests = 3
  MaxDisturbed = 4
SPECIFICATION Spec
SYMMETRY MCSymmetry
CHECK_DEADLOCK FALSE
PROPERTIES
  MarkersAreMonotonic
