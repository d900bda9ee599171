CONSTANTS
  Users = {u1, u2}
  RequestIds = {q1, q2, q3}
  Slots = {r1, r2}
  QueryLimit = 2
  ListLimit = 2
  Faults = TRUE
SPECIFICATION Spec
SYMMETRY MCSymmetry
CHECK_DEADLOCK FALSE
INVARIANTS
  BlockedAreNotFriends
  FriendsHaveConversation
  BlockedHaveNoRequest
PROPERTIES
  DeletedIsFinal
