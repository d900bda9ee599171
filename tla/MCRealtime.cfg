CONSTANTS
  ann = ann
  bob = bob
  socket = socket
  Users = {ann, bob}
  Sockets = {socket}
  UserOf <- MCUserOf
  Slots = {r1, r2}
  Hiders = {bob}
SYMMETRY MCSymmetry
SPECIFICATION Spec
CHECK_DEADLOCK FALSE
INVARIANTS
  EveryoneHears
