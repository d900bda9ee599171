CONSTANTS
  Users = {u1, u2}
  Devices = {web1, web2, app1}
  WebDevices = {web1, web2}
  Slots = {r1, r2}
  MaxTokens = 4
  MaxRequests = 4
  MaxDisturbed = 3
  Faults = TRUE
  WithEmail = {u1}
  RequireVerification = FALSE
  MaxAttempts = 1
  MaxCodes = 2
SPECIFICATION AccountSpec
SYMMETRY MCSymmetry
CHECK_DEADLOCK FALSE
INVARIANTS
  RevokedStayDead
  OneWebSession
  SessionsAreIndexed
  PasswordChangeIsFinal
  CodesAreSpent
