CONSTANTS
  Users = {u1, u2}
  Conversations = {priv, grp}
  Groups = {grp}
  Members <- MCMembers
  CallIds = {c1, c2}
  NoCall = NoCall
SPECIFICATION ControllerSpec
SYMMETRY MCSymmetry
INVARIANTS
  ConversationIndexExact
  BusyIndexSound
  RingingHasTimer
  MessageMatchesSession
  LoggedIsComplete
PROPERTIES
  TerminalIsFinal
  LoggedOnce
  LifecycleIsKept
