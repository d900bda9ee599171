CONSTANTS
  Users = {u1, u2, u3}
  Conversations = {grp}
  Groups = {grp}
  Members <- MCMembers
  CallIds = {c1}
  NoCall = NoCall
SPECIFICATION FairControllerSpec
PROPERTIES
  RingingStops
  EndIsNotified
