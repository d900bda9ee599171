CONSTANTS
  Members = {boss, member}
  Managers = {boss}
  AllMayUse = FALSE
  PollIds = {poll}
  ReminderIds = {reminder}
  NoteIds = {note}
  Tokens = {t1, t2}
  Options = {o1, o2, o3}
  FirstOptions = {o1, o2}
  PollChoices <- MCPolls
  ReminderChoices <- MCReminders
  EditChoices <- MCEdits
  Slots = {r1, r2}
  Workers = {w1, w2}
  MaxTime = 2
  MaxRequests = 3
  MaxDisturbed = 3
  MaxTools = 1
  MaxFaults = 1
SPECIFICATION FairSpec
CHECK_DEADLOCK FALSE
INVARIANTS
  AnnouncedOnce
  VotesAreKept
  OneActiveLink
  TimelineAgrees
PROPERTIES
  DueIsHandled
