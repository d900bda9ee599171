------------------------------ MODULE GroupTools ------------------------------
(***************************************************************************)
(* The tools of one group: polls, reminders and notes, the worker that     *)
(* closes expired polls and announces due reminders, and the invite links. *)
(* A use case checks what it has read and then awaits one database call    *)
(* after the other; a slot is a request being handled.  Every server       *)
(* instance runs the worker, so several runs of it may overlap.            *)
(*                                                                         *)
(* Items are updated without a condition: an update of a deleted item      *)
(* creates a part of it, which has no conversation and which every later   *)
(* request refuses.  Only the worker's two updates are conditional.        *)
(*                                                                         *)
(* The system messages that requests add to the timeline show no item, and *)
(* the read that follows an update only fills the answer: both are left    *)
(* out.                                                                    *)
(***************************************************************************)
EXTENDS Naturals, Sequences, FiniteSets

CONSTANTS
  Members,      \* active members of the group
  Managers,     \* its owner and admins
  AllMayUse,    \* utilityPermissions: "all", or the managers only
  PollIds, ReminderIds, NoteIds, Tokens,
  Options,      \* ids of poll options
  FirstOptions, \* the options a poll is created with
  PollChoices,  \* the polls that are created: multi, change, add, expires
  ReminderChoices, \* the reminders that are created: at, before, repeat
  EditChoices,  \* the fields a client changes in a reminder in one request
  Slots,        \* requests the server works on at the same time
  Workers,      \* instances that run the worker
  MaxTime,      \* bound: the clock
  MaxRequests,  \* bound: requests handled one at a time, without a failure
  MaxDisturbed, \* bound: requests and failures where some overlap or a call fails
  MaxTools,     \* bound: items that are created, the links counted as one
  MaxFaults     \* bound: calls that throw

Times == 1..MaxTime
PollForm == [multi: BOOLEAN, change: BOOLEAN, add: BOOLEAN, expires: {0} \cup Times]
ReminderForm == [at: Times, before: {0, 1}, repeat: BOOLEAN]
EditForm ==
  [at: Times] \cup [before: {0, 1}] \cup [repeat: BOOLEAN]
    \cup [status: {"ACTIVE", "DONE", "CANCELLED"}] \cup [at: Times, status: {"ACTIVE"}]

ASSUME GroupToolsAssumption ==
  /\ PollIds \cap ReminderIds = {} /\ (PollIds \cup ReminderIds) \cap NoteIds = {}
  /\ PollChoices \subseteq PollForm /\ ReminderChoices \subseteq ReminderForm
  /\ EditChoices \subseteq EditForm
  /\ Managers \subseteq Members /\ AllMayUse \in BOOLEAN
  /\ FirstOptions \subseteq Options
  /\ {MaxTime, MaxRequests, MaxDisturbed, MaxTools, MaxFaults} \subseteq Nat

VARIABLES
  now,        \* the clock
  items,      \* the polls, reminders and notes
  shown,      \* items whose message was written to the timeline
  pins,       \* items whose timeline message is pinned
  byHand,     \* history: items whose message was pinned or unpinned last as any
              \* other message, past the item
  links,      \* the invite links
  slots,      \* the requests in flight
  workers,    \* the worker of each instance
  started,    \* requests started so far
  faults,     \* calls that have thrown
  calm,       \* history: no two requests have overlapped and none has failed
  chosen,     \* history: the options each member has chosen last
  armed,      \* history: how often each reminder was set to go off
  announced,  \* history: the occasions the workers have announced
  repeated    \* history: those they have announced again

tables == <<items, shown, pins, byHand, links>>
counters == <<started, faults, calm>>
log == <<armed, announced, repeated>>
vars == <<now, tables, slots, workers, counters, chosen, log>>

-----------------------------------------------------------------------------
(* Items *)

ItemIds == PollIds \cup ReminderIds \cup NoteIds
Missing == [state |-> "none"]
IsLive(i) == items[i].state = "live"

NewPoll(u, form) ==
  [state |-> "live", by |-> u, status |-> "ACTIVE", multi |-> form.multi, change |-> form.change,
   add |-> form.add, expires |-> form.expires, pinned |-> FALSE,
   options |-> FirstOptions, votes |-> [o \in Options |-> {}]]

\* getInitialNextNotifyAt
FirstNotice(at, before) == at - before

NewReminder(u, form) ==
  [state |-> "live", by |-> u, status |-> "ACTIVE", at |-> form.at, before |-> form.before,
   repeat |-> form.repeat, next |-> FirstNotice(form.at, form.before), pinned |-> FALSE]

NewNote(u) == [state |-> "live", by |-> u]

MayUse(u) == AllMayUse \/ u \in Managers
MayManage(u, i) == IsLive(i) /\ (u \in Managers \/ items[i].by = u)

Selection(votes, u) == {o \in Options : u \in votes[o]}

\* An expired poll may be voted on until the clock has passed expiresAt.
IsOpen(p) ==
  /\ IsLive(p) /\ items[p].status = "ACTIVE"
  /\ items[p].expires = 0 \/ now <= items[p].expires

-----------------------------------------------------------------------------
(* Requests in flight *)

Idle == [todo |-> <<>>]
Busy(r) == slots[r] # Idle
Doing(r, kind) == Busy(r) /\ Head(slots[r].todo).kind = kind
Call(r) == Head(slots[r].todo)

\* The item a request in flight is about to create.
Creating(r) ==
  IF Doing(r, "insert") THEN {Call(r).id} ELSE IF Doing(r, "message") THEN {Call(r).show} ELSE {}

\* v7(): no item was stored or shown under the id and no request has taken it.
Taken(i) == items[i] # Missing \/ i \in shown \/ \E r \in Slots : i \in Creating(r)
LinksInUse ==
  (\E t \in Tokens : links[t] # "unused")
    \/ \E r \in Slots : Doing(r, "findLink") \/ Doing(r, "newLink")
ToolsInUse == Cardinality({i \in ItemIds : Taken(i)}) + IF LinksInUse THEN 1 ELSE 0
Fresh(i) == ~Taken(i) /\ ToolsInUse < MaxTools

\* Any free slot is as good as another.
Begin(r, todo) ==
  /\ ~Busy(r) /\ r = CHOOSE x \in Slots : ~Busy(x)
  /\ calm' = (calm /\ \A x \in Slots : ~Busy(x))
  /\ IF calm' THEN started < MaxRequests ELSE started + faults < MaxDisturbed
  /\ started' = started + 1
  /\ slots' = [slots EXCEPT ![r] = [todo |-> todo]]
  /\ UNCHANGED <<now, tables, workers, faults, chosen, log>>

Proceed(r, more) ==
  /\ slots' = [slots EXCEPT ![r] = [todo |-> more \o Tail(slots[r].todo)]]
  /\ UNCHANGED <<now, workers, counters>>

Throw(r) ==
  /\ slots' = [slots EXCEPT ![r] = Idle]
  /\ calm' = FALSE
  /\ UNCHANGED <<now, workers, started>>

\* createConversationActivityMessage: the message in the timeline that shows an
\* item, and the activity of the conversation.
Show(i) == [kind |-> "message", show |-> i]
Insert(i, item) == [kind |-> "insert", id |-> i, item |-> item]
Set(i, fields) == [kind |-> "set", id |-> i, set |-> fields]
PinMessage(i, pinned) == [kind |-> "pin", id |-> i, pinned |-> pinned]

WriteMessage(r) ==
  /\ Doing(r, "message")
  /\ shown' = shown \cup {Call(r).show}
  /\ Proceed(r, <<>>)
  /\ UNCHANGED <<items, pins, byHand, links, chosen, log>>

InsertItem(r) ==
  /\ Doing(r, "insert")
  /\ items' = [items EXCEPT ![Call(r).id] = Call(r).item]
  /\ armed' = IF Call(r).id \in ReminderIds THEN [armed EXCEPT ![Call(r).id] = @ + 1] ELSE armed
  /\ Proceed(r, <<>>)
  /\ UNCHANGED <<shown, pins, byHand, links, chosen, announced, repeated>>

Merged(fields, item) ==
  [f \in DOMAIN item |-> IF f \in DOMAIN fields THEN fields[f] ELSE item[f]]

\* The fields that set a reminder to go off (again).
Arms(i, fields) ==
  i \in ReminderIds /\ ("next" \in DOMAIN fields \/ "status" \in DOMAIN fields)

\* update of poll-repo.ts and group-utility-repo.ts: no condition.
SetItem(r) ==
  LET c == Call(r)
  IN /\ Doing(r, "set")
     /\ items' = [items EXCEPT ![c.id] = IF IsLive(c.id) THEN Merged(c.set, items[c.id])
                                         ELSE [state |-> "part"]]
     /\ chosen' = IF "vote" \in DOMAIN c THEN [chosen EXCEPT ![c.id][c.vote.by] = c.vote.for]
                  ELSE chosen
     /\ armed' = IF Arms(c.id, c.set) THEN [armed EXCEPT ![c.id] = @ + 1] ELSE armed
     /\ Proceed(r, <<>>)
     /\ UNCHANGED <<shown, pins, byHand, links, announced, repeated>>

SetPinned(i, pinned) == pins' = IF pinned THEN pins \cup {i} ELSE pins \ {i}

\* The tools pin and unpin the message with their item.
PinItemMessage(r) ==
  /\ Doing(r, "pin")
  /\ SetPinned(Call(r).id, Call(r).pinned)
  /\ byHand' = byHand \ {Call(r).id}
  /\ Proceed(r, <<>>)
  /\ UNCHANGED <<items, shown, links, chosen, log>>

\* The message routes pin it and leave the item alone.
PinAnyMessage(r) ==
  /\ Doing(r, "pinAny")
  /\ SetPinned(Call(r).id, Call(r).pinned)
  /\ byHand' = byHand \cup {Call(r).id}
  /\ Proceed(r, <<>>)
  /\ UNCHANGED <<items, shown, links, chosen, log>>

DropItem(r) ==
  /\ Doing(r, "drop")
  /\ items' = [items EXCEPT ![Call(r).id] = [state |-> "gone"]]
  /\ Proceed(r, <<>>)
  /\ UNCHANGED <<shown, pins, byHand, links, chosen, log>>

\* Any call may throw: the connection, a throttled table, a timeout.
CallFails(r) ==
  /\ Busy(r)
  /\ faults < MaxFaults
  /\ started + faults < MaxDisturbed
  /\ faults' = faults + 1
  /\ Throw(r)
  /\ UNCHANGED <<tables, chosen, log>>

-----------------------------------------------------------------------------
(* Polls *)

\* Mutant: the poll is stored before its message.
StoreAndShow(i, item) == <<Insert(i, item), Show(i)>>

\* The message in the timeline comes first: it names the item by its id.
ShowAndStore(i, item) == <<Show(i), Insert(i, item)>>

CreatePoll(r, u, p, form) ==
  /\ MayUse(u) /\ Fresh(p)
  /\ Begin(r, ShowAndStore(p, NewPoll(u, form)))

\* Mutant: the options that are given up keep the vote.
CastOnly(item, u, choice) ==
  [o \in Options |-> IF o \in choice THEN item.votes[o] \cup {u} ELSE item.votes[o]]

\* The votes after u has chosen, computed from the poll that was read.
Cast(item, u, choice) ==
  [o \in Options |-> IF o \in choice THEN item.votes[o] \cup {u} ELSE item.votes[o] \ {u}]

\* An empty choice takes the vote back.
VotePoll(r, u, p, choice) ==
  /\ IsOpen(p)
  /\ LET poll == items[p]
         before == Selection(poll.votes, u)
     IN /\ choice \subseteq poll.options
        /\ poll.multi \/ Cardinality(choice) <= 1
        /\ choice # before
        /\ before # {} => poll.change
        /\ Begin(r, <<[kind |-> "set", id |-> p, set |-> [votes |-> Cast(poll, u, choice)],
                       vote |-> [by |-> u, for |-> choice]]>>)

\* The whole list of options is written back, with its votes.
AddPollOption(r, p, o) ==
  /\ IsOpen(p)
  /\ items[p].add
  /\ o \notin items[p].options
  /\ Begin(r, <<Set(p, [options |-> items[p].options \cup {o}, votes |-> items[p].votes])>>)

ClosePoll(r, u, p) ==
  /\ MayManage(u, p)
  /\ items[p].status # "CLOSED"
  /\ Begin(r, <<Set(p, [status |-> "CLOSED"])>>)

\* PinPoll, UnpinPoll, PinGroupReminder, UnpinGroupReminder
PinItem(r, u, i, pinned) ==
  /\ MayManage(u, i)
  /\ Begin(r, <<Set(i, [pinned |-> pinned]), PinMessage(i, pinned)>>)

\* Mutant: the message of a poll that is deleted stays pinned.
DropPoll(r, u, p) ==
  /\ MayManage(u, p)
  /\ Begin(r, <<[kind |-> "drop", id |-> p]>>)

DeletePoll(r, u, p) ==
  /\ MayManage(u, p)
  /\ Begin(r, (IF items[p].pinned THEN <<PinMessage(p, FALSE)>> ELSE <<>>)
              \o <<[kind |-> "drop", id |-> p]>>)

\* The routes that pin and unpin a message, of whatever type it is: the message
\* of a poll or a reminder stays in the timeline when the item is deleted.
PinOrUnpinMessage(r, i, pinned) ==
  /\ i \in shown /\ (i \in pins) # pinned
  /\ Begin(r, <<[kind |-> "pinAny", id |-> i, pinned |-> pinned]>>)

-----------------------------------------------------------------------------
(* Reminders and notes *)

CreateGroupReminder(r, u, i, form) ==
  /\ MayUse(u) /\ Fresh(i)
  /\ Begin(r, ShowAndStore(i, NewReminder(u, form)))

\* The next notice is computed from the reminder that was read.
Rescheduled(item, edit) ==
  LET merged == Merged(edit, item)
  IN IF {"at", "before", "repeat"} \cap DOMAIN edit = {} THEN edit
     ELSE [f \in DOMAIN edit \cup {"next"} |->
             IF f = "next" THEN FirstNotice(merged.at, merged.before) ELSE edit[f]]

UpdateGroupReminder(r, u, i, edit) ==
  /\ MayManage(u, i)
  /\ Begin(r, <<Set(i, Rescheduled(items[i], edit))>>)

DeleteGroupReminder(r, u, i) ==
  /\ MayManage(u, i)
  /\ Begin(r, <<Set(i, [status |-> "CANCELLED"])>>)

CreateGroupNote(r, u, n) ==
  /\ MayUse(u) /\ Fresh(n)
  /\ Begin(r, <<Insert(n, NewNote(u))>>)

\* assertManager: the creator of a note may not change it.
UpdateGroupNote(r, u, n) ==
  /\ IsLive(n) /\ u \in Managers
  /\ Begin(r, <<Set(n, <<>>)>>)

DeleteGroupNote(r, u, n) ==
  /\ IsLive(n) /\ u \in Managers
  /\ Begin(r, <<[kind |-> "drop", id |-> n]>>)

-----------------------------------------------------------------------------
(* Invite links *)

ActiveLinks == {t \in Tokens : links[t] = "active"}
NewLink == <<[kind |-> "newLink"]>>

BeginLink(r, then) ==
  /\ LinksInUse \/ ToolsInUse < MaxTools
  /\ Begin(r, <<[kind |-> "findLink", then |-> then]>>)

GetGroupInviteLink(r) == BeginLink(r, "get")
RegenerateGroupInviteLink(r) == BeginLink(r, "regenerate")
RevokeGroupInviteLink(r) == BeginLink(r, "revoke")

\* Mutant: a new link is made and the old one is left as it was.
KeepAndMake(t) == NewLink

RevokeAndMake(t) == <<[kind |-> "revokeLink", token |-> t]>> \o NewLink

\* findActiveByConversationId returns one of the active links, if there is any.
FindLink(r) ==
  /\ Doing(r, "findLink")
  /\ IF ActiveLinks = {}
       THEN Proceed(r, IF Call(r).then = "revoke" THEN <<>> ELSE NewLink)
       ELSE \E t \in ActiveLinks :
              Proceed(r, CASE Call(r).then = "get" -> <<>>
                           [] Call(r).then = "regenerate" -> RevokeAndMake(t)
                           [] Call(r).then = "revoke" -> <<[kind |-> "revokeLink", token |-> t]>>)
  /\ UNCHANGED <<tables, chosen, log>>

\* revoke: on the condition that the link is active.
RevokeLink(r) ==
  LET t == Call(r).token
  IN /\ Doing(r, "revokeLink")
     /\ IF links[t] = "active"
          THEN links' = [links EXCEPT ![t] = "revoked"] /\ Proceed(r, <<>>)
          ELSE UNCHANGED <<links, faults>> /\ Throw(r)
     /\ UNCHANGED <<items, shown, pins, byHand, chosen, log>>

MakeLink(r) ==
  /\ Doing(r, "newLink")
  /\ \E t \in Tokens : links[t] = "unused" /\ links' = [links EXCEPT ![t] = "active"]
  /\ Proceed(r, <<>>)
  /\ UNCHANGED <<items, shown, pins, byHand, chosen, log>>

-----------------------------------------------------------------------------
(* The worker.  A run works with the time it was started at. *)

Resting == [pc |-> "idle"]
IsDue(i, t) == IsLive(i) /\ items[i].status = "ACTIVE" /\ items[i].next <= t
IsExpired(p, t) ==
  IsLive(p) /\ items[p].status = "ACTIVE" /\ items[p].expires # 0 /\ items[p].expires <= t

WorkerGoes(w, state) ==
  /\ workers' = [workers EXCEPT ![w] = state]
  /\ UNCHANGED <<now, slots, counters, chosen>>

\* runOnce, unless the last run is still under way: findExpiredActivePolls.
\* An instance whose table holds nothing to do has nothing to run for.
RunOnce(w) ==
  /\ workers[w] = Resting
  /\ \E i \in PollIds : IsExpired(i, now) \/ \E j \in ReminderIds : IsDue(j, now)
  /\ WorkerGoes(w, [pc |-> "polls", now |-> now, left |-> {p \in PollIds : IsExpired(p, now)}])
  /\ UNCHANGED <<tables, log>>

\* Mutant: a poll that ends at this very moment is found and not closed.
ExpiredBefore(p, t) == IsExpired(p, t) /\ items[p].expires < t

\* The condition of closeExpired.
StillExpired(p, t) == IsExpired(p, t)

CloseExpired(w) ==
  /\ workers[w].pc = "polls"
  /\ \E p \in workers[w].left :
       LET rest == [workers[w] EXCEPT !.left = @ \ {p}]
       IN IF StillExpired(p, workers[w].now)
            THEN /\ items' = [items EXCEPT ![p].status = "CLOSED"]
                 /\ WorkerGoes(w, [pc |-> "notify", about |-> <<p, 0>>, then |-> rest])
            ELSE WorkerGoes(w, rest) /\ UNCHANGED items
  /\ UNCHANGED <<shown, pins, byHand, links, log>>

\* findDueReminders, with the reminders as they are read here.
FindDue(w) ==
  /\ workers[w].pc = "polls" /\ workers[w].left = {}
  /\ WorkerGoes(w, LET due == {i \in ReminderIds : IsDue(i, workers[w].now)}
                   IN [pc |-> "reminders", now |-> workers[w].now,
                       read |-> [i \in due |-> items[i]]])
  /\ UNCHANGED <<tables, log>>

\* getNextRepeatedReminderAt: a day is one tick.
NextRepeated(at, t) == IF at < t THEN t + 1 ELSE at + 1

\* getReminderNotificationUpdate, from the reminder that was read.
AfterNotice(item, t) ==
  IF t < item.at THEN [next |-> item.at]
  ELSE IF ~item.repeat THEN [status |-> "DONE"]
  ELSE [at |-> NextRepeated(item.at, t), next |-> FirstNotice(NextRepeated(item.at, t), item.before)]

\* Mutant: the reminder is updated without its condition.
AnyReminder(i, read) == IsLive(i)

\* The condition of updateDueReminder.
StillDue(i, read) == IsLive(i) /\ items[i].status = "ACTIVE" /\ items[i].next = read.next

UpdateDueReminder(w) ==
  /\ workers[w].pc = "reminders"
  /\ \E i \in DOMAIN workers[w].read :
       LET read == workers[w].read[i]
           update == AfterNotice(read, workers[w].now)
           rest == [workers[w] EXCEPT !.read = [j \in DOMAIN @ \ {i} |-> @[j]]]
       IN IF StillDue(i, read)
            THEN /\ items' = [items EXCEPT ![i] = Merged(update, items[i])]
                 /\ armed' = IF "next" \in DOMAIN update THEN [armed EXCEPT ![i] = @ + 1] ELSE armed
                 /\ WorkerGoes(w, [pc |-> "notify", about |-> <<i, armed[i]>>, then |-> rest])
            ELSE WorkerGoes(w, rest) /\ UNCHANGED <<items, armed>>
  /\ UNCHANGED <<shown, pins, byHand, links, announced, repeated>>

\* The message of the announcement and the events that carry it.  It is about
\* the end of a poll, or about a reminder as it was set when it went off.
Notify(w) ==
  /\ workers[w].pc = "notify"
  /\ announced' = announced \cup {workers[w].about}
  /\ repeated' = repeated \cup ({workers[w].about} \cap announced)
  /\ WorkerGoes(w, workers[w].then)
  /\ UNCHANGED <<tables, armed>>

FinishRun(w) ==
  /\ workers[w].pc = "reminders" /\ DOMAIN workers[w].read = {}
  /\ WorkerGoes(w, Resting)
  /\ UNCHANGED <<tables, log>>

\* A call of the run throws: the rest of the run is dropped, the next run
\* starts afresh.
RunFails(w) ==
  /\ workers[w] # Resting
  /\ faults < MaxFaults
  /\ faults' = faults + 1
  /\ workers' = [workers EXCEPT ![w] = Resting]
  /\ UNCHANGED <<now, tables, slots, started, calm, chosen, log>>

-----------------------------------------------------------------------------
Init ==
  /\ now = 0
  /\ items = [i \in ItemIds |-> Missing]
  /\ shown = {} /\ pins = {} /\ byHand = {}
  /\ links = [t \in Tokens |-> "unused"]
  /\ slots = [r \in Slots |-> Idle]
  /\ workers = [w \in Workers |-> Resting]
  /\ started = 0 /\ faults = 0 /\ calm = TRUE
  /\ chosen = [p \in PollIds |-> [u \in Members |-> {}]]
  /\ armed = [i \in ReminderIds |-> 0]
  /\ announced = {} /\ repeated = {}

Tick ==
  /\ now < MaxTime
  /\ now' = now + 1
  /\ UNCHANGED <<tables, slots, workers, counters, chosen, log>>

PollUseCase(r, u) ==
  \E p \in PollIds :
    \/ \E form \in PollChoices : CreatePoll(r, u, p, form)
    \/ \E choice \in SUBSET Options : VotePoll(r, u, p, choice)
    \/ \E o \in Options : AddPollOption(r, p, o)
    \/ ClosePoll(r, u, p)
    \/ DeletePoll(r, u, p)

UtilityUseCase(r, u) ==
  \/ \E i \in ReminderIds :
       \/ \E form \in ReminderChoices : CreateGroupReminder(r, u, i, form)
       \/ \E edit \in EditChoices : UpdateGroupReminder(r, u, i, edit)
       \/ DeleteGroupReminder(r, u, i)
  \/ \E n \in NoteIds :
       CreateGroupNote(r, u, n) \/ UpdateGroupNote(r, u, n) \/ DeleteGroupNote(r, u, n)
  \/ \E i \in PollIds \cup ReminderIds, pinned \in BOOLEAN : PinItem(r, u, i, pinned)

MessageUseCase(r) ==
  \E i \in PollIds \cup ReminderIds, pinned \in BOOLEAN : PinOrUnpinMessage(r, i, pinned)

LinkUseCase(r) ==
  \/ GetGroupInviteLink(r)
  \/ RegenerateGroupInviteLink(r)
  \/ RevokeGroupInviteLink(r)

DatabaseCall(r) ==
  \/ WriteMessage(r)
  \/ InsertItem(r)
  \/ SetItem(r)
  \/ PinItemMessage(r)
  \/ PinAnyMessage(r)
  \/ DropItem(r)
  \/ FindLink(r)
  \/ RevokeLink(r)
  \/ MakeLink(r)
  \/ CallFails(r)

WorkerStep(w) ==
  \/ RunOnce(w)
  \/ CloseExpired(w)
  \/ FindDue(w)
  \/ UpdateDueReminder(w)
  \/ Notify(w)
  \/ FinishRun(w)

Next ==
  \/ \E r \in Slots :
       \/ \E u \in Members : PollUseCase(r, u) \/ UtilityUseCase(r, u)
       \/ MessageUseCase(r)
       \/ LinkUseCase(r)
       \/ DatabaseCall(r)
  \/ \E w \in Workers : WorkerStep(w) \/ RunFails(w)
  \/ Tick

Spec == Init /\ [][Next]_vars

\* setInterval starts a run every thirty seconds, and a run that was started
\* goes on.  Nothing is assumed about the requests or the clock.
FairSpec == Spec /\ \A w \in Workers : WF_vars(WorkerStep(w))

-----------------------------------------------------------------------------
(* Properties *)

\* The end of a poll, and a reminder each time it is set to go off, is announced
\* by the workers at most once, however many instances run at the same time and
\* whatever is edited, closed or cancelled between their reads and their writes.
AnnouncedOnce == repeated = {}

\* A poll that has expired is closed and a reminder that is due goes off, or is
\* cancelled or put off, in the end: a run that throws does not stop the worker.
DueIsHandled ==
  /\ \A p \in PollIds : IsExpired(p, now) ~> ~IsExpired(p, now)
  /\ \A i \in ReminderIds : IsDue(i, now) ~> ~IsDue(i, now)

\* Handled one at a time and without failures, a poll holds for every member
\* exactly the options of the last choice that was stored for him, also after
\* options were added, the vote was changed or taken back or the poll was closed.
VotesAreKept ==
  calm => \A p \in PollIds, u \in Members :
            IsLive(p) => Selection(items[p].votes, u) = chosen[p][u]

\* Handled one at a time and without failures, a group has at most one link that
\* lets people in: asking for the link finds it, and a new one replaces it.
OneActiveLink == calm => Cardinality(ActiveLinks) <= 1

\* A poll or a reminder that is stored is in the timeline, wherever the request
\* that created it has stopped.  Between requests that are handled one at a time
\* and do not fail, its message is pinned exactly when the item says so, and no
\* message of a poll that is gone stays pinned, unless the message itself was
\* pinned or unpinned since: the message routes write the same field, and the
\* items do not know.  The next request that pins, unpins or deletes a pinned
\* item brings the two together again.
TimelineAgrees ==
  \A i \in PollIds \cup ReminderIds :
    /\ IsLive(i) => i \in shown
    /\ calm /\ (\A r \in Slots : ~Busy(r)) =>
         i \in byHand \/ (i \in pins <=> IsLive(i) /\ items[i].pinned)
=============================================================================
