--------------------------- MODULE CallController ---------------------------
(***************************************************************************)
(* The handlers of the HTTP controller around the call service, and the    *)
(* log writer they await (call-log.service.ts).  A handler calls the       *)
(* service; if the call is over it writes the call message, updates the    *)
(* conversation, counts a missed call as unread, and tells the clients.    *)
(* Those writes cross awaits: each is an action of its own and interleaves *)
(* with every other handler, with a failure of the database and with a     *)
(* restart of the process.                                                 *)
(***************************************************************************)
EXTENDS Call

VARIABLES
  logging,      \* per call, the terminal handler in flight
  messages,     \* persisted: the call message of each call
  lastMessage,  \* persisted: the call conversation.lastMessage stands for
  counted,      \* persisted: calls added to the members' unread counts
  notified      \* the final event of each call, as sent to its clients

disk == <<messages, lastMessage, counted>>
allVars == <<vars, logging, disk, notified>>

NoMessage == [status |-> "none"]

\* A task has a phase ("insert", "link", "count", "emit") and the message it logs.
NoTask == [phase |-> "none"]

-----------------------------------------------------------------------------
\* Mutant: a call nobody answered is logged as completed.
LogStatusAnswered(s) ==
  CASE s.status = "MISSED"   -> "missed"
    [] s.status = "REJECTED" -> "rejected"
    [] OTHER                 -> "completed"

\* The log status of a call that was left or ended.
GetTerminalLogStatus(s) ==
  CASE s.status = "MISSED"    -> "missed"
    [] s.status = "REJECTED"  -> "rejected"
    [] s.status = "CANCELLED" -> "cancelled"
    [] OTHER                  -> "completed"

\* logTerminalCall takes its snapshot of the session (toLegacySession) in the
\* step that ended the call; the first await is the insert.  loggedMessageId
\* is still unset then: only the end of this same task sets it.
StartLog(c, s, status) ==
  logging' = [logging EXCEPT ![c] =
    [phase   |-> "insert",
     message |-> [conv |-> s.conv, status |-> status, outcomes |-> s.participants]]]

\* What every handler does once the service has answered { session, terminal }.
LogIfTerminal(c, status) ==
  /\ IF IsTerminal(sessions'[c])
       THEN StartLog(c, sessions'[c], status)
       ELSE UNCHANGED logging
  /\ UNCHANGED <<disk, notified>>

ControllerInit ==
  /\ Init
  /\ logging = [c \in CallIds |-> NoTask]
  /\ messages = [c \in CallIds |-> NoMessage]
  /\ lastMessage = [v \in Conversations |-> NoCall]
  /\ counted = {}
  /\ notified = [c \in CallIds |-> "none"]

\* A private call to a busy callee is logged although it was never stored.
HandleCreate(c, u) ==
  \E v \in Conversations : \E us \in Invitees(u, v) :
    /\ CreateCall(c, u, v, us)
    /\ IF PrivateBusy(v, us)
         THEN StartLog(c, NewSession(u, v, us, Busy(us), "MISSED"), "missed")
         ELSE UNCHANGED logging
    /\ UNCHANGED <<disk, notified>>

HandleJoin(c, u) == JoinCall(c, u) /\ UNCHANGED <<logging, disk, notified>>
HandleReject(c, u) == RejectCall(c, u) /\ LogIfTerminal(c, "rejected")
HandleMissed(c, u) == MarkMissed(c, u) /\ LogIfTerminal(c, "missed")
HandleLeave(c, u) == LeaveCall(c, u) /\ LogIfTerminal(c, GetTerminalLogStatus(sessions'[c]))
HandleEnd(c, u) == EndCall(c, u) /\ LogIfTerminal(c, GetTerminalLogStatus(sessions'[c]))
HandleTimeout(c) == Timeout(c) /\ LogIfTerminal(c, "missed")

-----------------------------------------------------------------------------
\* createTerminalLog, one await at a time.
InLog(c, phase) == logging[c].phase = phase
NextPhase(c, phase) == logging' = [logging EXCEPT ![c].phase = phase]

InsertMessage(c) ==
  /\ InLog(c, "insert")
  /\ messages' = [messages EXCEPT ![c] = logging[c].message]
  /\ NextPhase(c, "link")
  /\ UNCHANGED <<vars, lastMessage, counted, notified>>

\* Mutant: missed calls are not counted as unread.
AfterLinkUncounted(status) == "emit"

\* Only a missed call is added to the members' unread counts.
AfterLink(status) == IF status = "missed" THEN "count" ELSE "emit"

LinkLastMessage(c) ==
  /\ InLog(c, "link")
  /\ lastMessage' = [lastMessage EXCEPT ![logging[c].message.conv] = c]
  /\ NextPhase(c, AfterLink(logging[c].message.status))
  /\ UNCHANGED <<vars, messages, counted, notified>>

CountMissed(c) ==
  /\ InLog(c, "count")
  /\ counted' = counted \cup {c}
  /\ NextPhase(c, "emit")
  /\ UNCHANGED <<vars, messages, lastMessage, notified>>

\* Mutant: an error after the final event is handled like one before it.
EmitWithinTry(c) ==
  /\ InLog(c, "emit")
  /\ notified' = [notified EXCEPT ![c] = "logged"]
  /\ UNCHANGED <<vars, disk, logging>>

\* emitMessage, then call:ended (call:busy for a call that was never stored).
EmitAndNotify(c) ==
  /\ InLog(c, "emit")
  /\ logging' = [logging EXCEPT ![c] = NoTask]
  /\ notified' = [notified EXCEPT ![c] = "logged"]
  /\ UNCHANGED <<vars, disk>>

\* Mutant: an error of the log ends the handler.
LogFailsSilently(c) ==
  /\ ~InLog(c, "none")
  /\ logging' = [logging EXCEPT ![c] = NoTask]
  /\ UNCHANGED <<vars, disk, notified>>

\* Any await of the log may throw: the error is swallowed and the clients are
\* told of the end of the call without a message.
LogFails(c) ==
  /\ ~InLog(c, "none")
  /\ logging' = [logging EXCEPT ![c] = NoTask]
  /\ notified' = [notified EXCEPT ![c] = "unlogged"]
  /\ UNCHANGED <<vars, disk>>

LogStep(c) ==
  \/ InsertMessage(c)
  \/ LinkLastMessage(c)
  \/ CountMissed(c)
  \/ EmitAndNotify(c)
  \/ LogFails(c)

\* The handlers in flight die with the process, the database stays.
ControllerRestart ==
  /\ Restart
  /\ logging' = [c \in CallIds |-> NoTask]
  /\ UNCHANGED <<disk, notified>>

Request(c, u) ==
  \/ HandleCreate(c, u)
  \/ HandleJoin(c, u)
  \/ HandleReject(c, u)
  \/ HandleMissed(c, u)
  \/ HandleLeave(c, u)
  \/ HandleEnd(c, u)

ControllerNext ==
  \/ \E c \in CallIds :
       (\E u \in Users : Request(c, u)) \/ HandleTimeout(c) \/ LogStep(c)
  \/ ControllerRestart

ControllerSpec == ControllerInit /\ [][ControllerNext]_allVars

\* An armed timer fires and an await that was started settles.
ControllerFairness ==
  \A c \in CallIds : WF_allVars(HandleTimeout(c)) /\ WF_allVars(LogStep(c))

FairControllerSpec == ControllerSpec /\ ControllerFairness

-----------------------------------------------------------------------------
(* Properties *)

\* A persisted call message says what happened: its outcomes are the final
\* outcomes of the session it was written for, and its status is the session's,
\* however many steps passed between the end of the call and the insert.
MessageMatchesSession ==
  \A c \in CallIds :
    messages[c] # NoMessage /\ Stored(c) =>
      /\ IsTerminal(sessions[c])
      /\ messages[c].conv = sessions[c].conv
      /\ messages[c].outcomes = sessions[c].participants
      /\ <<sessions[c].status, messages[c].status>> \in
           {<<"ENDED", "completed">>, <<"MISSED", "missed">>,
            <<"REJECTED", "rejected">>, <<"CANCELLED", "cancelled">>}

\* Clients that are told of a logged call can find it: the message is stored,
\* and it was counted as unread exactly if it is a missed call.
LoggedIsComplete ==
  \A c \in CallIds :
    notified[c] = "logged" =>
      /\ messages[c] # NoMessage
      /\ c \in counted <=> messages[c].status = "missed"

\* A call message is written once and never rewritten, and the clients get at
\* most one final event per call.
LoggedOnce ==
  [][\A c \in CallIds :
       /\ messages[c] # NoMessage => messages'[c] = messages[c]
       /\ notified[c] # "none" => notified'[c] = notified[c]]_allVars

\* The end of a call reaches the clients, logged or not, unless the process
\* stops first and forgets the call.
EndIsNotified ==
  \A c \in CallIds :
    (Stored(c) /\ IsTerminal(sessions[c])) ~> (notified[c] # "none" \/ ~Stored(c))
=============================================================================
