-------------------------------- MODULE Call --------------------------------
(***************************************************************************)
(* The call service (call-v2.service.ts): the in-memory sessions of the    *)
(* process and the two maps that say which call occupies a conversation    *)
(* and which call makes a user busy.  Every method runs without an await,  *)
(* so it is one action; what the controller adds to a step (the checks     *)
(* before createCall and joinCall) is part of the guard.                   *)
(***************************************************************************)
EXTENDS Naturals, FiniteSets

CONSTANTS
  Users,          \* user ids
  Conversations,  \* conversation ids
  Groups,         \* the conversations whose type is GROUP
  Members,        \* per conversation, the users that may be active members
  CallIds,        \* call ids (uuids: a fresh one for each call)
  NoCall          \* no entry in a map of call ids

ASSUME CallAssumption ==
  /\ Groups \subseteq Conversations
  /\ Members \in [Conversations -> SUBSET Users]
  /\ NoCall \notin CallIds

VARIABLES
  sessions,           \* activeCalls: never shrinks while the process lives
  conversationCalls,  \* conversation id -> the call that occupies it
  userCalls,          \* user id -> the call that makes the user busy
  created             \* call ids handed out so far

vars == <<sessions, conversationCalls, userCalls, created>>

-----------------------------------------------------------------------------
Terminal == {"ENDED", "MISSED", "REJECTED", "CANCELLED"}
SessionStatus == {"RINGING", "IN_CALL"} \cup Terminal

\* "absent" stands for a user without an entry in session.participants.
ParticipantStatus ==
  {"absent", "INVITED", "RINGING", "JOINED", "DECLINED", "MISSED", "LEFT", "BUSY"}
Unanswered == {"RINGING", "INVITED"}

Outcomes == [Users -> ParticipantStatus]

\* everJoined is the set of participants whose joinedAt is set, answered is
\* "answeredAt is set", timer is "the timeout has not fired or been cleared".
Session == [caller: Users, conv: Conversations, status: SessionStatus,
            participants: Outcomes, answered: BOOLEAN,
            everJoined: SUBSET Users, timer: BOOLEAN]
NoSession == [status |-> "none"]

-----------------------------------------------------------------------------
IsGroup(s) == s.conv \in Groups
IsTerminal(s) == s.status \in Terminal
Stored(c) == sessions[c] # NoSession
Live(c) == Stored(c) /\ ~IsTerminal(sessions[c])

Participants(s) == {u \in Users : s.participants[u] # "absent"}

HasJoinedParticipant(s, includeCaller) ==
  \E u \in Users : /\ includeCaller \/ u # s.caller
                   /\ s.participants[u] = "JOINED"

HasEverJoinedCallee(s) == \E u \in Users : u # s.caller /\ u \in s.everJoined

HasRingingParticipant(s) == \E u \in Users : s.participants[u] \in Unanswered

IsUserBusy(u) == userCalls[u] # NoCall /\ Live(userCalls[u])

\* Mutant: assertNotTerminal is forgotten.
MayActOnEnded(c, u) == Stored(c) /\ u \in Participants(sessions[c])

\* requireCall, assertParticipant and assertNotTerminal.
MayAct(c, u) == Live(c) /\ u \in Participants(sessions[c])

\* releaseUser for every user of us: only an entry naming this call goes.
Released(c, us) ==
  [u \in Users |-> IF u \in us /\ userCalls[u] = c THEN NoCall ELSE userCalls[u]]

\* Mutant: a user who quits stays busy.
KeepBusy(c, s, quit) ==
  /\ sessions' = [sessions EXCEPT ![c] = s]
  /\ UNCHANGED <<userCalls, conversationCalls, created>>

\* Mutant: the first participant who quits clears the timeout of the call.
KeepUntimed(c, s, quit) ==
  /\ sessions' = [sessions EXCEPT ![c] = [s EXCEPT !.timer = FALSE]]
  /\ userCalls' = Released(c, quit)
  /\ UNCHANGED <<conversationCalls, created>>

\* The session stays open; the users of quit are no longer busy with it.
Keep(c, s, quit) ==
  /\ sessions' = [sessions EXCEPT ![c] = s]
  /\ userCalls' = Released(c, quit)
  /\ UNCHANGED <<conversationCalls, created>>

\* Mutant: the conversation is not freed.
CloseOccupied(c, s) ==
  /\ sessions' = [sessions EXCEPT ![c] = [s EXCEPT !.timer = FALSE]]
  /\ userCalls' = Released(c, Participants(s))
  /\ UNCHANGED <<conversationCalls, created>>

\* releaseSession.
Close(c, s) ==
  /\ sessions' = [sessions EXCEPT ![c] = [s EXCEPT !.timer = FALSE]]
  /\ conversationCalls' = [conversationCalls EXCEPT ![s.conv] = NoCall]
  /\ userCalls' = Released(c, Participants(s))
  /\ UNCHANGED created

-----------------------------------------------------------------------------
Init ==
  /\ sessions = [c \in CallIds |-> NoSession]
  /\ conversationCalls = [v \in Conversations |-> NoCall]
  /\ userCalls = [u \in Users |-> NoCall]
  /\ created = {}

\* resolvePrivateInvitees and resolveGroupInvitees: the one other member, or
\* any non-empty choice among the other active members.
Invitees(caller, v) ==
  {us \in SUBSET (Members[v] \ {caller}) :
     /\ us # {}
     /\ v \notin Groups => \E u \in us : us = {u}}

NewSession(caller, v, callees, busy, status) ==
  [caller |-> caller, conv |-> v, status |-> status,
   participants |-> [u \in Users |-> IF u = caller THEN "JOINED"
                                     ELSE IF u \in busy THEN "BUSY"
                                     ELSE IF u \in callees THEN "RINGING"
                                     ELSE "absent"],
   answered |-> FALSE, everJoined |-> {caller}, timer |-> status = "RINGING"]

\* The callees that are busy, and what that means for a private call.
Busy(callees) == {u \in callees : IsUserBusy(u)}
PrivateBusy(v, callees) == v \notin Groups /\ Busy(callees) # {}

\* The caller is not asked whether it is busy: its userCalls entry moves.  A
\* private call to a busy callee is over at once and is never stored.
CreateCall(c, caller, v, callees) ==
  LET s == NewSession(caller, v, callees, Busy(callees), "RINGING")
  IN /\ c \notin created
     /\ caller \in Members[v]
     /\ conversationCalls[v] # NoCall => ~Live(conversationCalls[v])
     /\ created' = created \cup {c}
     /\ IF PrivateBusy(v, callees)
          THEN UNCHANGED <<sessions, conversationCalls, userCalls>>
          ELSE /\ sessions' = [sessions EXCEPT ![c] = s]
               /\ conversationCalls' = [conversationCalls EXCEPT ![v] = c]
               /\ userCalls' = [u \in Users |->
                    IF s.participants[u] \in {"JOINED", "RINGING"} THEN c ELSE userCalls[u]]

\* A member of a group may join without having been invited; a user whose
\* busy entry names another call is refused.  The timeout stays armed.
JoinCall(c, u) ==
  /\ Live(c)
  /\ u \in Members[sessions[c].conv]
  /\ IsGroup(sessions[c]) \/ u \in Participants(sessions[c])
  /\ userCalls[u] \in {NoCall, c}
  /\ sessions' = [sessions EXCEPT
       ![c].participants = [sessions[c].participants EXCEPT ![u] = "JOINED"],
       ![c].everJoined = sessions[c].everJoined \cup {u},
       ![c].answered = TRUE,
       ![c].status = "IN_CALL"]
  /\ userCalls' = [userCalls EXCEPT ![u] = c]
  /\ UNCHANGED <<conversationCalls, created>>

\* The session after participant u has taken the given outcome.
WithOutcome(c, u, outcome) ==
  [sessions[c] EXCEPT !.participants = [sessions[c].participants EXCEPT ![u] = outcome]]

\* Nobody is left to talk to the caller.
NobodyElse(s) ==
  ~IsGroup(s) \/ (~HasJoinedParticipant(s, FALSE) /\ ~HasRingingParticipant(s))

RejectCall(c, u) ==
  LET s == WithOutcome(c, u, "DECLINED")
  IN /\ MayAct(c, u)
     /\ IF NobodyElse(s)
          THEN Close(c, [s EXCEPT !.status = "REJECTED"])
          ELSE Keep(c, s, {u})

MarkMissed(c, u) ==
  LET s == WithOutcome(c, u, "MISSED")
  IN /\ MayAct(c, u)
     /\ IF NobodyElse(s)
          THEN Close(c, [s EXCEPT !.status = "MISSED"])
          ELSE Keep(c, s, {u})

\* Mutant: the participant's status is written to the session.
HangupAsLeft(s) == [s EXCEPT !.status = IF s.answered THEN "LEFT" ELSE "CANCELLED"]

\* The status of a call that is left or ended by a participant.
Hangup(s) == [s EXCEPT !.status = IF s.answered THEN "ENDED" ELSE "CANCELLED"]

LeaveCall(c, u) ==
  LET s == WithOutcome(c, u, "LEFT")
  IN /\ MayAct(c, u)
     /\ IF ~HasJoinedParticipant(s, TRUE) \/ ~IsGroup(s)
          THEN Close(c, Hangup(s))
          ELSE Keep(c, s, {u})

EndCall(c, u) ==
  LET ended == [x \in Users |->
        LET p == sessions[c].participants[x]
        IN IF p \in Unanswered THEN "MISSED" ELSE IF p = "JOINED" THEN "LEFT" ELSE p]
      s == [sessions[c] EXCEPT !.participants = ended]
  IN /\ MayAct(c, u)
     /\ Close(c, Hangup(s))

\* Mutant: the timeout is ignored once somebody has joined.
TimeoutWhileRinging(c) == Live(c) /\ sessions[c].timer /\ sessions[c].status = "RINGING"

\* The timer fires for a call that is not over, whether it rings or not.
TimeoutDue(c) == Live(c) /\ sessions[c].timer

\* handleTimeout: whoever still rings has missed the call; the call itself is
\* missed only if no callee has ever joined it.
Timeout(c) ==
  LET missed == {u \in Users : sessions[c].participants[u] \in Unanswered}
      s == [sessions[c] EXCEPT
              !.participants = [u \in Users |-> IF u \in missed THEN "MISSED"
                                                ELSE sessions[c].participants[u]],
              !.timer = FALSE]
  IN /\ TimeoutDue(c)
     /\ IF ~HasEverJoinedCallee(s)
          THEN Close(c, [s EXCEPT !.status = "MISSED"])
          ELSE Keep(c, [s EXCEPT !.status = "IN_CALL"], missed)

\* The process stops and is started again: the maps and timers are gone.
Restart ==
  /\ created # {}
  /\ sessions' = [c \in CallIds |-> NoSession]
  /\ conversationCalls' = [v \in Conversations |-> NoCall]
  /\ userCalls' = [u \in Users |-> NoCall]
  /\ UNCHANGED created

-----------------------------------------------------------------------------
UserStep(c, u) ==
  \/ \E v \in Conversations : \E us \in Invitees(u, v) : CreateCall(c, u, v, us)
  \/ JoinCall(c, u)
  \/ RejectCall(c, u)
  \/ MarkMissed(c, u)
  \/ LeaveCall(c, u)
  \/ EndCall(c, u)

Next ==
  \/ \E c \in CallIds : (\E u \in Users : UserStep(c, u)) \/ Timeout(c)
  \/ Restart

Spec == Init /\ [][Next]_vars

-----------------------------------------------------------------------------
(* Properties *)

\* Every variable keeps the shape of the map, record or row it stands for.
TypeOK ==
  /\ sessions \in [CallIds -> Session \cup {NoSession}]
  /\ conversationCalls \in [Conversations -> CallIds \cup {NoCall}]
  /\ userCalls \in [Users -> CallIds \cup {NoCall}]
  /\ created \in SUBSET CallIds

\* conversationCalls names exactly the live calls: a conversation has at most
\* one, a live call is always found through its conversation, and no ended
\* call keeps its conversation occupied.  (createCall and releaseSession.)
ConversationIndexExact ==
  \A c \in CallIds, v \in Conversations :
    conversationCalls[v] = c <=> Live(c) /\ sessions[c].conv = v

\* A busy entry always names a live call that the user is in or that rings
\* for the user: nobody stays busy with a call that is over, declined or left.
BusyIndexSound ==
  \A u \in Users, c \in CallIds :
    userCalls[u] = c =>
      Live(c) /\ sessions[c].participants[u] \in {"JOINED", "RINGING"}

\* While someone rings in a live call the timeout is armed, whoever else has
\* joined, left or declined: handleTimeout is what stops the ringing.
RingingHasTimer ==
  \A c \in CallIds :
    Live(c) /\ HasRingingParticipant(sessions[c]) => sessions[c].timer

\* Once over, a call never changes again while the process lives: a late join,
\* reject, leave, end or timeout does not touch it.
TerminalIsFinal ==
  [][\A c \in CallIds :
       Stored(c) /\ IsTerminal(sessions[c]) =>
         sessions'[c] \in {sessions[c], NoSession}]_vars

\* Where a call is in the life its clients see.
Stage(c) ==
  IF c \notin created THEN "unused"
  ELSE IF ~Stored(c) THEN "gone"
  ELSE CASE sessions[c].status = "RINGING" -> "ringing"
         [] sessions[c].status = "IN_CALL" -> "talking"
         [] OTHER -> sessions[c].status

Lifecycle == INSTANCE CallLifecycle
  WITH occupied <- conversationCalls, stage <- [c \in CallIds |-> Stage(c)]

\* Seen from outside, the sessions, maps and timers behave like the life of a
\* call: one call for each conversation, which rings, may be answered and is
\* over once, completed only if somebody has answered.
LifecycleIsKept == Lifecycle!Spec

\* Nobody rings forever: the callee answers, declines or misses the call, or
\* the call is over.
RingingStops ==
  \A c \in CallIds, u \in Users :
    (Live(c) /\ sessions[c].participants[u] = "RINGING")
      ~> ~(Live(c) /\ sessions[c].participants[u] = "RINGING")
=============================================================================
