----------------------------- MODULE CallProofs -----------------------------
(***************************************************************************)
(* Proofs about calls, for any number of users, conversations and calls,   *)
(* wherever a write of the call log fails and whenever the process is      *)
(* restarted: the maps of the call service agree with its sessions, the    *)
(* service implements the life of a call (CallLifecycle), and what the     *)
(* call log writes and tells (CallController) is true.                     *)
(***************************************************************************)
EXTENDS CallController, TLAPS

\* A stored session belongs to a call id that was handed out, so a fresh id
\* never replaces a session (uuidv4 in createCall).
StoredIsCreated == \A c \in CallIds : Stored(c) => c \in created

\* The inductive invariant.  The two indexes need each other's sessions to be
\* typed, and createCall needs StoredIsCreated: a reused id would silently
\* replace a live session that both indexes still name.
Inv ==
  /\ TypeOK
  /\ StoredIsCreated
  /\ ConversationIndexExact
  /\ BusyIndexSound
  /\ RingingHasTimer

-----------------------------------------------------------------------------
\* The absent session is none of the sessions.
LEMMA NoSessionIsNoSession == NoSession \notin Session
BY DEF NoSession, Session, SessionStatus, Terminal

\* A live call has a session record.
LEMMA LiveIsSession ==
  ASSUME TypeOK, NEW c \in CallIds, Live(c)
  PROVE  /\ sessions[c] \in Session
         /\ ~IsTerminal(sessions[c])
         /\ sessions[c].conv \in Conversations
BY DEF TypeOK, Live, Stored, Session

\* releaseUser only ever clears entries.
LEMMA ReleasedType ==
  ASSUME TypeOK, NEW c, NEW us
  PROVE  Released(c, us) \in [Users -> CallIds \cup {NoCall}]
BY DEF TypeOK, Released

\* Initially there is no session and no entry.
LEMMA InitInv == Init => Inv
BY CallAssumption, NoSessionIsNoSession
   DEF Init, Inv, TypeOK, StoredIsCreated, ConversationIndexExact, BusyIndexSound,
       RingingHasTimer, Live, Stored

-----------------------------------------------------------------------------
\* A step that keeps a live session open preserves the invariant, if whoever
\* is still busy with it is joined or ringing and a ringing needs a timer.
LEMMA KeepInv ==
  ASSUME Inv,
         NEW c \in CallIds, Live(c),
         NEW s \in Session, ~IsTerminal(s), s.conv = sessions[c].conv,
         NEW quit,
         \A u \in Users : userCalls[u] = c /\ u \notin quit
                            => s.participants[u] \in {"JOINED", "RINGING"},
         HasRingingParticipant(s) => s.timer,
         Keep(c, s, quit)
  PROVE  Inv'
<1>1. /\ sessions' = [sessions EXCEPT ![c] = s]
      /\ sessions'[c] = s
      /\ \A d \in CallIds : d # c => sessions'[d] = sessions[d]
  BY DEF Keep, Inv, TypeOK
<1>2. s # NoSession
  BY NoSessionIsNoSession
<1>3. /\ Live(c)'
      /\ \A d \in CallIds : Live(d)' <=> Live(d)
      /\ \A d \in CallIds : Stored(d)' <=> Stored(d)
  BY <1>1, <1>2 DEF Live, Stored, IsTerminal
<1>4. TypeOK'
  BY <1>1, ReleasedType DEF Keep, Inv, TypeOK
<1>5. StoredIsCreated'
  BY <1>3 DEF Keep, Inv, StoredIsCreated
<1>6. ConversationIndexExact'
  BY <1>1, <1>3 DEF Keep, Inv, ConversationIndexExact
<1>7. BusyIndexSound'
  <2> SUFFICES ASSUME NEW u \in Users, NEW d \in CallIds, userCalls'[u] = d
               PROVE  Live(d)' /\ sessions'[d].participants[u] \in {"JOINED", "RINGING"}
    BY DEF BusyIndexSound
  <2>1. userCalls[u] = d /\ ~(u \in quit /\ d = c)
    BY CallAssumption DEF Keep, Released, Inv, TypeOK
  <2>2. Live(d) /\ sessions[d].participants[u] \in {"JOINED", "RINGING"}
    BY <2>1 DEF Inv, BusyIndexSound
  <2> QED BY <2>1, <2>2, <1>1, <1>3
<1>8. RingingHasTimer'
  <2> SUFFICES ASSUME NEW d \in CallIds, Live(d)', HasRingingParticipant(sessions'[d])
               PROVE  sessions'[d].timer
    BY DEF RingingHasTimer, HasRingingParticipant
  <2>1. CASE d = c
    BY <2>1, <1>1
  <2>2. CASE d # c
    BY <2>2, <1>1, <1>3 DEF Inv, RingingHasTimer
  <2> QED BY <2>1, <2>2
<1> QED BY <1>4, <1>5, <1>6, <1>7, <1>8 DEF Inv

\* releaseSession, run on a live session whose new status is terminal and
\* which has lost no participant, preserves the invariant.
LEMMA CloseInv ==
  ASSUME Inv,
         NEW c \in CallIds, Live(c),
         NEW s \in Session, IsTerminal(s), s.conv = sessions[c].conv,
         Participants(sessions[c]) \subseteq Participants(s),
         Close(c, s)
  PROVE  Inv'
<1> DEFINE t == [s EXCEPT !.timer = FALSE]
<1>1. /\ t \in Session
      /\ IsTerminal(t)
      /\ t.conv = sessions[c].conv
      /\ s.conv \in Conversations
  BY DEF Session, IsTerminal
<1> HIDE DEF t
<1>2. /\ sessions' = [sessions EXCEPT ![c] = t]
      /\ sessions'[c] = t
      /\ \A d \in CallIds : d # c => sessions'[d] = sessions[d]
  BY DEF Close, Inv, TypeOK, t
<1>3. /\ ~Live(c)'
      /\ \A d \in CallIds : d # c => (Live(d)' <=> Live(d))
      /\ \A d \in CallIds : d # c => (Stored(d)' <=> Stored(d))
  BY <1>1, <1>2 DEF Live, Stored
<1>4. TypeOK'
  BY <1>1, <1>2, ReleasedType DEF Close, Inv, TypeOK
<1>5. StoredIsCreated'
  BY <1>3 DEF Close, Inv, StoredIsCreated, Live
<1>6. ConversationIndexExact'
  <2> SUFFICES ASSUME NEW d \in CallIds, NEW v \in Conversations
               PROVE  conversationCalls'[v] = d <=> Live(d)' /\ sessions'[d].conv = v
    BY DEF ConversationIndexExact
  <2>1. /\ conversationCalls'[s.conv] = NoCall
        /\ v # s.conv => conversationCalls'[v] = conversationCalls[v]
    BY <1>1 DEF Close, Inv, TypeOK
  <2>2. /\ conversationCalls[v] = d <=> Live(d) /\ sessions[d].conv = v
        /\ conversationCalls[v] = c <=> Live(c) /\ sessions[c].conv = v
    BY DEF Inv, ConversationIndexExact
  <2>3. CASE d = c
    BY <2>1, <2>2, <2>3, <1>3, CallAssumption
  <2>4. CASE d # c
    BY <2>1, <2>2, <2>4, <1>2, <1>3, CallAssumption
  <2> QED BY <2>3, <2>4
<1>7. BusyIndexSound'
  <2> SUFFICES ASSUME NEW u \in Users, NEW d \in CallIds, userCalls'[u] = d
               PROVE  Live(d)' /\ sessions'[d].participants[u] \in {"JOINED", "RINGING"}
    BY DEF BusyIndexSound
  <2>1. userCalls[u] = d /\ ~(u \in Participants(s) /\ d = c)
    BY CallAssumption DEF Close, Released, Inv, TypeOK
  <2>2. Live(d) /\ sessions[d].participants[u] \in {"JOINED", "RINGING"}
    BY <2>1 DEF Inv, BusyIndexSound
  <2>3. d # c
    BY <2>1, <2>2 DEF Participants
  <2> QED BY <2>2, <2>3, <1>2, <1>3
<1>8. RingingHasTimer'
  <2> SUFFICES ASSUME NEW d \in CallIds, Live(d)', HasRingingParticipant(sessions'[d])
               PROVE  sessions'[d].timer
    BY DEF RingingHasTimer, HasRingingParticipant
  <2> QED BY <1>2, <1>3 DEF Inv, RingingHasTimer
<1> QED BY <1>4, <1>5, <1>6, <1>7, <1>8 DEF Inv

-----------------------------------------------------------------------------
\* createCall preserves the invariant: the conversation is free, the id is
\* fresh, and the users it makes busy are joined or ringing in the new call.
LEMMA CreateInv ==
  ASSUME Inv, NEW c \in CallIds, NEW u \in Users, NEW v \in Conversations,
         NEW us \in Invitees(u, v), CreateCall(c, u, v, us)
  PROVE  Inv'
<1> DEFINE s == NewSession(u, v, us, Busy(us), "RINGING")
<1>1. /\ s \in Session
      /\ s.conv = v
      /\ ~IsTerminal(s)
      /\ s.timer
  BY DEF NewSession, Session, SessionStatus, Terminal, Outcomes, ParticipantStatus,
         IsTerminal
<1>2. /\ c \notin created
      /\ created' = created \cup {c}
      /\ conversationCalls[v] # NoCall => ~Live(conversationCalls[v])
  BY DEF CreateCall
<1>3. ~Stored(c) /\ ~Live(c)
  BY <1>2 DEF Inv, StoredIsCreated, Live
<1>4. CASE PrivateBusy(v, us)
  <2>1. UNCHANGED <<sessions, conversationCalls, userCalls>>
    BY <1>4 DEF CreateCall
  <2> QED
    BY <2>1, <1>2 DEF Inv, TypeOK, StoredIsCreated, ConversationIndexExact,
                      BusyIndexSound, RingingHasTimer, Live, Stored
<1>5. CASE ~PrivateBusy(v, us)
  <2>1. /\ sessions' = [sessions EXCEPT ![c] = s]
        /\ conversationCalls' = [conversationCalls EXCEPT ![v] = c]
        /\ userCalls' = [x \in Users |-> IF s.participants[x] \in {"JOINED", "RINGING"}
                                           THEN c ELSE userCalls[x]]
    BY <1>5 DEF CreateCall
  <2> HIDE DEF s
  <2>2. /\ sessions'[c] = s
        /\ \A d \in CallIds : d # c => sessions'[d] = sessions[d]
    BY <2>1 DEF Inv, TypeOK
  <2>3. /\ Live(c)'
        /\ Stored(c)'
        /\ \A d \in CallIds : d # c => (Live(d)' <=> Live(d))
        /\ \A d \in CallIds : d # c => (Stored(d)' <=> Stored(d))
    BY <1>1, <2>2, NoSessionIsNoSession DEF Live, Stored
  <2>4. TypeOK'
    BY <1>1, <1>2, <2>1 DEF Inv, TypeOK
  <2>5. StoredIsCreated'
    BY <1>2, <2>3 DEF Inv, StoredIsCreated
  <2>6. ConversationIndexExact'
    <3> SUFFICES ASSUME NEW d \in CallIds, NEW w \in Conversations
                 PROVE  conversationCalls'[w] = d <=> Live(d)' /\ sessions'[d].conv = w
      BY DEF ConversationIndexExact
    <3>1. /\ conversationCalls'[v] = c
          /\ w # v => conversationCalls'[w] = conversationCalls[w]
      BY <2>1 DEF Inv, TypeOK
    <3>2. /\ conversationCalls[w] = d <=> Live(d) /\ sessions[d].conv = w
          /\ conversationCalls[v] = d <=> Live(d) /\ sessions[d].conv = v
      BY DEF Inv, ConversationIndexExact
    <3>3. CASE d = c
      BY <3>1, <3>2, <3>3, <2>2, <2>3, <1>1, <1>3
    <3>4. CASE d # c
      BY <3>1, <3>2, <3>4, <2>2, <2>3, <1>2, CallAssumption
    <3> QED BY <3>3, <3>4
  <2>7. BusyIndexSound'
    <3> SUFFICES ASSUME NEW x \in Users, NEW d \in CallIds, userCalls'[x] = d
                 PROVE  Live(d)' /\ sessions'[d].participants[x] \in {"JOINED", "RINGING"}
      BY DEF BusyIndexSound
    <3>1. CASE s.participants[x] \in {"JOINED", "RINGING"}
      BY <3>1, <2>1, <2>2, <2>3
    <3>2. CASE s.participants[x] \notin {"JOINED", "RINGING"}
      <4>1. userCalls[x] = d
        BY <3>2, <2>1
      <4>2. Live(d) /\ sessions[d].participants[x] \in {"JOINED", "RINGING"}
        BY <4>1 DEF Inv, BusyIndexSound
      <4> QED BY <4>2, <1>3, <2>2, <2>3
    <3> QED BY <3>1, <3>2
  <2>8. RingingHasTimer'
    <3> SUFFICES ASSUME NEW d \in CallIds, Live(d)', HasRingingParticipant(sessions'[d])
                 PROVE  sessions'[d].timer
      BY DEF RingingHasTimer, HasRingingParticipant
    <3>1. CASE d = c
      BY <3>1, <2>2, <1>1
    <3>2. CASE d # c
      BY <3>2, <2>2, <2>3 DEF Inv, RingingHasTimer
    <3> QED BY <3>1, <3>2
  <2> QED BY <2>4, <2>5, <2>6, <2>7, <2>8 DEF Inv
<1> QED BY <1>4, <1>5

\* joinCall preserves the invariant: the user's busy entry was free or already
\* named this call, and nobody else's changes.
LEMMA JoinInv ==
  ASSUME Inv, NEW c \in CallIds, NEW u \in Users, JoinCall(c, u)
  PROVE  Inv'
<1> DEFINE s == sessions'[c]
<1>1. /\ Live(c)
      /\ sessions[c] \in Session
      /\ userCalls' = [userCalls EXCEPT ![u] = c]
      /\ UNCHANGED <<conversationCalls, created>>
  BY LiveIsSession DEF JoinCall, Inv
<1>2. /\ s \in Session
      /\ ~IsTerminal(s)
      /\ s.conv = sessions[c].conv
      /\ s.timer = sessions[c].timer
      /\ s.participants[u] = "JOINED"
      /\ \A x \in Users : x # u => s.participants[x] = sessions[c].participants[x]
      /\ \A d \in CallIds : d # c => sessions'[d] = sessions[d]
      /\ sessions' \in [CallIds -> Session \cup {NoSession}]
  BY <1>1, ZenonT(40) DEF JoinCall, Inv, TypeOK, Session, SessionStatus, Terminal, Outcomes,
              ParticipantStatus, IsTerminal
<1> HIDE DEF s
<1>3. /\ \A d \in CallIds : Live(d)' <=> Live(d)
      /\ \A d \in CallIds : Stored(d)' <=> Stored(d)
  BY <1>1, <1>2, NoSessionIsNoSession DEF Live, Stored, s
<1>4. TypeOK'
  BY <1>1, <1>2 DEF Inv, TypeOK
<1>5. StoredIsCreated'
  BY <1>1, <1>3 DEF Inv, StoredIsCreated
<1>6. ConversationIndexExact'
  BY <1>1, <1>2, <1>3 DEF Inv, ConversationIndexExact, s
<1>7. BusyIndexSound'
  <2> SUFFICES ASSUME NEW x \in Users, NEW d \in CallIds, userCalls'[x] = d
               PROVE  Live(d)' /\ sessions'[d].participants[x] \in {"JOINED", "RINGING"}
    BY DEF BusyIndexSound
  <2>1. CASE x = u
    BY <2>1, <1>1, <1>2, <1>3 DEF Inv, TypeOK, s
  <2>2. CASE x # u
    <3>1. userCalls[x] = d
      BY <2>2, <1>1 DEF Inv, TypeOK
    <3>2. Live(d) /\ sessions[d].participants[x] \in {"JOINED", "RINGING"}
      BY <3>1 DEF Inv, BusyIndexSound
    <3> QED BY <3>2, <2>2, <1>2, <1>3 DEF s
  <2> QED BY <2>1, <2>2
<1>8. RingingHasTimer'
  <2> SUFFICES ASSUME NEW d \in CallIds, Live(d)', HasRingingParticipant(sessions'[d])
               PROVE  sessions'[d].timer
    BY DEF RingingHasTimer, HasRingingParticipant
  <2>1. CASE d = c
    <3>1. HasRingingParticipant(sessions[c])
      BY <2>1, <1>2 DEF HasRingingParticipant, Unanswered, s
    <3> QED BY <3>1, <2>1, <1>1, <1>2 DEF Inv, RingingHasTimer, s
  <2>2. CASE d # c
    BY <2>2, <1>2, <1>3 DEF Inv, RingingHasTimer
  <2> QED BY <2>1, <2>2
<1> QED BY <1>4, <1>5, <1>6, <1>7, <1>8 DEF Inv

\* A session in which one participant takes a final outcome.
LEMMA OutcomeSession ==
  ASSUME Inv, NEW c \in CallIds, NEW u \in Users, MayAct(c, u),
         NEW o \in {"DECLINED", "MISSED", "LEFT"}
  PROVE  LET s == WithOutcome(c, u, o)
         IN /\ s \in Session
            /\ ~IsTerminal(s)
            /\ s.conv = sessions[c].conv
            /\ s.timer = sessions[c].timer
            /\ Participants(sessions[c]) \subseteq Participants(s)
            /\ \A x \in Users : userCalls[x] = c /\ x \notin {u}
                                 => s.participants[x] \in {"JOINED", "RINGING"}
            /\ HasRingingParticipant(s) => s.timer
<1> DEFINE s == WithOutcome(c, u, o)
<1>1. sessions[c] \in Session /\ ~IsTerminal(sessions[c]) /\ Live(c)
  BY LiveIsSession DEF Inv, MayAct
<1>2. /\ s \in Session
      /\ s.status = sessions[c].status
      /\ s.conv = sessions[c].conv
      /\ s.timer = sessions[c].timer
      /\ s.participants[u] = o
      /\ \A x \in Users : x # u => s.participants[x] = sessions[c].participants[x]
  BY <1>1 DEF WithOutcome, Session, Outcomes, ParticipantStatus
<1> HIDE DEF s
<1>3. ~IsTerminal(s) /\ Participants(sessions[c]) \subseteq Participants(s)
  BY <1>1, <1>2 DEF IsTerminal, Participants
<1>4. \A x \in Users : userCalls[x] = c /\ x \notin {u}
                       => s.participants[x] \in {"JOINED", "RINGING"}
  BY <1>2 DEF Inv, BusyIndexSound
<1>5. HasRingingParticipant(s) => HasRingingParticipant(sessions[c])
  BY <1>2 DEF HasRingingParticipant, Unanswered
<1>6. HasRingingParticipant(s) => s.timer
  BY <1>1, <1>2, <1>5 DEF Inv, RingingHasTimer
<1> QED BY <1>2, <1>3, <1>4, <1>6 DEF s

\* Giving a session a terminal status changes nothing else of it.
LEMMA TerminalSession ==
  ASSUME NEW s \in Session, NEW st \in Terminal
  PROVE  LET t == [s EXCEPT !.status = st]
         IN /\ t \in Session
            /\ IsTerminal(t)
            /\ t.conv = s.conv
            /\ Participants(t) = Participants(s)
BY DEF Session, SessionStatus, IsTerminal, Participants

\* Hangup is such a status.
LEMMA HangupSession ==
  ASSUME NEW s \in Session
  PROVE  /\ Hangup(s) \in Session
         /\ IsTerminal(Hangup(s))
         /\ Hangup(s).conv = s.conv
         /\ Participants(Hangup(s)) = Participants(s)
BY TerminalSession DEF Hangup, Terminal

\* rejectCall, markMissed and leaveCall either keep the call open or close it.
LEMMA RejectInv ==
  ASSUME Inv, NEW c \in CallIds, NEW u \in Users, RejectCall(c, u)
  PROVE  Inv'
<1> DEFINE s == WithOutcome(c, u, "DECLINED")
           t == [s EXCEPT !.status = "REJECTED"]
<1>1. MayAct(c, u) /\ Live(c) /\ (Close(c, t) \/ Keep(c, s, {u}))
  BY DEF RejectCall, MayAct
<1>2. /\ s \in Session
      /\ ~IsTerminal(s)
      /\ s.conv = sessions[c].conv
      /\ Participants(sessions[c]) \subseteq Participants(s)
      /\ \A x \in Users : userCalls[x] = c /\ x \notin {u}
                           => s.participants[x] \in {"JOINED", "RINGING"}
      /\ HasRingingParticipant(s) => s.timer
  BY <1>1, OutcomeSession
<1> HIDE DEF s
<1>3. /\ t \in Session /\ IsTerminal(t) /\ t.conv = s.conv
      /\ Participants(t) = Participants(s)
  BY <1>2, TerminalSession DEF Terminal
<1> HIDE DEF t
<1>4. CASE Keep(c, s, {u})
  BY <1>1, <1>2, <1>4, KeepInv
<1>5. CASE Close(c, t)
  BY <1>1, <1>2, <1>3, <1>5, CloseInv
<1> QED BY <1>1, <1>4, <1>5

LEMMA MissedInv ==
  ASSUME Inv, NEW c \in CallIds, NEW u \in Users, MarkMissed(c, u)
  PROVE  Inv'
<1> DEFINE s == WithOutcome(c, u, "MISSED")
           t == [s EXCEPT !.status = "MISSED"]
<1>1. MayAct(c, u) /\ Live(c) /\ (Close(c, t) \/ Keep(c, s, {u}))
  BY DEF MarkMissed, MayAct
<1>2. /\ s \in Session
      /\ ~IsTerminal(s)
      /\ s.conv = sessions[c].conv
      /\ Participants(sessions[c]) \subseteq Participants(s)
      /\ \A x \in Users : userCalls[x] = c /\ x \notin {u}
                           => s.participants[x] \in {"JOINED", "RINGING"}
      /\ HasRingingParticipant(s) => s.timer
  BY <1>1, OutcomeSession
<1> HIDE DEF s
<1>3. /\ t \in Session /\ IsTerminal(t) /\ t.conv = s.conv
      /\ Participants(t) = Participants(s)
  BY <1>2, TerminalSession DEF Terminal
<1> HIDE DEF t
<1>4. CASE Keep(c, s, {u})
  BY <1>1, <1>2, <1>4, KeepInv
<1>5. CASE Close(c, t)
  BY <1>1, <1>2, <1>3, <1>5, CloseInv
<1> QED BY <1>1, <1>4, <1>5

LEMMA LeaveInv ==
  ASSUME Inv, NEW c \in CallIds, NEW u \in Users, LeaveCall(c, u)
  PROVE  Inv'
<1> DEFINE s == WithOutcome(c, u, "LEFT")
<1>1. MayAct(c, u) /\ Live(c) /\ (Close(c, Hangup(s)) \/ Keep(c, s, {u}))
  BY DEF LeaveCall, MayAct
<1>2. /\ s \in Session
      /\ ~IsTerminal(s)
      /\ s.conv = sessions[c].conv
      /\ Participants(sessions[c]) \subseteq Participants(s)
      /\ \A x \in Users : userCalls[x] = c /\ x \notin {u}
                           => s.participants[x] \in {"JOINED", "RINGING"}
      /\ HasRingingParticipant(s) => s.timer
  BY <1>1, OutcomeSession
<1> HIDE DEF s
<1>3. /\ Hangup(s) \in Session /\ IsTerminal(Hangup(s)) /\ Hangup(s).conv = s.conv
      /\ Participants(Hangup(s)) = Participants(s)
  BY <1>2, HangupSession
<1>4. CASE Keep(c, s, {u})
  BY <1>1, <1>2, <1>4, KeepInv
<1>5. CASE Close(c, Hangup(s))
  BY <1>1, <1>2, <1>3, <1>5, CloseInv
<1> QED BY <1>1, <1>4, <1>5

\* endCall closes the call whatever the others were doing.
LEMMA EndInv ==
  ASSUME Inv, NEW c \in CallIds, NEW u \in Users, EndCall(c, u)
  PROVE  Inv'
<1> DEFINE ended == [x \in Users |->
             LET p == sessions[c].participants[x]
             IN IF p \in Unanswered THEN "MISSED" ELSE IF p = "JOINED" THEN "LEFT" ELSE p]
           s == [sessions[c] EXCEPT !.participants = ended]
<1>1. Live(c) /\ Close(c, Hangup(s))
  BY DEF EndCall, MayAct
<1>2. sessions[c] \in Session
  BY <1>1, LiveIsSession DEF Inv
<1>3. /\ ended \in Outcomes
      /\ \A x \in Users : sessions[c].participants[x] # "absent" => ended[x] # "absent"
  BY <1>2 DEF Session, Outcomes, ParticipantStatus, Unanswered
<1> HIDE DEF ended
<1>4. /\ s \in Session
      /\ s.conv = sessions[c].conv
      /\ Participants(sessions[c]) \subseteq Participants(s)
  BY <1>2, <1>3 DEF Session, Participants
<1> HIDE DEF s
<1>5. /\ Hangup(s) \in Session /\ IsTerminal(Hangup(s)) /\ Hangup(s).conv = s.conv
      /\ Participants(Hangup(s)) = Participants(s)
  BY <1>4, HangupSession
<1> QED BY <1>1, <1>4, <1>5, CloseInv

\* handleTimeout: whoever rang is released, so that nobody stays busy with a
\* call that goes on without them.
LEMMA TimeoutInv ==
  ASSUME Inv, NEW c \in CallIds, Timeout(c)
  PROVE  Inv'
<1> DEFINE missed == {u \in Users : sessions[c].participants[u] \in Unanswered}
           after == [u \in Users |-> IF u \in missed THEN "MISSED"
                                     ELSE sessions[c].participants[u]]
           s == [sessions[c] EXCEPT !.participants = after, !.timer = FALSE]
           over == [s EXCEPT !.status = "MISSED"]
           on == [s EXCEPT !.status = "IN_CALL"]
<1>1. Live(c) /\ (Close(c, over) \/ Keep(c, on, missed))
  BY DEF Timeout, TimeoutDue
<1>2. sessions[c] \in Session
  BY <1>1, LiveIsSession DEF Inv
<1>3. /\ after \in Outcomes
      /\ \A x \in Users : sessions[c].participants[x] # "absent" => after[x] # "absent"
      /\ \A x \in Users : x \notin missed => after[x] = sessions[c].participants[x]
      /\ \A x \in Users : after[x] \notin Unanswered
  BY <1>2 DEF Session, Outcomes, ParticipantStatus, Unanswered
<1> HIDE DEF after
<1>4. /\ s \in Session
      /\ s.conv = sessions[c].conv
      /\ s.participants = after
      /\ Participants(sessions[c]) \subseteq Participants(s)
  BY <1>2, <1>3 DEF Session, Participants
<1> HIDE DEF s
<1>5. CASE Close(c, over)
  <2>1. /\ over \in Session /\ IsTerminal(over) /\ over.conv = s.conv
        /\ Participants(over) = Participants(s)
    BY <1>4, TerminalSession DEF Terminal
  <2> HIDE DEF over
  <2> QED BY <1>1, <1>4, <1>5, <2>1, CloseInv
<1>6. CASE Keep(c, on, missed)
  <2>1. /\ on \in Session /\ ~IsTerminal(on) /\ on.conv = s.conv
        /\ on.participants = after
    BY <1>4 DEF Session, SessionStatus, Terminal, IsTerminal
  <2> HIDE DEF on
  <2>2. \A x \in Users : userCalls[x] = c /\ x \notin missed
                         => on.participants[x] \in {"JOINED", "RINGING"}
    BY <1>3, <2>1 DEF Inv, BusyIndexSound
  <2>3. ~HasRingingParticipant(on)
    BY <1>3, <2>1 DEF HasRingingParticipant
  <2> HIDE DEF missed
  <2> QED BY <1>1, <1>4, <1>6, <2>1, <2>2, <2>3, KeepInv
<1> QED BY <1>1, <1>5, <1>6

\* A restart empties the maps.
LEMMA RestartInv == Inv /\ Restart => Inv'
BY CallAssumption
   DEF Restart, Inv, TypeOK, StoredIsCreated, ConversationIndexExact, BusyIndexSound,
       RingingHasTimer, Live, Stored

-----------------------------------------------------------------------------
\* Every step of the service preserves the invariant.
LEMMA NextInv == Inv /\ [Next]_vars => Inv'
<1> SUFFICES ASSUME Inv, [Next]_vars PROVE Inv'
  OBVIOUS
<1>1. CASE UNCHANGED vars
  BY <1>1 DEF vars, Inv, TypeOK, StoredIsCreated, ConversationIndexExact,
              BusyIndexSound, RingingHasTimer, Live, Stored
<1>2. CASE Restart
  BY <1>2, RestartInv
<1>3. ASSUME NEW c \in CallIds, Timeout(c) PROVE Inv'
  BY <1>3, TimeoutInv
<1>4. ASSUME NEW c \in CallIds, NEW u \in Users, UserStep(c, u) PROVE Inv'
  <2>1. ASSUME NEW v \in Conversations, NEW us \in Invitees(u, v), CreateCall(c, u, v, us)
        PROVE Inv'
    BY <2>1, CreateInv
  <2>2. CASE JoinCall(c, u)
    BY <2>2, JoinInv
  <2>3. CASE RejectCall(c, u)
    BY <2>3, RejectInv
  <2>4. CASE MarkMissed(c, u)
    BY <2>4, MissedInv
  <2>5. CASE LeaveCall(c, u)
    BY <2>5, LeaveInv
  <2>6. CASE EndCall(c, u)
    BY <2>6, EndInv
  <2> QED BY <1>4, <2>1, <2>2, <2>3, <2>4, <2>5, <2>6 DEF UserStep
<1> QED BY <1>1, <1>2, <1>3, <1>4 DEF Next

\* The maps of the service never disagree with its sessions: a conversation is
\* occupied exactly by its live call (createCall, releaseSession), and a busy
\* entry names a live call that the user is in or that rings for the user
\* (releaseUser); the timeout is armed while anybody rings.
THEOREM IndexesAgree ==
  Spec => [](TypeOK /\ ConversationIndexExact /\ BusyIndexSound /\ RingingHasTimer)
<1>1. Inv => TypeOK /\ ConversationIndexExact /\ BusyIndexSound /\ RingingHasTimer
  BY DEF Inv
<1> QED BY InitInv, NextInv, <1>1, PTL DEF Spec

\* Nobody stays busy with a call that is over, declined or left: releaseUser and
\* releaseSession drop every entry that names it.
THEOREM BusyNamesTheCall == Spec => []BusyIndexSound
<1> QED BY InitInv, NextInv, PTL DEF Spec, Inv

\* Whoever rings has an armed timeout, the callee of a call others have joined
\* included: joinCall does not clear it.
THEOREM RingingIsTimed == Spec => []RingingHasTimer
<1> QED BY InitInv, NextInv, PTL DEF Spec, Inv

\* What one step can do to the session of a call that is over or was never
\* stored: nothing, or forget it.
LEMMA OverStep ==
  ASSUME Inv, [Next]_vars, NEW c \in CallIds, c \in created, ~Live(c)
  PROVE  /\ sessions'[c] \in {sessions[c], NoSession}
         /\ c \in created'
         /\ ~Live(c)'
<1>1. sessions \in [CallIds -> Session \cup {NoSession}]
  BY DEF Inv, TypeOK
<1>2. /\ sessions'[c] \in {sessions[c], NoSession}
      /\ c \in created'
  <2>1. ASSUME NEW d \in CallIds, NEW s, NEW quit, Live(d), Keep(d, s, quit)
        PROVE  sessions'[c] = sessions[c] /\ c \in created'
    BY <1>1, <2>1 DEF Keep
  <2>2. ASSUME NEW d \in CallIds, NEW s, Live(d), Close(d, s)
        PROVE  sessions'[c] = sessions[c] /\ c \in created'
    BY <1>1, <2>2 DEF Close
  <2>3. CASE UNCHANGED vars
    BY <2>3 DEF vars
  <2>4. CASE Restart
    BY <2>4 DEF Restart
  <2>5. ASSUME NEW d \in CallIds, Timeout(d) PROVE sessions'[c] = sessions[c] /\ c \in created'
    BY <2>1, <2>2, <2>5 DEF Timeout, TimeoutDue
  <2>6. ASSUME NEW d \in CallIds, NEW u \in Users, UserStep(d, u)
        PROVE  sessions'[c] = sessions[c] /\ c \in created'
    <3>1. ASSUME NEW v \in Conversations, NEW us \in Invitees(u, v), CreateCall(d, u, v, us)
          PROVE  sessions'[c] = sessions[c] /\ c \in created'
      BY <3>1, <1>1 DEF CreateCall
    <3>2. CASE JoinCall(d, u)
      BY <3>2, <1>1 DEF JoinCall
    <3>3. CASE RejectCall(d, u)
      BY <3>3, <2>1, <2>2 DEF RejectCall, MayAct
    <3>4. CASE MarkMissed(d, u)
      BY <3>4, <2>1, <2>2 DEF MarkMissed, MayAct
    <3>5. CASE LeaveCall(d, u)
      BY <3>5, <2>1, <2>2 DEF LeaveCall, MayAct
    <3>6. CASE EndCall(d, u)
      BY <3>6, <2>2 DEF EndCall, MayAct
    <3> QED BY <2>6, <3>1, <3>2, <3>3, <3>4, <3>5, <3>6 DEF UserStep
  <2> QED BY <2>3, <2>4, <2>5, <2>6 DEF Next
<1>3. ~Live(c)'
  BY <1>2 DEF Live, Stored
<1> QED BY <1>2, <1>3

\* A call that is over is never changed again while the process lives: late
\* requests and a late timeout leave the session alone (assertNotTerminal,
\* handleTimeout's first test, and ids that are never reused).
THEOREM EndedCallsStayEnded == Spec => TerminalIsFinal
<1>1. Inv /\ [Next]_vars =>
        [\A c \in CallIds : Stored(c) /\ IsTerminal(sessions[c]) =>
            sessions'[c] \in {sessions[c], NoSession}]_vars
  BY OverStep DEF Inv, StoredIsCreated, Live
<1> QED BY InitInv, NextInv, <1>1, PTL DEF Spec, TerminalIsFinal

-----------------------------------------------------------------------------
(* The life of a call *)

\* answeredAt, joinedAt and the status of a live call agree: joinCall sets all
\* three, and handleTimeout's return to IN_CALL never answers a call.
AnsweredAgrees ==
  \A c \in CallIds :
    Live(c) => /\ sessions[c].answered <=> sessions[c].status = "IN_CALL"
               /\ HasEverJoinedCallee(sessions[c]) => sessions[c].answered

\* The inductive invariant: the end of a call is an end the abstract call may
\* come to only because its answer shows in its status.
LInv == Inv /\ AnsweredAgrees

-----------------------------------------------------------------------------
\* The stage of a call, by its session.
LEMMA StageOf ==
  ASSUME Inv, NEW c \in CallIds
  PROVE  /\ c \notin created <=> Stage(c) = "unused"
         /\ ~Stored(c) /\ c \in created => Stage(c) = "gone"
         /\ Live(c) => Stage(c) = IF sessions[c].status = "RINGING" THEN "ringing" ELSE "talking"
         /\ Live(c) => sessions[c].status \in {"RINGING", "IN_CALL"}
         /\ Stored(c) /\ IsTerminal(sessions[c]) => Stage(c) = sessions[c].status
<1>1. Stored(c) => c \in created /\ sessions[c] \in Session
  BY DEF Inv, StoredIsCreated, TypeOK, Stored
<1>2. Stored(c) => sessions[c].status \in SessionStatus
  BY <1>1 DEF Session
<1> QED BY <1>1, <1>2 DEF Stage, Live, IsTerminal, Terminal, SessionStatus

\* Two steps that agree on the id and the session of a call agree on its stage.
LEMMA SameStage ==
  ASSUME NEW c \in CallIds, sessions'[c] = sessions[c], (c \in created)' <=> c \in created
  PROVE  /\ Stage(c)' = Stage(c)
         /\ Live(c)' <=> Live(c)
BY DEF Stage, Live, Stored

-----------------------------------------------------------------------------
\* A step that keeps a live call open without answering it.
LEMMA KeepLife ==
  ASSUME LInv, Inv', NEW c \in CallIds, Live(c), NEW s \in Session, NEW quit,
         s.status = sessions[c].status, s.answered = sessions[c].answered,
         s.everJoined = sessions[c].everJoined, s.caller = sessions[c].caller,
         Keep(c, s, quit)
  PROVE  /\ AnsweredAgrees'
         /\ UNCHANGED <<conversationCalls, [d \in CallIds |-> Stage(d)]>>
<1>1. /\ sessions'[c] = s
      /\ \A d \in CallIds : d # c => sessions'[d] = sessions[d]
      /\ UNCHANGED <<conversationCalls, created>>
  BY DEF Keep, LInv, Inv, TypeOK
<1>2. Live(c)' /\ s.status \in {"RINGING", "IN_CALL"}
  BY <1>1, NoSessionIsNoSession, StageOf DEF Live, Stored, IsTerminal, LInv
<1>3. Stage(c)' = Stage(c)
  BY <1>1, <1>2 DEF Stage, Live, Stored
<1>4. \A d \in CallIds : Stage(d)' = Stage(d)
  BY <1>1, <1>3, SameStage
<1>5. AnsweredAgrees'
  <2> SUFFICES ASSUME NEW d \in CallIds, Live(d)'
               PROVE  /\ sessions'[d].answered <=> sessions'[d].status = "IN_CALL"
                      /\ HasEverJoinedCallee(sessions'[d]) => sessions'[d].answered
    BY DEF AnsweredAgrees, HasEverJoinedCallee
  <2>1. CASE d = c
    BY <2>1, <1>1 DEF LInv, AnsweredAgrees, HasEverJoinedCallee
  <2>2. CASE d # c
    BY <2>2, <1>1, SameStage DEF LInv, AnsweredAgrees
  <2> QED BY <2>1, <2>2
<1> QED BY <1>1, <1>4, <1>5

\* releaseSession ends the life of the call, in a way the call may end.
LEMMA CloseLife ==
  ASSUME LInv, Inv', NEW c \in CallIds, Live(c), NEW s \in Session, IsTerminal(s),
         s.conv = sessions[c].conv, s.status \in Lifecycle!Endings(Stage(c)),
         Close(c, s)
  PROVE  AnsweredAgrees' /\ Lifecycle!Next
<1> DEFINE t == [s EXCEPT !.timer = FALSE]
<1>1. t \in Session /\ IsTerminal(t) /\ t.status = s.status
  BY DEF Session, IsTerminal
<1>2. sessions'[c] = t
  BY DEF Close, LInv, Inv, TypeOK
<1> HIDE DEF t
<1>3. /\ \A d \in CallIds : d # c => sessions'[d] = sessions[d]
      /\ created' = created
      /\ s.conv \in Conversations
      /\ conversationCalls' = [conversationCalls EXCEPT ![s.conv] = NoCall]
  BY LiveIsSession DEF Close, LInv, Inv, TypeOK
<1>4. Stage(c)' = s.status /\ ~Live(c)'
  <2>1. c \in created
    BY DEF Live, LInv, Inv, StoredIsCreated
  <2> QED BY <2>1, <1>1, <1>2, <1>3, NoSessionIsNoSession
          DEF Stage, Live, Stored, IsTerminal, Terminal
<1>5. \A d \in CallIds : d # c => Stage(d)' = Stage(d) /\ (Live(d)' <=> Live(d))
  BY <1>3, SameStage
<1>6. AnsweredAgrees'
  <2> SUFFICES ASSUME NEW d \in CallIds, Live(d)'
               PROVE  /\ sessions'[d].answered <=> sessions'[d].status = "IN_CALL"
                      /\ HasEverJoinedCallee(sessions'[d]) => sessions'[d].answered
    BY DEF AnsweredAgrees, HasEverJoinedCallee
  <2> QED BY <1>3, <1>4, <1>5 DEF LInv, AnsweredAgrees
<1>7. [d \in CallIds |-> Stage(d)]' = [[d \in CallIds |-> Stage(d)] EXCEPT ![c] = s.status]
  BY <1>4, <1>5
<1>8. conversationCalls' =
        [v \in Conversations |-> IF conversationCalls[v] = c THEN NoCall ELSE conversationCalls[v]]
  <2>1. \A v \in Conversations : conversationCalls[v] = c <=> v = s.conv
    BY <1>3 DEF LInv, Inv, ConversationIndexExact
  <2> QED BY <2>1, <1>3 DEF LInv, Inv, TypeOK
<1>9. Stage(c) \in {"ringing", "talking"}
  BY StageOf DEF LInv
<1>10. Lifecycle!Over(c, s.status)
  BY <1>7, <1>8, <1>9 DEF Lifecycle!Over, Lifecycle!Alive
<1>11. s.status \in {"MISSED", "REJECTED", "ENDED", "CANCELLED"}
  BY DEF IsTerminal, Terminal
<1> QED BY <1>6, <1>10, <1>11 DEF Lifecycle!Next

-----------------------------------------------------------------------------
\* What a step of the service is in the life of the calls.
LifeStep == Lifecycle!Next \/ UNCHANGED <<conversationCalls, [c \in CallIds |-> Stage(c)]>>

\* createCall rings in a free conversation, or refuses a busy callee at once.
LEMMA CreateLife ==
  ASSUME LInv, Inv', NEW c \in CallIds, NEW u \in Users, NEW v \in Conversations,
         NEW us \in Invitees(u, v), CreateCall(c, u, v, us)
  PROVE  AnsweredAgrees' /\ LifeStep
<1> DEFINE s == NewSession(u, v, us, Busy(us), "RINGING")
<1>1. /\ s \in Session
      /\ s.status = "RINGING"
      /\ ~s.answered
      /\ ~HasEverJoinedCallee(s)
  BY DEF NewSession, Session, SessionStatus, Terminal, Outcomes, ParticipantStatus,
         HasEverJoinedCallee
<1>2. /\ c \notin created
      /\ created' = created \cup {c}
      /\ conversationCalls[v] # NoCall => ~Live(conversationCalls[v])
  BY DEF CreateCall
<1>3. ~Stored(c) /\ Stage(c) = "unused"
  BY <1>2, StageOf DEF LInv, Inv, StoredIsCreated
<1>4. CASE PrivateBusy(v, us)
  <2>1. UNCHANGED <<sessions, conversationCalls, userCalls>>
    BY <1>4 DEF CreateCall
  <2>2. /\ \A d \in CallIds : Live(d)' <=> Live(d)
        /\ \A d \in CallIds : d # c => Stage(d)' = Stage(d)
        /\ Stage(c)' = "gone"
    BY <2>1, <1>2, <1>3 DEF Live, Stored, Stage
  <2>3. [d \in CallIds |-> Stage(d)]' = [[d \in CallIds |-> Stage(d)] EXCEPT ![c] = "gone"]
    BY <2>2
  <2>4. Lifecycle!Refuse(c)
    BY <2>1, <2>3, <1>3 DEF Lifecycle!Refuse
  <2>5. AnsweredAgrees'
    BY <2>1, <2>2 DEF LInv, AnsweredAgrees, HasEverJoinedCallee
  <2> QED BY <2>4, <2>5 DEF LifeStep, Lifecycle!Next
<1>5. CASE ~PrivateBusy(v, us)
  <2>1. /\ sessions' = [sessions EXCEPT ![c] = s]
        /\ conversationCalls' = [conversationCalls EXCEPT ![v] = c]
    BY <1>5 DEF CreateCall
  <2> HIDE DEF s
  <2>2. /\ sessions'[c] = s
        /\ \A d \in CallIds : d # c => sessions'[d] = sessions[d]
    BY <2>1 DEF LInv, Inv, TypeOK
  <2>3. Stage(c)' = "ringing"
    BY <1>1, <1>2, <2>2, NoSessionIsNoSession DEF Stage, Stored
  <2>4. \A d \in CallIds : d # c => Stage(d)' = Stage(d) /\ (Live(d)' <=> Live(d))
    BY <1>2, <2>2, SameStage
  <2>5. [d \in CallIds |-> Stage(d)]' = [[d \in CallIds |-> Stage(d)] EXCEPT ![c] = "ringing"]
    BY <2>3, <2>4
  <2>6. conversationCalls[v] = NoCall
    BY <1>2 DEF LInv, Inv, TypeOK, ConversationIndexExact
  <2>7. Lifecycle!Ring(c, v)
    BY <1>3, <2>1, <2>5, <2>6 DEF Lifecycle!Ring
  <2>8. AnsweredAgrees'
    <3> SUFFICES ASSUME NEW d \in CallIds, Live(d)'
                 PROVE  /\ sessions'[d].answered <=> sessions'[d].status = "IN_CALL"
                        /\ HasEverJoinedCallee(sessions'[d]) => sessions'[d].answered
      BY DEF AnsweredAgrees, HasEverJoinedCallee
    <3>1. CASE d = c
      BY <3>1, <2>2, <1>1
    <3>2. CASE d # c
      BY <3>2, <2>2, <2>4 DEF LInv, AnsweredAgrees
    <3> QED BY <3>1, <3>2
  <2> QED BY <2>7, <2>8 DEF LifeStep, Lifecycle!Next
<1> QED BY <1>4, <1>5

\* joinCall answers a call that rings and changes nothing of one that talks.
LEMMA JoinLife ==
  ASSUME LInv, Inv', NEW c \in CallIds, NEW u \in Users, JoinCall(c, u)
  PROVE  AnsweredAgrees' /\ LifeStep
<1>1. /\ Live(c)
      /\ sessions[c] \in Session
      /\ UNCHANGED <<conversationCalls, created>>
  BY LiveIsSession DEF JoinCall, LInv, Inv
<1>2. /\ sessions'[c].status = "IN_CALL"
      /\ sessions'[c].answered
      /\ sessions'[c] \in Session
      /\ \A d \in CallIds : d # c => sessions'[d] = sessions[d]
  BY <1>1 DEF JoinCall, LInv, Inv, TypeOK, Session, SessionStatus, Outcomes, ParticipantStatus
<1>3. c \in created
  BY <1>1 DEF Live, LInv, Inv, StoredIsCreated
<1>4. Stage(c)' = "talking"
  BY <1>1, <1>2, <1>3, NoSessionIsNoSession DEF Stage, Stored
<1>5. \A d \in CallIds : d # c => Stage(d)' = Stage(d) /\ (Live(d)' <=> Live(d))
  BY <1>1, <1>2, SameStage
<1>6. AnsweredAgrees'
  <2> SUFFICES ASSUME NEW d \in CallIds, Live(d)'
               PROVE  /\ sessions'[d].answered <=> sessions'[d].status = "IN_CALL"
                      /\ HasEverJoinedCallee(sessions'[d]) => sessions'[d].answered
    BY DEF AnsweredAgrees, HasEverJoinedCallee
  <2>1. CASE d = c
    BY <2>1, <1>2
  <2>2. CASE d # c
    BY <2>2, <1>2, <1>5 DEF LInv, AnsweredAgrees
  <2> QED BY <2>1, <2>2
<1>7. [d \in CallIds |-> Stage(d)]' = [[d \in CallIds |-> Stage(d)] EXCEPT ![c] = "talking"]
  BY <1>4, <1>5
<1>8. CASE Stage(c) = "ringing"
  BY <1>1, <1>6, <1>7, <1>8 DEF LifeStep, Lifecycle!Next, Lifecycle!Answer
<1>9. CASE Stage(c) = "talking"
  BY <1>1, <1>4, <1>5, <1>6, <1>9 DEF LifeStep
<1> QED BY <1>1, <1>8, <1>9, StageOf DEF LInv

\* A participant's outcome leaves the status of the call alone.
LEMMA OutcomeKeepsCall ==
  ASSUME LInv, NEW c \in CallIds, NEW u \in Users, Live(c), NEW o
  PROVE  LET s == WithOutcome(c, u, o)
         IN /\ s.status = sessions[c].status
            /\ s.conv = sessions[c].conv
            /\ s.answered = sessions[c].answered
            /\ s.everJoined = sessions[c].everJoined
            /\ s.caller = sessions[c].caller
BY LiveIsSession DEF WithOutcome, Session, LInv, Inv

\* A call that is hung up is completed if it was answered, else cancelled.
LEMMA HangupEnding ==
  ASSUME LInv, NEW c \in CallIds, Live(c), NEW s \in Session,
         s.answered = sessions[c].answered
  PROVE  /\ Hangup(s).status \in Lifecycle!Endings(Stage(c))
         /\ Hangup(s) \in Session /\ IsTerminal(Hangup(s)) /\ Hangup(s).conv = s.conv
<1>1. Hangup(s).status = IF s.answered THEN "ENDED" ELSE "CANCELLED"
  BY DEF Hangup, Session
<1>2. s.answered <=> Stage(c) = "talking"
  BY StageOf DEF LInv, AnsweredAgrees
<1> QED BY <1>1, <1>2, HangupSession DEF Lifecycle!Endings

\* Declining, missing, leaving and ending keep the call as it is or end it.
LEMMA RejectLife ==
  ASSUME LInv, Inv', NEW c \in CallIds, NEW u \in Users, RejectCall(c, u)
  PROVE  AnsweredAgrees' /\ LifeStep
<1> DEFINE s == WithOutcome(c, u, "DECLINED")
           t == [s EXCEPT !.status = "REJECTED"]
<1>1. MayAct(c, u) /\ Live(c) /\ (Close(c, t) \/ Keep(c, s, {u}))
  BY DEF RejectCall, MayAct
<1>2. s \in Session
  BY <1>1, OutcomeSession DEF LInv
<1>3. /\ s.status = sessions[c].status /\ s.conv = sessions[c].conv
      /\ s.answered = sessions[c].answered /\ s.everJoined = sessions[c].everJoined
      /\ s.caller = sessions[c].caller
  BY <1>1, OutcomeKeepsCall
<1> HIDE DEF s
<1>4. /\ t \in Session /\ IsTerminal(t) /\ t.conv = s.conv
      /\ t.status \in Lifecycle!Endings(Stage(c))
  BY <1>2, TerminalSession DEF Terminal, Session, Lifecycle!Endings
<1> HIDE DEF t
<1>5. CASE Keep(c, s, {u})
  BY <1>1, <1>2, <1>3, <1>5, KeepLife DEF LifeStep
<1>6. CASE Close(c, t)
  BY <1>1, <1>3, <1>4, <1>6, CloseLife DEF LifeStep
<1> QED BY <1>1, <1>5, <1>6

LEMMA MissedLife ==
  ASSUME LInv, Inv', NEW c \in CallIds, NEW u \in Users, MarkMissed(c, u)
  PROVE  AnsweredAgrees' /\ LifeStep
<1> DEFINE s == WithOutcome(c, u, "MISSED")
           t == [s EXCEPT !.status = "MISSED"]
<1>1. MayAct(c, u) /\ Live(c) /\ (Close(c, t) \/ Keep(c, s, {u}))
  BY DEF MarkMissed, MayAct
<1>2. s \in Session
  BY <1>1, OutcomeSession DEF LInv
<1>3. /\ s.status = sessions[c].status /\ s.conv = sessions[c].conv
      /\ s.answered = sessions[c].answered /\ s.everJoined = sessions[c].everJoined
      /\ s.caller = sessions[c].caller
  BY <1>1, OutcomeKeepsCall
<1> HIDE DEF s
<1>4. /\ t \in Session /\ IsTerminal(t) /\ t.conv = s.conv
      /\ t.status \in Lifecycle!Endings(Stage(c))
  BY <1>2, TerminalSession DEF Terminal, Session, Lifecycle!Endings
<1> HIDE DEF t
<1>5. CASE Keep(c, s, {u})
  BY <1>1, <1>2, <1>3, <1>5, KeepLife DEF LifeStep
<1>6. CASE Close(c, t)
  BY <1>1, <1>3, <1>4, <1>6, CloseLife DEF LifeStep
<1> QED BY <1>1, <1>5, <1>6

LEMMA LeaveLife ==
  ASSUME LInv, Inv', NEW c \in CallIds, NEW u \in Users, LeaveCall(c, u)
  PROVE  AnsweredAgrees' /\ LifeStep
<1> DEFINE s == WithOutcome(c, u, "LEFT")
<1>1. MayAct(c, u) /\ Live(c) /\ (Close(c, Hangup(s)) \/ Keep(c, s, {u}))
  BY DEF LeaveCall, MayAct
<1>2. s \in Session
  BY <1>1, OutcomeSession DEF LInv
<1>3. /\ s.status = sessions[c].status /\ s.conv = sessions[c].conv
      /\ s.answered = sessions[c].answered /\ s.everJoined = sessions[c].everJoined
      /\ s.caller = sessions[c].caller
  BY <1>1, OutcomeKeepsCall
<1> HIDE DEF s
<1>4. /\ Hangup(s).status \in Lifecycle!Endings(Stage(c))
      /\ Hangup(s) \in Session /\ IsTerminal(Hangup(s)) /\ Hangup(s).conv = s.conv
  BY <1>1, <1>2, <1>3, HangupEnding
<1>5. CASE Keep(c, s, {u})
  BY <1>1, <1>2, <1>3, <1>5, KeepLife DEF LifeStep
<1>6. CASE Close(c, Hangup(s))
  BY <1>1, <1>3, <1>4, <1>6, CloseLife DEF LifeStep
<1> QED BY <1>1, <1>5, <1>6

LEMMA EndLife ==
  ASSUME LInv, Inv', NEW c \in CallIds, NEW u \in Users, EndCall(c, u)
  PROVE  AnsweredAgrees' /\ LifeStep
<1> DEFINE ended == [x \in Users |->
             LET p == sessions[c].participants[x]
             IN IF p \in Unanswered THEN "MISSED" ELSE IF p = "JOINED" THEN "LEFT" ELSE p]
           s == [sessions[c] EXCEPT !.participants = ended]
<1>1. Live(c) /\ Close(c, Hangup(s))
  BY DEF EndCall, MayAct
<1>2. sessions[c] \in Session
  BY <1>1, LiveIsSession DEF LInv, Inv
<1>3. ended \in Outcomes
  BY <1>2 DEF Session, Outcomes, ParticipantStatus, Unanswered
<1> HIDE DEF ended
<1>4. /\ s \in Session
      /\ s.conv = sessions[c].conv
      /\ s.answered = sessions[c].answered
  BY <1>2, <1>3 DEF Session
<1> HIDE DEF s
<1>5. /\ Hangup(s).status \in Lifecycle!Endings(Stage(c))
      /\ Hangup(s) \in Session /\ IsTerminal(Hangup(s)) /\ Hangup(s).conv = s.conv
  BY <1>1, <1>4, HangupEnding
<1> QED BY <1>1, <1>4, <1>5, CloseLife DEF LifeStep

\* handleTimeout ends the call only if no callee has joined it; otherwise the
\* call was answered already and goes on.
LEMMA TimeoutLife ==
  ASSUME LInv, Inv', NEW c \in CallIds, Timeout(c)
  PROVE  AnsweredAgrees' /\ LifeStep
<1> DEFINE missed == {u \in Users : sessions[c].participants[u] \in Unanswered}
           after == [u \in Users |-> IF u \in missed THEN "MISSED"
                                     ELSE sessions[c].participants[u]]
           s == [sessions[c] EXCEPT !.participants = after, !.timer = FALSE]
           over == [s EXCEPT !.status = "MISSED"]
           on == [s EXCEPT !.status = "IN_CALL"]
<1>1. /\ Live(c)
      /\ \/ Close(c, over)
         \/ HasEverJoinedCallee(s) /\ Keep(c, on, missed)
  BY DEF Timeout, TimeoutDue
<1>2. sessions[c] \in Session
  BY <1>1, LiveIsSession DEF LInv, Inv
<1>3. after \in Outcomes
  BY <1>2 DEF Session, Outcomes, ParticipantStatus, Unanswered
<1> HIDE DEF after
<1>4. /\ s \in Session
      /\ s.conv = sessions[c].conv
      /\ s.answered = sessions[c].answered
      /\ s.everJoined = sessions[c].everJoined
      /\ s.caller = sessions[c].caller
      /\ HasEverJoinedCallee(s) <=> HasEverJoinedCallee(sessions[c])
  BY <1>2, <1>3 DEF Session, HasEverJoinedCallee
<1> HIDE DEF s
<1>5. CASE Close(c, over)
  <2>1. /\ over \in Session /\ IsTerminal(over) /\ over.conv = s.conv
        /\ over.status \in Lifecycle!Endings(Stage(c))
    BY <1>4, TerminalSession DEF Terminal, Session, Lifecycle!Endings
  <2> HIDE DEF over
  <2> QED BY <1>1, <1>4, <1>5, <2>1, CloseLife DEF LifeStep
<1>6. CASE HasEverJoinedCallee(s) /\ Keep(c, on, missed)
  <2>1. sessions[c].status = "IN_CALL"
    BY <1>1, <1>4, <1>6 DEF LInv, AnsweredAgrees
  <2>2. /\ on \in Session
        /\ on.status = sessions[c].status
        /\ on.answered = sessions[c].answered
        /\ on.everJoined = sessions[c].everJoined
        /\ on.caller = sessions[c].caller
    BY <1>4, <2>1 DEF Session, SessionStatus
  <2> HIDE DEF on, missed
  <2> QED BY <1>1, <1>6, <2>2, KeepLife DEF LifeStep
<1> QED BY <1>1, <1>5, <1>6

\* A restart forgets every call that was handed out.
LEMMA RestartLife ==
  ASSUME LInv, Restart
  PROVE  AnsweredAgrees' /\ LifeStep
<1>1. /\ \A c \in CallIds : sessions'[c] = NoSession
      /\ conversationCalls' = [v \in Conversations |-> NoCall]
      /\ created' = created
  BY DEF Restart
<1>2. \A c \in CallIds :
        /\ ~Live(c)'
        /\ Stage(c)' = IF Stage(c) = "unused" THEN "unused" ELSE "gone"
  BY <1>1, StageOf DEF Live, Stored, Stage, LInv
<1>3. Lifecycle!Forget
  BY <1>1, <1>2 DEF Lifecycle!Forget
<1> QED BY <1>2, <1>3 DEF AnsweredAgrees, LifeStep, Lifecycle!Next

-----------------------------------------------------------------------------
\* Every step of the service is a step of the calls' life or none.
LEMMA NextLife == LInv /\ [Next]_vars => LInv' /\ LifeStep
<1> SUFFICES ASSUME LInv, [Next]_vars PROVE LInv' /\ LifeStep
  OBVIOUS
<1>1. Inv'
  BY NextInv DEF LInv
<1> SUFFICES AnsweredAgrees' /\ LifeStep
  BY <1>1 DEF LInv
<1>2. CASE UNCHANGED vars
  BY <1>2 DEF vars, LInv, AnsweredAgrees, LifeStep, Stage, Live, Stored, HasEverJoinedCallee
<1>3. CASE Restart
  BY <1>3, RestartLife
<1>4. ASSUME NEW c \in CallIds, Timeout(c) PROVE AnsweredAgrees' /\ LifeStep
  BY <1>1, <1>4, TimeoutLife
<1>5. ASSUME NEW c \in CallIds, NEW u \in Users, UserStep(c, u)
      PROVE  AnsweredAgrees' /\ LifeStep
  <2>1. ASSUME NEW v \in Conversations, NEW us \in Invitees(u, v), CreateCall(c, u, v, us)
        PROVE AnsweredAgrees' /\ LifeStep
    BY <1>1, <2>1, CreateLife
  <2>2. CASE JoinCall(c, u)
    BY <1>1, <2>2, JoinLife
  <2>3. CASE RejectCall(c, u)
    BY <1>1, <2>3, RejectLife
  <2>4. CASE MarkMissed(c, u)
    BY <1>1, <2>4, MissedLife
  <2>5. CASE LeaveCall(c, u)
    BY <1>1, <2>5, LeaveLife
  <2>6. CASE EndCall(c, u)
    BY <1>1, <2>6, EndLife
  <2> QED BY <1>5, <2>1, <2>2, <2>3, <2>4, <2>5, <2>6 DEF UserStep
<1> QED BY <1>2, <1>3, <1>4, <1>5 DEF Next

\* Initially nothing is occupied and no call id is in use.
LEMMA InitLife == Init => LInv /\ Lifecycle!Init
<1> SUFFICES ASSUME Init PROVE LInv /\ Lifecycle!Init
  OBVIOUS
<1>1. \A c \in CallIds : ~Live(c) /\ Stage(c) = "unused"
  BY DEF Init, Live, Stored, Stage
<1> QED BY <1>1, InitInv DEF LInv, AnsweredAgrees, Init, Lifecycle!Init

\* Seen from outside, the service is the life of the calls: one call for each
\* conversation, which rings, may be answered and is over once, completed only
\* if somebody has answered (createCall, joinCall, leaveCall, endCall,
\* handleTimeout).
THEOREM ServiceKeepsLifecycle == Spec => LifecycleIsKept
<1>1. LInv /\ [Next]_vars => [Lifecycle!Next]_(Lifecycle!lifecycle)
  BY NextLife DEF LifeStep, Lifecycle!lifecycle
<1> QED BY InitLife, NextLife, <1>1, PTL DEF Spec, LifecycleIsKept, Lifecycle!Spec

-----------------------------------------------------------------------------
(* The call log *)

Message == [conv: Conversations, status: {"completed", "missed", "rejected", "cancelled"},
            outcomes: Outcomes]
Task == [phase: {"insert", "link", "count", "emit"}, message: Message]

LogTypeOK ==
  /\ logging \in [CallIds -> Task \cup {NoTask}]
  /\ messages \in [CallIds -> Message \cup {NoMessage}]
  /\ notified \in [CallIds -> {"none", "logged", "unlogged"}]

\* Message m says what happened in session s.
Tells(m, s) ==
  /\ IsTerminal(s)
  /\ m.conv = s.conv
  /\ m.outcomes = s.participants
  /\ <<s.status, m.status>> \in
       {<<"ENDED", "completed">>, <<"MISSED", "missed">>,
        <<"REJECTED", "rejected">>, <<"CANCELLED", "cancelled">>}

\* The log of a call was started, whatever became of it.
Begun(c) ==
  \/ logging[c] # NoTask
  \/ messages[c] # NoMessage
  \/ notified[c] # "none"
  \/ c \in counted

\* What the log of call c has done so far.  That it was begun for a call that is
\* over is what makes it the only one: every handler that starts a log acts on a
\* live call or makes a new one.
LogOf(c) ==
  /\ Begun(c) => c \in created /\ ~Live(c)
  /\ logging[c] # NoTask =>
       /\ notified[c] = "none"
       /\ Stored(c) => Tells(logging[c].message, sessions[c])
       /\ IF logging[c].phase = "insert" THEN messages[c] = NoMessage
                                         ELSE messages[c] = logging[c].message
       /\ logging[c].phase = "count" => logging[c].message.status = "missed"
       /\ c \in counted <=> logging[c].phase = "emit" /\ logging[c].message.status = "missed"
  /\ messages[c] # NoMessage /\ Stored(c) => Tells(messages[c], sessions[c])
  /\ notified[c] = "logged" =>
       /\ messages[c] # NoMessage
       /\ c \in counted <=> messages[c].status = "missed"

\* The inductive invariant.
CInv ==
  /\ Inv
  /\ LogTypeOK
  /\ \A c \in CallIds : LogOf(c)

-----------------------------------------------------------------------------
(* The controller uses the service and nothing else of it *)

LEMMA ControllerStep == [ControllerNext]_allVars => [Next]_vars
BY DEF ControllerNext, allVars, Request, HandleCreate, HandleJoin, HandleReject, HandleMissed,
       HandleLeave, HandleEnd, HandleTimeout, LogStep, InsertMessage, LinkLastMessage, CountMissed,
       EmitAndNotify, LogFails, ControllerRestart, Next, UserStep

\* Every behaviour of the controller is one of the service, so that what is proved
\* of the service holds whatever the handlers add to it.
THEOREM ControllerKeepsService == ControllerSpec => Spec
<1>1. ControllerInit => Init
  BY DEF ControllerInit
<1> QED BY <1>1, ControllerStep, PTL DEF ControllerSpec, Spec

-----------------------------------------------------------------------------
(* Nothing is logged twice: a log is begun with the end of its call *)

\* Initially nothing was logged.
LEMMA InitLog == ControllerInit => CInv
<1> SUFFICES ASSUME ControllerInit PROVE CInv
  OBVIOUS
<1>1. Inv
  BY InitInv DEF ControllerInit
<1>2. LogTypeOK
  BY DEF ControllerInit, LogTypeOK
<1>3. \A c \in CallIds : LogOf(c)
  BY DEF ControllerInit, LogOf, Begun
<1> QED BY <1>1, <1>2, <1>3 DEF CInv

\* The log of a call that a step leaves alone stays right: its session is over
\* and does not change any more, or nothing was logged.
LEMMA LeftAlone ==
  ASSUME CInv, [ControllerNext]_allVars, NEW c \in CallIds,
         logging'[c] = logging[c], messages'[c] = messages[c], notified'[c] = notified[c],
         (c \in counted)' <=> c \in counted
  PROVE  LogOf(c)'
<1>1. Begun(c)' <=> Begun(c)
  BY DEF Begun
<1>2. CASE ~Begun(c)
  BY <1>1, <1>2 DEF LogOf, Begun
<1>3. CASE Begun(c)
  <2>1. /\ sessions'[c] \in {sessions[c], NoSession}
        /\ c \in created'
        /\ ~Live(c)'
    BY <1>3, ControllerStep, OverStep DEF CInv, LogOf
  <2>2. Stored(c)' => Stored(c) /\ sessions'[c] = sessions[c]
    BY <2>1 DEF Stored
  <2> QED BY <2>1, <2>2 DEF CInv, LogOf
<1> QED BY <1>2, <1>3

\* A log that starts is the first of its call.
LEMMA LogStarts ==
  ASSUME CInv, NEW c \in CallIds, NEW m \in Message,
         Live(c) \/ c \notin created,
         c \in created', ~Live(c)', Stored(c)' => Tells(m, sessions'[c]),
         logging' = [logging EXCEPT ![c] = [phase |-> "insert", message |-> m]],
         UNCHANGED <<disk, notified>>
  PROVE  LogTypeOK' /\ LogOf(c)'
<1>1. ~Begun(c) /\ messages[c] = NoMessage /\ notified[c] = "none" /\ c \notin counted
  BY DEF CInv, LogOf, Begun
<1>2. logging'[c] = [phase |-> "insert", message |-> m]
  BY DEF CInv, LogTypeOK
<1>3. LogTypeOK'
  BY DEF CInv, LogTypeOK, Task, disk
<1>4. LogOf(c)'
  BY <1>1, <1>2 DEF LogOf, disk
<1> QED BY <1>3, <1>4

-----------------------------------------------------------------------------
\* A session that is kept goes on, one that is closed has the status it was given.
LEMMA KeptOrClosed ==
  ASSUME Inv, NEW c \in CallIds, NEW s \in Session, NEW status \in SessionStatus, NEW quit,
         IsTerminal(sessions'[c])
  PROVE  /\ ~IsTerminal(s) => ~Keep(c, s, quit)
         /\ Close(c, [s EXCEPT !.status = status]) => sessions'[c].status = status
<1>1. ASSUME Keep(c, s, quit) PROVE sessions'[c] = s
  BY <1>1 DEF Keep, Inv, TypeOK
<1>2. ASSUME Close(c, [s EXCEPT !.status = status]) PROVE sessions'[c].status = status
  <2>1. sessions'[c] = [[s EXCEPT !.status = status] EXCEPT !.timer = FALSE]
    BY <1>2 DEF Close, Inv, TypeOK
  <2> QED BY <2>1 DEF Session
<1> QED BY <1>1, <1>2

\* How each method ends a call, if it does.
LEMMA Endings ==
  ASSUME Inv, NEW c \in CallIds, NEW u \in Users, IsTerminal(sessions'[c])
  PROVE  /\ RejectCall(c, u) => Live(c) /\ sessions'[c].status = "REJECTED"
         /\ MarkMissed(c, u) => Live(c) /\ sessions'[c].status = "MISSED"
         /\ LeaveCall(c, u) => Live(c) /\ sessions'[c].status \in {"ENDED", "CANCELLED"}
         /\ EndCall(c, u) => Live(c) /\ sessions'[c].status \in {"ENDED", "CANCELLED"}
<1>1. ASSUME Live(c), NEW outcome \in ParticipantStatus
      PROVE  WithOutcome(c, u, outcome) \in Session /\ ~IsTerminal(WithOutcome(c, u, outcome))
  BY <1>1, LiveIsSession DEF Inv, WithOutcome, Session, Outcomes, IsTerminal
<1>2. {"DECLINED", "MISSED", "LEFT"} \subseteq ParticipantStatus
  BY DEF ParticipantStatus
<1>3. {"REJECTED", "MISSED", "ENDED", "CANCELLED"} \subseteq SessionStatus
  BY DEF SessionStatus, Terminal
<1>4. ASSUME NEW s \in Session, Close(c, Hangup(s))
      PROVE  sessions'[c].status \in {"ENDED", "CANCELLED"}
  BY <1>3, <1>4, KeptOrClosed DEF Hangup
<1>5. RejectCall(c, u) => Live(c) /\ sessions'[c].status = "REJECTED"
  BY <1>1, <1>2, <1>3, KeptOrClosed DEF RejectCall, MayAct
<1>6. MarkMissed(c, u) => Live(c) /\ sessions'[c].status = "MISSED"
  BY <1>1, <1>2, <1>3, KeptOrClosed DEF MarkMissed, MayAct
<1>7. LeaveCall(c, u) => Live(c) /\ sessions'[c].status \in {"ENDED", "CANCELLED"}
  BY <1>1, <1>2, <1>3, <1>4, KeptOrClosed DEF LeaveCall, MayAct
<1>8. EndCall(c, u) => Live(c) /\ sessions'[c].status \in {"ENDED", "CANCELLED"}
  <2> DEFINE ended == [x \in Users |->
               LET p == sessions[c].participants[x]
               IN IF p \in Unanswered THEN "MISSED" ELSE IF p = "JOINED" THEN "LEFT" ELSE p]
             s == [sessions[c] EXCEPT !.participants = ended]
  <2> SUFFICES ASSUME EndCall(c, u)
               PROVE  Live(c) /\ sessions'[c].status \in {"ENDED", "CANCELLED"}
    OBVIOUS
  <2>1. Live(c) /\ Close(c, Hangup(s))
    BY DEF EndCall, MayAct
  <2>2. ended \in Outcomes
    BY <2>1, LiveIsSession DEF Inv, Session, Outcomes, ParticipantStatus, Unanswered
  <2>3. s \in Session
    BY <2>1, <2>2, LiveIsSession DEF Inv, Session
  <2> HIDE DEF s
  <2> QED BY <1>4, <2>1, <2>3
<1> QED BY <1>5, <1>6, <1>7, <1>8

\* handleTimeout misses the call, or leaves it to those who have joined.
LEMMA TimeoutEnding ==
  ASSUME Inv, NEW c \in CallIds, Timeout(c), IsTerminal(sessions'[c])
  PROVE  Live(c) /\ sessions'[c].status = "MISSED"
<1> DEFINE missed == {u \in Users : sessions[c].participants[u] \in Unanswered}
           after == [u \in Users |-> IF u \in missed THEN "MISSED"
                                     ELSE sessions[c].participants[u]]
           s == [sessions[c] EXCEPT !.participants = after, !.timer = FALSE]
<1>1. /\ Live(c)
      /\ \/ Close(c, [s EXCEPT !.status = "MISSED"])
         \/ Keep(c, [s EXCEPT !.status = "IN_CALL"], missed)
  BY DEF Timeout, TimeoutDue
<1>2. after \in Outcomes
  BY <1>1, LiveIsSession DEF Inv, Session, Outcomes, ParticipantStatus, Unanswered
<1>3. s \in Session
  BY <1>1, <1>2, LiveIsSession DEF Inv, Session
<1> HIDE DEF s, missed
<1>4. [s EXCEPT !.status = "IN_CALL"] \in Session /\ ~IsTerminal([s EXCEPT !.status = "IN_CALL"])
  BY <1>3 DEF Session, SessionStatus, IsTerminal, Terminal
<1>5. "MISSED" \in SessionStatus
  BY DEF SessionStatus, Terminal
<1> QED BY <1>1, <1>3, <1>4, <1>5, KeptOrClosed

\* The session of a call that has just ended, and the message it is logged with.
LEMMA EndedSession ==
  ASSUME Inv', NEW c \in CallIds, IsTerminal(sessions'[c]),
         NEW status \in {"completed", "missed", "rejected", "cancelled"},
         <<sessions'[c].status, status>> \in
           {<<"ENDED", "completed">>, <<"MISSED", "missed">>,
            <<"REJECTED", "rejected">>, <<"CANCELLED", "cancelled">>}
  PROVE  LET m == [conv |-> sessions'[c].conv, status |-> status,
                   outcomes |-> sessions'[c].participants]
         IN m \in Message /\ Tells(m, sessions'[c]) /\ ~Live(c)' /\ c \in created'
<1>1. sessions'[c] \in Session /\ Stored(c)'
  BY DEF Inv, TypeOK, NoSession, IsTerminal, Terminal, Stored
<1>2. sessions'[c].conv \in Conversations /\ sessions'[c].participants \in Outcomes
  BY <1>1 DEF Session
<1> QED BY <1>1, <1>2 DEF Message, Tells, Live, Inv, StoredIsCreated

-----------------------------------------------------------------------------
LogsStayRight == LogTypeOK' /\ \A c \in CallIds : LogOf(c)'

\* A step that touches the log of one call at most, and leaves it right.
LEMMA OneLog ==
  ASSUME CInv, [ControllerNext]_allVars, NEW c \in CallIds, LogTypeOK', LogOf(c)',
         \A d \in CallIds : d # c =>
           /\ logging'[d] = logging[d] /\ messages'[d] = messages[d] /\ notified'[d] = notified[d]
           /\ (d \in counted)' <=> d \in counted
  PROVE  LogsStayRight
BY LeftAlone DEF LogsStayRight

\* A request that logs nothing.
LEMMA NothingLogged ==
  ASSUME CInv, [ControllerNext]_allVars, UNCHANGED <<logging, disk, notified>>
  PROVE  LogsStayRight
BY LeftAlone DEF LogsStayRight, disk, CInv, LogTypeOK

\* A request that logs the end of a call.
LEMMA EndLogged ==
  ASSUME CInv, Inv', [ControllerNext]_allVars, NEW c \in CallIds, NEW m \in Message,
         Live(c) \/ c \notin created,
         c \in created', ~Live(c)', Stored(c)' => Tells(m, sessions'[c]),
         logging' = [logging EXCEPT ![c] = [phase |-> "insert", message |-> m]],
         UNCHANGED <<disk, notified>>
  PROVE  LogsStayRight
<1>1. LogTypeOK' /\ LogOf(c)'
  BY LogStarts
<1>2. \A d \in CallIds : d # c => logging'[d] = logging[d]
  BY DEF CInv, LogTypeOK
<1> QED BY <1>1, <1>2, OneLog DEF disk

\* The handlers of a call that was live: what they log is how it ended.
LEMMA LogIfTerminalStep ==
  ASSUME CInv, Inv', [ControllerNext]_allVars, NEW c \in CallIds, Live(c),
         NEW status \in {"completed", "missed", "rejected", "cancelled"},
         IsTerminal(sessions'[c]) =>
           <<sessions'[c].status, status>> \in
             {<<"ENDED", "completed">>, <<"MISSED", "missed">>,
              <<"REJECTED", "rejected">>, <<"CANCELLED", "cancelled">>},
         LogIfTerminal(c, status)
  PROVE  LogsStayRight
<1>1. CASE ~IsTerminal(sessions'[c])
  BY <1>1, NothingLogged DEF LogIfTerminal
<1>2. CASE IsTerminal(sessions'[c])
  <2> DEFINE m == [conv |-> sessions'[c].conv, status |-> status,
                   outcomes |-> sessions'[c].participants]
  <2>1. m \in Message /\ Tells(m, sessions'[c]) /\ ~Live(c)' /\ c \in created'
    BY <1>2, EndedSession
  <2>2. logging' = [logging EXCEPT ![c] = [phase |-> "insert", message |-> m]]
    BY <1>2 DEF LogIfTerminal, StartLog
  <2> HIDE DEF m
  <2> QED BY <2>1, <2>2, EndLogged DEF LogIfTerminal
<1> QED BY <1>1, <1>2

\* A private call to a busy callee is logged under an id that is never stored.
LEMMA CreateLogged ==
  ASSUME CInv, Inv', [ControllerNext]_allVars, NEW c \in CallIds, NEW u \in Users, HandleCreate(c, u)
  PROVE  LogsStayRight
<1> PICK v \in Conversations : \E us \in Invitees(u, v) :
      /\ CreateCall(c, u, v, us)
      /\ IF PrivateBusy(v, us)
           THEN StartLog(c, NewSession(u, v, us, Busy(us), "MISSED"), "missed")
           ELSE UNCHANGED logging
      /\ UNCHANGED <<disk, notified>>
  BY DEF HandleCreate
<1> PICK us \in Invitees(u, v) :
      /\ CreateCall(c, u, v, us)
      /\ IF PrivateBusy(v, us)
           THEN StartLog(c, NewSession(u, v, us, Busy(us), "MISSED"), "missed")
           ELSE UNCHANGED logging
      /\ UNCHANGED <<disk, notified>>
  OBVIOUS
<1>1. CASE ~PrivateBusy(v, us)
  BY <1>1, NothingLogged
<1>2. CASE PrivateBusy(v, us)
  <2> DEFINE s == NewSession(u, v, us, Busy(us), "MISSED")
             m == [conv |-> s.conv, status |-> "missed", outcomes |-> s.participants]
  <2>1. m \in Message
    BY DEF NewSession, Message, Outcomes, ParticipantStatus
  <2>2. logging' = [logging EXCEPT ![c] = [phase |-> "insert", message |-> m]]
    BY <1>2 DEF StartLog
  <2>3. c \notin created /\ c \in created' /\ UNCHANGED sessions
    BY <1>2 DEF CreateCall
  <2>4. ~Stored(c)' /\ ~Live(c)'
    BY <2>3 DEF CInv, Inv, StoredIsCreated, Stored, Live
  <2> HIDE DEF m
  <2> QED BY <2>1, <2>2, <2>3, <2>4, EndLogged
<1> QED BY <1>1, <1>2

\* What a handler logs is what has happened to the call.
LEMMA RequestLogged ==
  ASSUME CInv, Inv', [ControllerNext]_allVars, NEW c \in CallIds,
         (\E u \in Users : Request(c, u)) \/ HandleTimeout(c)
  PROVE  LogsStayRight
<1>1. ASSUME NEW u \in Users, HandleCreate(c, u) PROVE LogsStayRight
  BY <1>1, CreateLogged
<1>2. ASSUME NEW u \in Users, HandleJoin(c, u) PROVE LogsStayRight
  BY <1>2, NothingLogged DEF HandleJoin
<1>3. ASSUME NEW u \in Users, HandleReject(c, u) PROVE LogsStayRight
  <2>1. Live(c)
    BY <1>3 DEF HandleReject, RejectCall, MayAct
  <2> QED BY <1>3, <2>1, Endings, LogIfTerminalStep DEF HandleReject, CInv
<1>4. ASSUME NEW u \in Users, HandleMissed(c, u) PROVE LogsStayRight
  <2>1. Live(c)
    BY <1>4 DEF HandleMissed, MarkMissed, MayAct
  <2> QED BY <1>4, <2>1, Endings, LogIfTerminalStep DEF HandleMissed, CInv
<1>5. ASSUME NEW u \in Users, HandleLeave(c, u) \/ HandleEnd(c, u) PROVE LogsStayRight
  <2>1. Live(c) /\ LogIfTerminal(c, GetTerminalLogStatus(sessions'[c]))
    BY <1>5 DEF HandleLeave, LeaveCall, HandleEnd, EndCall, MayAct
  <2>2. IsTerminal(sessions'[c]) => sessions'[c].status \in {"ENDED", "CANCELLED"}
    BY <1>5, Endings DEF HandleLeave, HandleEnd, CInv
  <2>3. /\ GetTerminalLogStatus(sessions'[c]) \in {"completed", "missed", "rejected", "cancelled"}
        /\ IsTerminal(sessions'[c]) =>
             <<sessions'[c].status, GetTerminalLogStatus(sessions'[c])>> \in
               {<<"ENDED", "completed">>, <<"CANCELLED", "cancelled">>}
    BY <2>2 DEF GetTerminalLogStatus
  <2> QED BY <2>1, <2>3, LogIfTerminalStep
<1>6. CASE HandleTimeout(c)
  <2>1. Live(c)
    BY <1>6 DEF HandleTimeout, Timeout, TimeoutDue
  <2> QED BY <1>6, <2>1, TimeoutEnding, LogIfTerminalStep DEF HandleTimeout, CInv
<1> QED BY <1>1, <1>2, <1>3, <1>4, <1>5, <1>6 DEF Request

\* A log that has begun goes on: each await keeps what the earlier ones wrote.
LEMMA LogGoesOn ==
  ASSUME CInv, [ControllerNext]_allVars, NEW c \in CallIds, LogStep(c)
  PROVE  LogsStayRight
<1>1. /\ UNCHANGED vars
      /\ logging[c] \in Task
      /\ LogOf(c)
  BY DEF LogStep, InsertMessage, LinkLastMessage, CountMissed, EmitAndNotify, LogFails, InLog,
         CInv, LogTypeOK, NoTask
<1>2. /\ Begun(c)
      /\ c \in created' /\ ~Live(c)'
      /\ Stored(c)' <=> Stored(c)
      /\ sessions'[c] = sessions[c]
  BY <1>1 DEF vars, LogOf, Begun, Live, Stored, Task, NoTask
<1>3. CASE InsertMessage(c)
  <2>1. /\ logging'[c] = [phase |-> "link", message |-> logging[c].message]
        /\ messages'[c] = logging[c].message
        /\ logging[c].phase = "insert"
        /\ UNCHANGED <<counted, notified>>
    BY <1>1, <1>3 DEF InsertMessage, InLog, NextPhase, CInv, LogTypeOK, Task
  <2>2. LogTypeOK'
    BY <1>1, <1>3 DEF InsertMessage, NextPhase, CInv, LogTypeOK, Task
  <2>3. LogOf(c)'
    BY <1>1, <1>2, <2>1 DEF LogOf, Task, Message, NoTask, NoMessage
  <2>4. \A d \in CallIds : d # c => logging'[d] = logging[d] /\ messages'[d] = messages[d]
    BY <1>3 DEF InsertMessage, NextPhase, CInv, LogTypeOK
  <2> QED BY <2>1, <2>2, <2>3, <2>4, OneLog
<1>4. CASE LinkLastMessage(c)
  <2>1. /\ logging'[c] = [phase |-> AfterLink(logging[c].message.status),
                          message |-> logging[c].message]
        /\ logging[c].phase = "link"
        /\ UNCHANGED <<messages, counted, notified>>
    BY <1>1, <1>4 DEF LinkLastMessage, InLog, NextPhase, CInv, LogTypeOK, Task
  <2>2. LogTypeOK'
    BY <1>1, <1>4 DEF LinkLastMessage, NextPhase, AfterLink, CInv, LogTypeOK, Task
  <2>3. LogOf(c)'
    BY <1>1, <1>2, <2>1 DEF LogOf, AfterLink, NoTask, Task
  <2>4. \A d \in CallIds : d # c => logging'[d] = logging[d]
    BY <1>4 DEF LinkLastMessage, NextPhase, CInv, LogTypeOK
  <2> QED BY <2>1, <2>2, <2>3, <2>4, OneLog
<1>5. CASE CountMissed(c)
  <2>1. /\ logging'[c] = [phase |-> "emit", message |-> logging[c].message]
        /\ logging[c].phase = "count"
        /\ counted' = counted \cup {c}
        /\ UNCHANGED <<messages, notified>>
    BY <1>1, <1>5 DEF CountMissed, InLog, NextPhase, CInv, LogTypeOK, Task
  <2>2. LogTypeOK'
    BY <1>1, <1>5 DEF CountMissed, NextPhase, CInv, LogTypeOK, Task
  <2>3. LogOf(c)'
    BY <1>1, <1>2, <2>1 DEF LogOf, NoTask, Task
  <2>4. \A d \in CallIds : d # c => logging'[d] = logging[d] /\ (d \in counted' <=> d \in counted)
    BY <1>5 DEF CountMissed, NextPhase, CInv, LogTypeOK
  <2> QED BY <2>1, <2>2, <2>3, <2>4, OneLog
<1>6. CASE EmitAndNotify(c) \/ LogFails(c)
  <2>1. /\ logging'[c] = NoTask
        /\ notified'[c] \in {"logged", "unlogged"}
        /\ notified'[c] = "logged" => logging[c].phase = "emit"
        /\ UNCHANGED <<messages, counted>>
    BY <1>6 DEF EmitAndNotify, LogFails, InLog, disk, CInv, LogTypeOK
  <2>2. LogTypeOK'
    BY <1>6 DEF EmitAndNotify, LogFails, disk, CInv, LogTypeOK
  <2>3. messages'[c] # NoMessage /\ Stored(c)' => Tells(messages'[c], sessions'[c])
    BY <1>1, <1>2, <2>1 DEF LogOf
  <2>4. notified'[c] = "logged" =>
          /\ messages'[c] # NoMessage
          /\ c \in counted' <=> messages'[c].status = "missed"
    BY <1>1, <2>1 DEF LogOf, Task, Message, NoTask, NoMessage
  <2>5. LogOf(c)'
    BY <1>2, <2>1, <2>3, <2>4 DEF LogOf
  <2>6. \A d \in CallIds : d # c => logging'[d] = logging[d] /\ notified'[d] = notified[d]
    BY <1>6 DEF EmitAndNotify, LogFails, CInv, LogTypeOK
  <2> QED BY <2>1, <2>2, <2>5, <2>6, OneLog
<1> QED BY <1>3, <1>4, <1>5, <1>6 DEF LogStep

\* A restart forgets the sessions and the handlers in flight; what the log has
\* written stays, of calls that are over.
LEMMA RestartLogged ==
  ASSUME CInv, [ControllerNext]_allVars, ControllerRestart
  PROVE  LogsStayRight
<1>1. LogTypeOK'
  BY DEF ControllerRestart, disk, CInv, LogTypeOK
<1>2. ASSUME NEW c \in CallIds PROVE LogOf(c)'
  <2>1. ~Stored(c)' /\ ~Live(c)' /\ created' = created
    BY DEF ControllerRestart, Restart, Stored, Live
  <2>2. logging'[c] = NoTask /\ UNCHANGED <<messages, counted, notified>>
    BY DEF ControllerRestart, disk
  <2>3. Begun(c)' => Begun(c)
    BY <2>2 DEF Begun
  <2> QED BY <2>1, <2>2, <2>3 DEF CInv, LogOf
<1> QED BY <1>1, <1>2 DEF LogsStayRight

\* Every step preserves the invariant.
LEMMA NextCInv == CInv /\ [ControllerNext]_allVars => CInv'
<1> SUFFICES ASSUME CInv, [ControllerNext]_allVars PROVE CInv'
  OBVIOUS
<1>1. Inv'
  BY ControllerStep, NextInv DEF CInv
<1>2. LogsStayRight
  <2>1. CASE UNCHANGED allVars
    BY <2>1, NothingLogged DEF allVars
  <2>2. CASE ControllerNext
    BY <1>1, <2>2, RequestLogged, LogGoesOn, RestartLogged DEF ControllerNext
  <2> QED BY <2>1, <2>2
<1> QED BY <1>1, <1>2 DEF CInv, LogsStayRight

-----------------------------------------------------------------------------
\* A persisted call message says what happened to the call it was written for,
\* wherever the awaits of its log were interrupted: the session the log took its
\* snapshot of can no longer change.
THEOREM MessageTellsTheCall == ControllerSpec => []MessageMatchesSession
<1>1. CInv => MessageMatchesSession
  BY DEF CInv, LogOf, Tells, MessageMatchesSession
<1> QED BY InitLog, NextCInv, <1>1, PTL DEF ControllerSpec

\* Clients that are told of a logged call find its message, counted as unread
\* exactly if the call was missed: a log that fails on the way says so.
THEOREM LoggedCallsAreComplete == ControllerSpec => []LoggedIsComplete
<1>1. CInv => LoggedIsComplete
  BY DEF CInv, LogOf, LoggedIsComplete
<1> QED BY InitLog, NextCInv, <1>1, PTL DEF ControllerSpec

\* What a call has had written or sent stays as it is.
LEMMA LogStepOnce ==
  ASSUME CInv, [ControllerNext]_allVars, NEW c \in CallIds
  PROVE  /\ messages[c] # NoMessage => messages'[c] = messages[c]
         /\ notified[c] # "none" => notified'[c] = notified[c]
<1>1. CASE UNCHANGED disk /\ UNCHANGED notified
  BY <1>1 DEF disk
<1>2. ASSUME NEW d \in CallIds, LogStep(d)
      PROVE  /\ messages[c] # NoMessage => messages'[c] = messages[c]
             /\ notified[c] # "none" => notified'[c] = notified[c]
  <2>1. CASE c # d
    BY <1>2, <2>1 DEF LogStep, InsertMessage, LinkLastMessage, CountMissed, EmitAndNotify,
                      LogFails, disk, CInv, LogTypeOK
  <2>2. CASE c = d
    <3>1. logging[c] # NoTask /\ LogOf(c)
      BY <1>2, <2>2 DEF LogStep, InsertMessage, LinkLastMessage, CountMissed, EmitAndNotify,
                        LogFails, InLog, NoTask, CInv
    <3> QED BY <1>2, <2>2, <3>1 DEF LogStep, InsertMessage, LinkLastMessage, CountMissed,
                 EmitAndNotify, LogFails, InLog, disk, LogOf
  <2> QED BY <2>1, <2>2
<1>3. ControllerNext =>
        (UNCHANGED disk /\ UNCHANGED notified) \/ \E d \in CallIds : LogStep(d)
  BY DEF ControllerNext, Request, HandleCreate, HandleJoin, HandleReject, HandleMissed,
         HandleLeave, HandleEnd, HandleTimeout, LogIfTerminal, ControllerRestart
<1> QED BY <1>1, <1>2, <1>3 DEF allVars

\* A call message is written once, and a call has at most one final event: no
\* second handler can find the call live, and a restart starts no log again.
THEOREM CallsAreLoggedOnce == ControllerSpec => LoggedOnce
<1>1. CInv /\ [ControllerNext]_allVars =>
        [\A c \in CallIds :
           /\ messages[c] # NoMessage => messages'[c] = messages[c]
           /\ notified[c] # "none" => notified'[c] = notified[c]]_allVars
  BY LogStepOnce
<1> QED BY InitLog, NextCInv, <1>1, PTL DEF ControllerSpec, LoggedOnce
=============================================================================
