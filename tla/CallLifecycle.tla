---------------------------- MODULE CallLifecycle ----------------------------
(***************************************************************************)
(* What the call service promises its clients, whatever its maps, timers   *)
(* and participants do: a conversation has one call at a time; a call      *)
(* rings, may be answered, and ends once, in one way; a call that was      *)
(* never answered is not completed and one that was is not cancelled.      *)
(* A call may be refused at once or forgotten by a restart.                *)
(***************************************************************************)

CONSTANTS
  CallIds,
  Conversations,
  NoCall

VARIABLES
  occupied,  \* the call of each conversation, or NoCall
  stage      \* where each call is in its life

lifecycle == <<occupied, stage>>

Alive == {"ringing", "talking"}

Init ==
  /\ occupied = [v \in Conversations |-> NoCall]
  /\ stage = [c \in CallIds |-> "unused"]

Ring(c, v) ==
  /\ stage[c] = "unused"
  /\ occupied[v] = NoCall
  /\ occupied' = [occupied EXCEPT ![v] = c]
  /\ stage' = [stage EXCEPT ![c] = "ringing"]

Refuse(c) ==
  /\ stage[c] = "unused"
  /\ stage' = [stage EXCEPT ![c] = "gone"]
  /\ UNCHANGED occupied

Answer(c) ==
  /\ stage[c] = "ringing"
  /\ stage' = [stage EXCEPT ![c] = "talking"]
  /\ UNCHANGED occupied

\* The ways a call may end in.
Endings(now) ==
  {"MISSED", "REJECTED"} \cup (IF now = "talking" THEN {"ENDED"} ELSE {"CANCELLED"})

\* The call is over and its conversation free.
Over(c, ending) ==
  /\ stage[c] \in Alive
  /\ ending \in Endings(stage[c])
  /\ stage' = [stage EXCEPT ![c] = ending]
  /\ occupied' = [v \in Conversations |-> IF occupied[v] = c THEN NoCall ELSE occupied[v]]

Forget ==
  /\ occupied' = [v \in Conversations |-> NoCall]
  /\ stage' = [c \in CallIds |-> IF stage[c] = "unused" THEN "unused" ELSE "gone"]

Next ==
  \/ \E c \in CallIds :
       \/ \E v \in Conversations : Ring(c, v)
       \/ Refuse(c)
       \/ Answer(c)
       \/ \E ending \in {"MISSED", "REJECTED", "ENDED", "CANCELLED"} : Over(c, ending)
  \/ Forget

Spec == Init /\ [][Next]_lifecycle
=============================================================================
