---------------------------- MODULE MCGroupTools ----------------------------
(* A manager and a member, one item of each kind, and a few forms of them. *)
EXTENDS GroupTools

MCPolls ==
  {[multi |-> FALSE, change |-> TRUE, add |-> FALSE, expires |-> 1],
   [multi |-> TRUE, change |-> FALSE, add |-> TRUE, expires |-> 0]}

MCReminders ==
  {[at |-> 1, before |-> 0, repeat |-> TRUE],
   [at |-> 2, before |-> 1, repeat |-> FALSE]}

MCEdits == {[at |-> 2], [status |-> "ACTIVE"]}
=============================================================================
