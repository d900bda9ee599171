-------------------------- MODULE MCCallController --------------------------
(* A private conversation and a group of the same users. *)
EXTENDS CallController, TLC

MCMembers == [v \in Conversations |-> Users]

MCSymmetry == Permutations(CallIds) \cup Permutations(Users)
=============================================================================
