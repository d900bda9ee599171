---------------------------- MODULE MCMessaging ----------------------------
(* Small sets of interchangeable members, client ids and slots. *)
EXTENDS Messaging, TLC

MCSymmetry == Permutations(Members) \cup Permutations(Slots)
=============================================================================
