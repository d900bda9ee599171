------------------------------ MODULE MCSocial ------------------------------
(* Small sets of interchangeable users, request ids and slots. *)
EXTENDS Social, TLC

MCSymmetry == Permutations(Users) \cup Permutations(RequestIds) \cup Permutations(Slots)
=============================================================================
