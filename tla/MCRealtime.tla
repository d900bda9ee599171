---------------------------- MODULE MCRealtime ----------------------------
(* Two users and a socket of one of them. *)
EXTENDS Realtime, TLC

CONSTANTS ann, bob, socket

MCUserOf == socket :> bob
MCSymmetry == Permutations(Slots)
=============================================================================
