----------------------------- MODULE MCSession -----------------------------
(* Small sets of users and devices. *)
EXTENDS Session, TLC

MCSymmetry == Permutations(Users) \cup Permutations(WebDevices) \cup Permutations(Devices \ WebDevices)
                \cup Permutations(Slots)
=============================================================================
