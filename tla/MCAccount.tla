----------------------------- MODULE MCAccount -----------------------------
(* Small sets of users and devices. *)
EXTENDS Account, TLC

MCSymmetry == Permutations(WithEmail) \cup Permutations(Users \ WithEmail) \cup Permutations(WebDevices) \cup Permutations(Devices \ WebDevices)
                \cup Permutations(Slots)
=============================================================================
