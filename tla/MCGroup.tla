------------------------------- MODULE MCGroup -------------------------------
(* Small groups for the model checker. *)
EXTENDS Group, TLC

\* Open groups and groups whose managers approve every new member.
MCSettings == {DefaultSettings, [DefaultSettings EXCEPT !.requireApproval = TRUE]}

\* Users are ordered by their ids; slots are interchangeable.
MCSymmetry == Permutations(Slots)
=============================================================================
