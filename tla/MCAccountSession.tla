-------------------------- MODULE MCAccountSession --------------------------
(* AccountSession with small sets; requests are alike, and so are groups. *)
EXTENDS AccountSession, TLC

Symmetry == Permutations(Requests) \cup Permutations(Groups)
=============================================================================
