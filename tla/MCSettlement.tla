---------------------------- MODULE MCSettlement ----------------------------
(* Settlement for TLC: three users, two matches. *)
EXTENDS Settlement, TLC

Symmetry == Permutations(Users)

=============================================================================
