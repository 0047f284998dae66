---------------------------- MODULE MCGameServer ----------------------------
(* GameServer for TLC: moves are made in the match m1 only. *)
EXTENDS GameServer, TLC

CONSTANTS m1

MCMaxMoves == [m \in MatchIds |-> IF m = m1 THEN 2 ELSE 0]

Symmetry == Permutations(Handlers)

=============================================================================
