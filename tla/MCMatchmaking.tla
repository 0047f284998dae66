---------------------------- MODULE MCMatchmaking ----------------------------
(* Matchmaking for TLC: three users and two match ids.  With one rating and *)
(* one request users are interchangeable.                                   *)
EXTENDS Matchmaking, TLC

CONSTANTS u1, u2, u3

MCUsers == {u1, u2, u3}

SameElo == [u \in Users |-> 1200]

Wide == [mode |-> "blitz", min |-> 1000, max |-> 1600]
OneRequest == {Wide}

Symmetry == Permutations(Users) \cup Permutations(MatchIds)

=============================================================================
