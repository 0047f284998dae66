------------------------------ MODULE MCMatch ------------------------------
(* Instances of Match for TLC: white can come back once, black connects once. *)
EXTENDS Match

MCConns == {"w1", "w2", "b1"}
MCOwner == [c \in MCConns |-> IF c = "b1" THEN "black" ELSE "white"]

\* No move is played in this instance: the side to move makes no difference.
MCInit == turn = "white" /\ Init
MCSpec == MCInit /\ [][Next]_vars /\ Fairness

\* One connection for each player.
MCConns2 == {"w1", "b1"}
MCOwner2 == [c \in MCConns2 |-> IF c = "b1" THEN "black" ELSE "white"]
=============================================================================
