---------------------------- MODULE MCEvaluation ----------------------------
(* Evaluation for TLC: two requests for one position. *)
EXTENDS Evaluation

CONSTANT f1
SameFen == [r \in Requests |-> f1]

=============================================================================
