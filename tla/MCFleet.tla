------------------------------- MODULE MCFleet -------------------------------
(* Both players of a match, and another match that only takes up a place. *)
EXTENDS Fleet, TLC

CONSTANTS a1, a2, m1

MCPlays == (a1 :> m1) @@ (a2 :> m1)

FairSpecFleet == SpecFleet /\ FairFleet
===============================================================================
