--------------------------- MODULE MatchLifecycle ---------------------------
(***************************************************************************)
(* What a match promises to the rest of the system: it is open until it is *)
(* decided once, it is then settled once, either aborted or recorded with  *)
(* one result, and only then it leaves the server; every match gets there. *)
(***************************************************************************)

CONSTANT Verdicts       \* what a match can be settled with

VARIABLES
    phase,              \* "open", "ending" or "over"
    verdict             \* {} or the singleton of what it was settled with

lifecycle == <<phase, verdict>>

Init == phase = "open" /\ verdict = {}

Decide == phase = "open" /\ phase' = "ending" /\ UNCHANGED verdict

Settle ==
    /\ phase = "ending"
    /\ verdict = {}
    /\ \E v \in Verdicts : verdict' = {v}
    /\ UNCHANGED phase

Leave ==
    /\ phase = "ending"
    /\ verdict # {}
    /\ phase' = "over"
    /\ UNCHANGED verdict

Next == Decide \/ Settle \/ Leave

Spec == Init /\ [][Next]_lifecycle /\ WF_lifecycle(Next)
=============================================================================
