------------------------------ MODULE Hosting ------------------------------
(***************************************************************************)
(* What a game server promises to the functions that settle matches: a     *)
(* match is played in one place at a time, it is not loaded again before   *)
(* the endGame of the last load has returned, and only a match that is     *)
(* played ends or is aborted.  A crash forgets all matches.                *)
(***************************************************************************)
CONSTANT MatchIds

VARIABLE phase     \* of each match: "idle", "live" or "ending"

Init == phase = [m \in MatchIds |-> "idle"]

Goes(m, from, to) == phase[m] = from /\ phase' = [phase EXCEPT ![m] = to]

Load(m) == Goes(m, "idle", "live")
End(m) == Goes(m, "live", "ending")
EndReturns(m) == Goes(m, "ending", "idle")
Abort(m) == Goes(m, "live", "idle")
Crash == phase' = [m \in MatchIds |-> "idle"]

Next ==
  \/ \E m \in MatchIds : Load(m) \/ End(m) \/ EndReturns(m) \/ Abort(m)
  \/ Crash

Spec == Init /\ [][Next]_phase
=============================================================================
