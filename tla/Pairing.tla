------------------------------ MODULE Pairing ------------------------------
(***************************************************************************)
(* What matchmaking and the functions that settle matches promise to users *)
(* together: a user is in one game at a time, a game is made once, for two *)
(* users who are both free at that moment, and both of them stay in it     *)
(* until it is over.  Nothing is promised to users who want a game.        *)
(***************************************************************************)
CONSTANTS Users, MatchIds, NoMatch

VARIABLES
  game,    \* the game of each user, or NoMatch
  state    \* "new", "open" or "over"

pairing == <<game, state>>

Init ==
  /\ game = [u \in Users |-> NoMatch]
  /\ state = [m \in MatchIds |-> "new"]

Pair(m, u, v) ==
  /\ state[m] = "new"
  /\ u # v /\ game[u] = NoMatch /\ game[v] = NoMatch
  /\ game' = [game EXCEPT ![u] = m, ![v] = m]
  /\ state' = [state EXCEPT ![m] = "open"]

Finish(m) ==
  /\ state[m] = "open"
  /\ state' = [state EXCEPT ![m] = "over"]
  /\ UNCHANGED game

Release(u) ==
  /\ game[u] # NoMatch /\ state[game[u]] = "over"
  /\ game' = [game EXCEPT ![u] = NoMatch]
  /\ UNCHANGED state

Next ==
  \/ \E m \in MatchIds, u, v \in Users : Pair(m, u, v)
  \/ \E m \in MatchIds : Finish(m)
  \/ \E u \in Users : Release(u)

Spec == Init /\ [][Next]_pairing

(* An open game has its two players. *)
TwoPlay ==
  \A m \in MatchIds : state[m] = "open" =>
    \E u, v \in Users : u # v /\ {w \in Users : game[w] = m} = {u, v}
=============================================================================
