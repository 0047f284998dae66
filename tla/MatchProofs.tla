---------------------------- MODULE MatchProofs ----------------------------
(***************************************************************************)
(* Proofs about Match for any set of connections, any owners and any       *)
(* number of moves; connections of a player may overlap.                   *)
(***************************************************************************)
EXTENDS Match, TLAPS

\* The outcome of a game is one of the outcomes (game.outcome).
LEMMA OutcomeType ==
    ASSUME custom \in CustomOutcomes, board \in Outcomes
    PROVE  Outcome \in Outcomes
BY DEF CustomOutcomes, Outcomes, Outcome

\* checkTimeout only sets the custom outcomes of the code.
LEMMA TimeoutOutcomeType ==
    ASSUME custom \in CustomOutcomes
    PROVE  TimeoutOutcome \in CustomOutcomes
<1> DEFINE gone == {s \in Sides : status[s] = "DISCONNECTED"}
<1>1. CASE \E s \in gone : status[Opp(s)] = "CONNECTED"
  <2>1. (CHOOSE s \in gone : TRUE) \in Sides
    BY <1>1
  <2>2. QED
    BY <2>1 DEF TimeoutOutcome, CustomOutcomes
<1>2. CASE ~ \E s \in gone : status[Opp(s)] = "CONNECTED"
  BY <1>2 DEF TimeoutOutcome, CustomOutcomes
<1>3. QED
  BY <1>1, <1>2

\* Every state of a match has the type TypeOK gives it.
THEOREM TypeCorrect == Spec => []TypeOK
<1> USE OwnerAssumption, KindsAssumption, MaxPlyAssumption
<1>1. ASSUME Init PROVE TypeOK
  <2> USE <1>1 DEF Init
  <2>1. NoMessage \in Messages
    BY DEF NoMessage, Messages, Sides, Controls
  <2>2. pc \in [Actors -> Places] /\ connPc \in [Conns -> ConnPlaces]
    BY DEF Actors, Places, ConnPlaces
  <2>3. msg \in Messages /\ connMsg \in [Conns -> Messages]
    BY <2>1
  <2>4. status \in [Sides -> Statuses] /\ connOf \in [Sides -> SUBSET Conns]
        /\ overlapped \subseteq Sides
    BY DEF Statuses
  <2>5. board \in Outcomes /\ custom \in CustomOutcomes
        /\ rec \in [by : Actors \cup {"nobody"}, ratings : Outcomes, results : Outcomes]
    BY DEF Outcomes, CustomOutcomes
  <2>6. timer \in TimerKinds /\ settled \in [end : Nat, abort : Nat] /\ ply \in 0..MaxPly
    BY DEF TimerKinds
  <2>7. QED
    BY <2>2, <2>3, <2>4, <2>5, <2>6 DEF TypeOK
<1>2. ASSUME TypeOK, [Next]_vars PROVE TypeOK'
  <2> USE <1>2 DEF TypeOK
  <2>1. ASSUME NEW c \in Conns, ConnStep(c) PROVE TypeOK'
    BY <2>1 DEF ConnStep, JoinStart, JoinSetConn, LeaveCheck, LeaveArm, ConnGoto,
         SetTimer, TimerKinds, Statuses, ConnPlaces, loopVars, presence, connVars, endVars
  <2>2. ASSUME NEW c \in Conns, ClientStep(c) PROVE TypeOK'
    <3> USE DEF ConnGoto, ConnPlaces, loopVars, presence, connVars, endVars
    <3>1. CASE Open(c) \/ LeaveSetConn(c)
      BY <3>1 DEF Open, LeaveSetConn, Statuses
    <3>2. CASE Send(c)
      <4>1. \A k \in Kinds : [from |-> Owner[c], kind |-> k] \in Messages
        BY DEF Messages
      <4>2. connMsg' \in [Conns -> Messages] /\ connPc' \in [Conns -> ConnPlaces]
        BY <3>2, <4>1 DEF Send
      <4>3. QED
        BY <3>2, <4>2 DEF Send
    <3>3. QED
      BY <2>2, <3>1, <3>2 DEF ClientStep
  <2>3. ASSUME LoopStep PROVE TypeOK'
    <3> USE DEF LoopGoto, Handling, Places, Actors, NoMessage, Messages, Controls,
                loopVars, presence, connVars, endVars
    <3>1. ASSUME NEW c \in Conns, Receive(c) PROVE TypeOK'
      BY <3>1 DEF Receive, Taken, ConnGoto, ConnPlaces, Sides
    <3>2. CASE LoopExit \/ LoopCheck
      BY <3>2 DEF LoopExit, LoopCheck
    <3>3. CASE HandleAbort \/ HandleBadMove
      <4>1. pc' \in [Actors -> Places]
        BY <3>3 DEF HandleAbort, HandleBadMove
      <4>2. msg' \in Messages
        BY <3>3 DEF HandleAbort, HandleBadMove, Sides
      <4>3. QED
        BY <3>3, <4>1, <4>2 DEF HandleAbort, HandleBadMove
    <3>4. CASE HandleResign
      BY <3>4 DEF HandleResign, Resign, Opp, Outcomes, Sides
    <3>5. CASE HandleOfferDraw
      <4>1. /\ pc' \in [Actors -> Places]
            /\ board' \in Outcomes
            /\ offer' \in SUBSET Sides
        BY <3>5 DEF HandleOfferDraw, Outcomes
      <4>2. msg' \in Messages
        BY <3>5 DEF HandleOfferDraw, Sides
      <4>3. QED
        BY <3>5, <4>1, <4>2 DEF HandleOfferDraw
    <3>6. CASE HandleDeclineDraw
      BY <3>6 DEF HandleDeclineDraw, Sides
    <3>7. CASE HandleMove
      <4>1. custom' \in CustomOutcomes /\ timer' \in TimerKinds
        BY <3>7 DEF HandleMove, SetTimer, TimerKinds, CustomOutcomes
      <4>2. turn' \in Sides /\ board' \in Outcomes /\ msg' \in Messages
        BY <3>7 DEF HandleMove, Opp, Outcomes, Sides
      <4>3. pc' \in [Actors -> Places] /\ ply' \in 0..MaxPly
        BY <3>7 DEF HandleMove
      <4>4. QED
        BY <3>7, <4>1, <4>2, <4>3 DEF HandleMove
    <3>8. QED
      BY <2>3, <3>1, <3>2, <3>3, <3>4, <3>5, <3>6, <3>7 DEF LoopStep
  <2>4. CASE TimerFire
    BY <2>4 DEF TimerFire, TimerKinds, Places, Actors, loopVars, presence, connVars, endVars
  <2>5. ASSUME NEW a \in Actors, EndStep(a) PROVE TypeOK'
    <3> USE DEF Goto, Return, Places, Actors, loopVars, presence, connVars, endVars
    <3>1. CASE Lock(a)
      BY <3>1 DEF Lock
    <3>2. ASSUME NEW c \in Conns, ProbeSwallows(a, c) PROVE TypeOK'
      BY <3>2 DEF ProbeSwallows, Taken, ConnGoto, ConnPlaces, NoMessage, Messages,
                  Controls, Sides
    <3>3. CASE ProbeFindsOpen(a)
      BY <3>3 DEF ProbeFindsOpen
    <3>4. CASE CloseChannel(a)
      BY <3>4 DEF CloseChannel, ConnPlaces, NoMessage, Messages, Controls, Sides
    <3>5. CASE Skip(a)
      BY <3>5 DEF Skip, SkipTimer, TimerKinds
    <3>6. CASE CheckTimeout(a)
      BY <3>6, TimeoutOutcomeType DEF CheckTimeout
    <3>7. CASE ChooseRatings(a) \/ InvokeEndGame(a)
      <4>1. Outcome \in Outcomes
        BY OutcomeType
      <4>2. rec' \in [by : Actors \cup {"nobody"}, ratings : Outcomes, results : Outcomes]
        BY <3>7, <4>1 DEF ChooseRatings, InvokeEndGame
      <4>3. settled' \in [end : Nat, abort : Nat] /\ pc' \in [Actors -> Places]
        BY <3>7 DEF ChooseRatings, InvokeEndGame
      <4>4. QED
        BY <3>7, <4>2, <4>3 DEF ChooseRatings, InvokeEndGame
    <3>8. CASE InvokeAbortGame(a) \/ Remove(a)
      BY <3>8 DEF InvokeAbortGame, Remove
    <3>9. QED
      BY <2>5, <3>1, <3>2, <3>3, <3>4, <3>5, <3>6, <3>7, <3>8 DEF EndStep
  <2>6. CASE UNCHANGED vars
    BY <2>6 DEF vars
  <2>7. QED
    BY <1>2, <2>1, <2>2, <2>3, <2>4, <2>5, <2>6 DEF Next
<1>3. QED
  BY <1>1, <1>2, PTL DEF Spec

-----------------------------------------------------------------------------
(* Ending a match *)

\* The places of end and abort at which match.mu is held, and among them those
\* before the endGame or abortGame function is invoked.
Undecided == {"probe", "close", "skip", "timeout", "ratings", "invokeEnd", "invokeAbort"}
Critical == Undecided \cup {"remove"}

Settlements == settled.end + settled.abort

\* The goroutine inside end or abort is the one that holds match.mu, and it got
\* there by setting ended; before the invocation nothing is settled, after it
\* one settlement is, and after the unlock the match has also been removed.
EndInv ==
    /\ \A a \in Actors : pc[a] \in Critical <=> mu = a
    /\ ~ended => mu = "free" /\ Settlements = 0 /\ removals = 0
    /\ ended /\ mu = "free" => Settlements = 1 /\ removals = 1
    /\ \A a \in Actors : mu = a =>
          /\ ended
          /\ removals = 0
          /\ Settlements = IF pc[a] = "remove" THEN 1 ELSE 0

\* Steps of the clients, of the handlers, of the loop outside end and abort and
\* the expiry of the timer leave EndInv alone.
LEMMA OtherStepsKeepEndInv ==
    ASSUME TypeOK, EndInv,
           \/ \E c \in Conns : ConnStep(c) \/ ClientStep(c)
           \/ LoopStep
           \/ TimerFire
           \/ UNCHANGED vars
    PROVE  EndInv'
<1> USE DEF TypeOK
<1> DEFINE Outside ==
      /\ UNCHANGED <<mu, ended, settled, removals>>
      /\ \A a \in Actors :
            pc'[a] # pc[a] => pc[a] \notin Critical /\ pc'[a] \notin Critical
<1>1. Outside
  <2>1. ASSUME NEW c \in Conns, ConnStep(c) \/ ClientStep(c)
        PROVE  UNCHANGED <<mu, ended, settled, removals, pc>>
    BY <2>1 DEF ConnStep, ClientStep, JoinStart, JoinSetConn, LeaveCheck, LeaveArm,
         Open, Send, LeaveSetConn, endVars
  <2>2. CASE LoopStep
    <3> USE DEF LoopGoto, Critical, Undecided, Actors, endVars
    <3>1. ASSUME NEW c \in Conns, Receive(c) PROVE Outside
      BY <3>1 DEF Receive
    <3>2. CASE LoopExit \/ LoopCheck
      BY <3>2 DEF LoopExit, LoopCheck
    <3>3. CASE HandleAbort \/ HandleBadMove \/ HandleResign
      BY <3>3 DEF HandleAbort, HandleBadMove, HandleResign, Handling
    <3>4. CASE HandleOfferDraw
      BY <3>4 DEF HandleOfferDraw, Handling
    <3>5. CASE HandleDeclineDraw
      BY <3>5 DEF HandleDeclineDraw, Handling
    <3>6. CASE HandleMove
      BY <3>6 DEF HandleMove, Handling
    <3>7. QED
      BY <2>2, <3>1, <3>2, <3>3, <3>4, <3>5, <3>6 DEF LoopStep
  <2>3. CASE TimerFire
    BY <2>3 DEF TimerFire, Critical, Undecided, Actors, endVars
  <2>4. CASE UNCHANGED vars
    BY <2>4 DEF vars
  <2>5. QED
    BY <2>1, <2>2, <2>3, <2>4
<1>2. QED
  <2>1. ASSUME NEW a \in Actors PROVE (pc[a] = "remove") = (pc'[a] = "remove")
    BY <1>1 DEF Critical
  <2>2. Settlements' = Settlements
    BY <1>1 DEF Settlements
  <2>3. QED
    BY <1>1, <2>1, <2>2 DEF EndInv

\* Each step of end or abort keeps EndInv; Lock enters only an open match, the
\* invocations settle it once, and Remove leaves.
LEMMA EndStepsKeepEndInv ==
    ASSUME TypeOK, EndInv, NEW a \in Actors, EndStep(a)
    PROVE  EndInv'
<1> USE DEF TypeOK, EndInv, Goto, Return, Settlements, Critical, Undecided, Actors
<1>1. CASE Lock(a)
  <2>1. CASE ended
    BY <1>1, <2>1 DEF Lock
  <2>2. CASE ~ended
    BY <1>1, <2>2 DEF Lock
  <2>3. QED
    BY <2>1, <2>2
<1>2. ASSUME \/ \E c \in Conns : ProbeSwallows(a, c)
             \/ ProbeFindsOpen(a) \/ CloseChannel(a) \/ Skip(a)
             \/ CheckTimeout(a) \/ ChooseRatings(a)
      PROVE  EndInv'
  <2>1. /\ UNCHANGED <<mu, ended, settled, removals>>
        /\ pc[a] \in Undecided /\ \E l \in Undecided : pc' = [pc EXCEPT ![a] = l]
    BY <1>2 DEF ProbeSwallows, ProbeFindsOpen, CloseChannel, Skip, CheckTimeout,
         ChooseRatings, endVars
  <2>2. QED
    BY <2>1
<1>3. CASE InvokeEndGame(a)
  BY <1>3 DEF InvokeEndGame
<1>4. CASE InvokeAbortGame(a)
  BY <1>4 DEF InvokeAbortGame
<1>5. CASE Remove(a)
  BY <1>5 DEF Remove
<1>6. QED
  BY <1>1, <1>2, <1>3, <1>4, <1>5 DEF EndStep

LEMMA EndInvariant == Spec => []EndInv
<1>1. Init => EndInv
  BY DEF Init, EndInv, Settlements, Critical, Undecided, Actors
<1>2. TypeOK /\ EndInv /\ [Next]_vars => EndInv'
  BY OtherStepsKeepEndInv, EndStepsKeepEndInv DEF Next
<1>3. QED
  BY <1>1, <1>2, TypeCorrect, PTL DEF Spec

\* However the loop's end or abort and the timer's end interleave, a match is
\* settled at most once and removed at most once, after that.
THEOREM SettledAtMostOnce == Spec => []SettledOnce
<1>1. TypeOK /\ EndInv => SettledOnce
  BY DEF TypeOK, EndInv, SettledOnce, Settlements, Actors
<1>2. QED
  BY <1>1, TypeCorrect, EndInvariant, PTL

-----------------------------------------------------------------------------
(* A live match *)

\* The timer of a match that has not ended is armed or already brings its end,
\* and its loop serves the channel.
THEOREM LiveMatchAlwaysServed == Spec => []LiveMatchIsServed
<1> USE DEF LiveMatchIsServed
<1>1. Init => LiveMatchIsServed
  BY DEF Init, Actors
<1>2. TypeOK /\ EndInv /\ LiveMatchIsServed /\ [Next]_vars => LiveMatchIsServed'
  <2> SUFFICES ASSUME TypeOK, EndInv, LiveMatchIsServed, [Next]_vars, ~ended'
               PROVE  LiveMatchIsServed'
    OBVIOUS
  <2> USE DEF TypeOK
  <2>1. ASSUME NEW c \in Conns, ConnStep(c) PROVE LiveMatchIsServed'
    BY <2>1 DEF ConnStep, JoinStart, JoinSetConn, LeaveCheck, LeaveArm, SetTimer, endVars
  <2>2. ASSUME NEW c \in Conns, ClientStep(c) PROVE LiveMatchIsServed'
    BY <2>2 DEF ClientStep, Open, Send, LeaveSetConn, endVars
  <2>3. CASE LoopStep
    <3> USE DEF LoopGoto, Actors, endVars
    <3>1. ASSUME NEW c \in Conns, Receive(c) PROVE LiveMatchIsServed'
      BY <3>1 DEF Receive
    <3>2. CASE LoopExit \/ LoopCheck
      BY <3>2 DEF LoopExit, LoopCheck
    <3>3. CASE HandleAbort \/ HandleBadMove \/ HandleResign
      BY <3>3 DEF HandleAbort, HandleBadMove, HandleResign
    <3>4. CASE HandleOfferDraw
      BY <3>4 DEF HandleOfferDraw
    <3>5. CASE HandleDeclineDraw
      BY <3>5 DEF HandleDeclineDraw
    <3>6. CASE HandleMove
      BY <3>6 DEF HandleMove, SetTimer
    <3>7. QED
      BY <2>3, <3>1, <3>2, <3>3, <3>4, <3>5, <3>6 DEF LoopStep
  <2>4. CASE TimerFire
    BY <2>4 DEF TimerFire, Actors, endVars
  <2>5. ASSUME NEW a \in Actors, EndStep(a) PROVE LiveMatchIsServed'
    <3>1. ended'
      <4>1. CASE Lock(a)
        BY <4>1 DEF Lock
      <4>2. CASE ~Lock(a)
        <5>1. pc[a] \in Critical /\ ended' = ended
          BY <2>5, <4>2 DEF EndStep, ProbeSwallows, ProbeFindsOpen, CloseChannel,
               Skip, CheckTimeout, ChooseRatings, InvokeEndGame, InvokeAbortGame,
               Remove, Critical, Undecided, endVars
        <5>2. QED
          BY <5>1 DEF EndInv
      <4>3. QED
        BY <4>1, <4>2
    <3>2. QED
      BY <3>1
  <2>6. CASE UNCHANGED vars
    BY <2>6 DEF vars
  <2>7. QED
    BY <2>1, <2>2, <2>3, <2>4, <2>5, <2>6 DEF Next
<1>3. QED
  BY <1>1, <1>2, TypeCorrect, EndInvariant, PTL DEF Spec

-----------------------------------------------------------------------------
(* What the loop records *)

\* Once the board is decided the outcome is a result, whatever is custom.
LEMMA DecidedOutcome ==
    ASSUME custom \in CustomOutcomes, board \in Outcomes, board # "none"
    PROVE  Outcome # "none"
BY DEF CustomOutcomes, Outcomes, Outcome

\* The loop calls end only with a decided board, and a goroutine between its two
\* readings of the outcome has left its name, and the loop the outcome, in rec.
RecordInv ==
    /\ pc["loop"] = "end" => board # "none"
    /\ mu = "loop" /\ mode = "end" => board # "none"
    /\ \A a \in Actors :
          /\ pc[a] \in {"timeout", "ratings", "invokeEnd"} => mode = "end"
          /\ pc[a] = "invokeEnd" => rec.by = a
    /\ pc["loop"] = "invokeEnd" => rec.ratings = Outcome
    /\ LoopRecordsDecidedGame

\* The loop outside end and abort: it may decide the board, never undo it.
LEMMA LoopKeepsRecordInv ==
    ASSUME TypeOK, EndInv, RecordInv, LoopStep
    PROVE  RecordInv'
<1> USE DEF TypeOK
<1> DEFINE Effect ==
      /\ pc["loop"] \in {"recv", "handle", "save"}
      /\ \E l \in Places \ Critical :
            pc' = [pc EXCEPT !["loop"] = l] /\ (l = "end" => board' # "none")
      /\ UNCHANGED <<mu, mode, rec, settled>>
      /\ board # "none" => board' # "none"
<1>1. Effect
  <2> USE DEF LoopGoto, Handling, Places, Critical, Undecided, endVars
  <2>1. ASSUME NEW c \in Conns, Receive(c) PROVE Effect
    BY <2>1 DEF Receive
  <2>2. CASE LoopExit \/ LoopCheck
    BY <2>2 DEF LoopExit, LoopCheck, loopVars
  <2>3. CASE HandleAbort \/ HandleBadMove
    BY <2>3 DEF HandleAbort, HandleBadMove
  <2>4. CASE HandleResign
    BY <2>4 DEF HandleResign, Resign
  <2>5. CASE HandleOfferDraw
    BY <2>5 DEF HandleOfferDraw
  <2>6. CASE HandleDeclineDraw
    BY <2>6 DEF HandleDeclineDraw
  <2>7. CASE HandleMove
    BY <2>7 DEF HandleMove
  <2>8. QED
    BY <2>1, <2>2, <2>3, <2>4, <2>5, <2>6, <2>7 DEF LoopStep
<1>2. mu # "loop"
  BY <1>1 DEF EndInv, Actors, Critical, Undecided
<1>3. \A a \in Actors : \A l \in {"timeout", "ratings", "invokeEnd"} :
         pc'[a] = l => pc[a] = l
  BY <1>1 DEF Critical, Undecided, Actors
<1>4. pc'["loop"] # "invokeEnd"
  BY <1>1 DEF Critical, Undecided, Actors
<1>5. LoopRecordsDecidedGame'
  BY <1>1 DEF RecordInv, LoopRecordsDecidedGame
<1>6. pc'["loop"] = "end" => board' # "none"
  BY <1>1 DEF Actors
<1>7. QED
  BY <1>1, <1>2, <1>3, <1>4, <1>5, <1>6 DEF RecordInv

\* The handlers, the clients and the timer's expiry touch none of it.
LEMMA OthersKeepRecordInv ==
    ASSUME TypeOK, RecordInv,
           \/ \E c \in Conns : ConnStep(c) \/ ClientStep(c)
           \/ TimerFire
           \/ UNCHANGED vars
    PROVE  RecordInv'
<1> USE DEF TypeOK
<1>1. UNCHANGED <<mu, mode, board, custom, rec, settled>>
  BY DEF ConnStep, ClientStep, JoinStart, JoinSetConn, LeaveCheck, LeaveArm, Open, Send,
     LeaveSetConn, TimerFire, vars, loopVars, endVars
<1>2. pc'["loop"] = pc["loop"] /\ (pc'["timer"] # pc["timer"] => pc'["timer"] = "end")
  BY DEF ConnStep, ClientStep, JoinStart, JoinSetConn, LeaveCheck, LeaveArm, Open, Send,
     LeaveSetConn, TimerFire, vars, Actors
<1>3. Outcome' = Outcome
  BY <1>1 DEF Outcome
<1>4. LoopRecordsDecidedGame'
  BY <1>1 DEF RecordInv, LoopRecordsDecidedGame
<1>5. QED
  BY <1>1, <1>2, <1>3, <1>4 DEF RecordInv, Actors

\* end and abort: only the holder of match.mu moves, and the board is its own
\* while that is the loop.
LEMMA EndStepsKeepRecordInv ==
    ASSUME TypeOK, EndInv, RecordInv, NEW a \in Actors, EndStep(a)
    PROVE  RecordInv'
<1> USE DEF TypeOK, RecordInv, Goto, Return, Actors
<1>1. CASE Lock(a)
  <2>1. UNCHANGED <<board, custom, rec, settled>>
    BY <1>1 DEF Lock, loopVars
  <2>2. Outcome' = Outcome /\ LoopRecordsDecidedGame'
    BY <2>1 DEF Outcome, LoopRecordsDecidedGame
  <2>3. \A b \in Actors : pc[b] \notin Critical
    BY <1>1 DEF Lock, EndInv
  <2>4. QED
    BY <1>1, <2>1, <2>2, <2>3 DEF Lock, Critical, Undecided
<1>2. CASE (\E c \in Conns : ProbeSwallows(a, c)) \/ ProbeFindsOpen(a)
           \/ CloseChannel(a) \/ Skip(a)
  <2>1. UNCHANGED <<board, custom, rec, settled, mu, mode>>
    BY <1>2 DEF ProbeSwallows, ProbeFindsOpen, CloseChannel, Skip, loopVars, endVars
  <2>2. Outcome' = Outcome /\ LoopRecordsDecidedGame'
    BY <2>1 DEF Outcome, LoopRecordsDecidedGame
  <2>3. \E l \in {"close", "skip", "timeout", "invokeAbort"} :
           pc' = [pc EXCEPT ![a] = l] /\ (l = "timeout" => mode = "end")
    BY <1>2 DEF ProbeSwallows, ProbeFindsOpen, CloseChannel, Skip
  <2>4. QED
    BY <2>1, <2>2, <2>3
<1>3. CASE CheckTimeout(a)
  <2>1. pc["loop"] = "invokeEnd" => FALSE
    BY <1>3 DEF CheckTimeout, EndInv, Critical, Undecided
  <2>2. LoopRecordsDecidedGame'
    BY <1>3 DEF CheckTimeout, LoopRecordsDecidedGame, endVars
  <2>3. QED
    BY <1>3, <2>1, <2>2 DEF CheckTimeout, loopVars, endVars
<1>4. CASE ChooseRatings(a)
  <2>1. settled.end = 0
    BY <1>4 DEF ChooseRatings, EndInv, Settlements, Critical, Undecided
  <2>2. LoopRecordsDecidedGame'
    BY <1>4, <2>1 DEF ChooseRatings, LoopRecordsDecidedGame
  <2>3. \A b \in Actors \ {a} : pc[b] \notin Critical
    BY <1>4 DEF ChooseRatings, EndInv, Critical, Undecided
  <2>4. Outcome' = Outcome /\ rec'.by = a /\ rec'.ratings = Outcome
    BY <1>4 DEF ChooseRatings, Outcome, loopVars
  <2>5. QED
    BY <1>4, <2>2, <2>3, <2>4 DEF ChooseRatings, Critical, Undecided, loopVars
<1>5. CASE InvokeEndGame(a)
  <2>1. a = "loop" => Outcome # "none"
    BY <1>5, DecidedOutcome DEF InvokeEndGame, EndInv, Critical, Undecided
  <2>2. rec.by = a /\ rec'.by = a /\ rec'.ratings = rec.ratings /\ rec'.results = Outcome
    BY <1>5 DEF InvokeEndGame
  <2>3. LoopRecordsDecidedGame'
    BY <1>5, <2>1, <2>2 DEF InvokeEndGame, LoopRecordsDecidedGame
  <2>4. \A b \in Actors \ {a} : pc[b] \notin Critical
    BY <1>5 DEF InvokeEndGame, EndInv, Critical, Undecided
  <2>5. QED
    BY <1>5, <2>2, <2>3, <2>4 DEF InvokeEndGame, Critical, Undecided, loopVars
<1>6. CASE InvokeAbortGame(a) \/ Remove(a)
  <2>1. UNCHANGED <<board, custom, rec, mode>> /\ settled'.end = settled.end
    BY <1>6 DEF InvokeAbortGame, Remove, loopVars
  <2>2. Outcome' = Outcome /\ LoopRecordsDecidedGame'
    BY <2>1 DEF Outcome, LoopRecordsDecidedGame
  <2>3. mu' \in {mu, "free"} /\ \E l \in {"remove", "recv", "done"} : pc' = [pc EXCEPT ![a] = l]
    BY <1>6 DEF InvokeAbortGame, Remove
  <2>4. QED
    BY <2>1, <2>2, <2>3
<1>7. QED
  BY <1>1, <1>2, <1>3, <1>4, <1>5, <1>6 DEF EndStep

\* A match ended by its loop is recorded with a win or a draw, and with the
\* ratings that belong to it, whatever the other goroutines do meanwhile.
THEOREM LoopAlwaysRecordsDecidedGame == Spec => []LoopRecordsDecidedGame
<1>1. Init => RecordInv
  BY DEF Init, RecordInv, LoopRecordsDecidedGame, Actors
<1>2. TypeOK /\ EndInv /\ RecordInv /\ [Next]_vars => RecordInv'
  BY LoopKeepsRecordInv, OthersKeepRecordInv, EndStepsKeepRecordInv DEF Next
<1>3. RecordInv => LoopRecordsDecidedGame
  BY DEF RecordInv
<1>4. QED
  BY <1>1, <1>2, <1>3, TypeCorrect, EndInvariant, PTL DEF Spec

-----------------------------------------------------------------------------
(* The lifecycle *)

\* Each step of end or abort is a step of the lifecycle or leaves it alone: Lock
\* decides, the invocation settles, Remove leaves.
LEMMA EndStepsRefine ==
    ASSUME TypeOK, EndInv, NEW a \in Actors, EndStep(a)
    PROVE  [Lifecycle!Next]_(Lifecycle!lifecycle)
<1> USE DEF TypeOK, Actors, Lifecycle!lifecycle
<1>1. CASE Lock(a)
  <2>1. CASE ended
    BY <1>1, <2>1 DEF Lock
  <2>2. CASE ~ended
    <3>1. Lifecycle!Decide
      BY <1>1, <2>2 DEF Lock, EndInv, Settlements, Lifecycle!Decide
    <3>2. QED
      BY <3>1 DEF Lifecycle!Next
  <2>3. QED
    BY <2>1, <2>2
<1>2. CASE (\E c \in Conns : ProbeSwallows(a, c)) \/ ProbeFindsOpen(a)
           \/ CloseChannel(a) \/ Skip(a) \/ CheckTimeout(a)
  BY <1>2 DEF ProbeSwallows, ProbeFindsOpen, CloseChannel, Skip, CheckTimeout, endVars
<1>3. CASE ChooseRatings(a)
  BY <1>3 DEF ChooseRatings
<1>4. CASE InvokeEndGame(a) \/ InvokeAbortGame(a)
  <2>1. ended /\ removals = 0 /\ settled.end = 0 /\ settled.abort = 0
    BY <1>4 DEF InvokeEndGame, InvokeAbortGame, EndInv, Settlements, Critical, Undecided
  <2>2. Outcome \in Outcomes
    BY OutcomeType
  <2>3. CASE InvokeEndGame(a)
    <3>1. Result(rec'.results) \in {"white", "black", "draw", "aborted"}
      BY <2>2, <2>3 DEF InvokeEndGame, Result, Outcomes
    <3>2. settled'.end = 1 /\ settled'.abort = 0 /\ ended' /\ removals' = 0
      BY <2>1, <2>3 DEF InvokeEndGame
    <3>3. Lifecycle!Settle
      BY <2>1, <3>1, <3>2 DEF Lifecycle!Settle
    <3>4. QED
      BY <3>3 DEF Lifecycle!Next
  <2>4. CASE InvokeAbortGame(a)
    <3>1. settled'.end = 0 /\ settled'.abort = 1 /\ ended' /\ removals' = 0
      BY <2>1, <2>4 DEF InvokeAbortGame
    <3>2. Lifecycle!Settle
      BY <2>1, <3>1 DEF Lifecycle!Settle
    <3>3. QED
      BY <3>2 DEF Lifecycle!Next
  <2>5. QED
    BY <1>4, <2>3, <2>4
<1>5. CASE Remove(a)
  <2>1. ended /\ removals = 0 /\ Settlements = 1
    BY <1>5 DEF Remove, EndInv, Critical
  <2>2. Lifecycle!Leave
    BY <1>5, <2>1 DEF Remove, Settlements, Lifecycle!Leave
  <2>3. QED
    BY <2>2 DEF Lifecycle!Next
<1>6. QED
  BY <1>1, <1>2, <1>3, <1>4, <1>5 DEF EndStep

\* Every behaviour of a match is one of its lifecycle: open until decided once,
\* settled once with one verdict that never changes, and only then gone.
THEOREM MatchRefinesLifecycle ==
    Spec => Lifecycle!Init /\ [][Lifecycle!Next]_(Lifecycle!lifecycle)
<1>1. Init => Lifecycle!Init
  BY DEF Init, Lifecycle!Init
<1>2. TypeOK /\ EndInv /\ [Next]_vars => [Lifecycle!Next]_(Lifecycle!lifecycle)
  <2> SUFFICES ASSUME TypeOK, EndInv, [Next]_vars
               PROVE  [Lifecycle!Next]_(Lifecycle!lifecycle)
    OBVIOUS
  <2>1. ASSUME \A a \in Actors : ~EndStep(a)
        PROVE  UNCHANGED <<ended, settled, rec, removals>>
    BY <2>1 DEF Next, ConnStep, ClientStep, JoinStart, JoinSetConn, LeaveCheck,
         LeaveArm, Open, Send, LeaveSetConn, LoopStep, Receive, LoopExit, HandleAbort,
         HandleResign, HandleOfferDraw, HandleDeclineDraw, HandleBadMove, HandleMove,
         LoopCheck, TimerFire, vars, endVars
  <2>2. QED
    BY <2>1, EndStepsRefine DEF Lifecycle!lifecycle
<1>3. QED
  BY <1>1, <1>2, TypeCorrect, EndInvariant, PTL DEF Spec

-----------------------------------------------------------------------------
(* Presence *)

\* A player that counts as connected is recorded with a connection of its own
\* that is being read or has panicked.
RecordedInv ==
    \A s \in Sides : status[s] = "CONNECTED" =>
      \E c \in Conns : /\ connOf[s] = {c} /\ Owner[c] = s
                      /\ connPc[c] \in {"read", "send", "panic"}

\* As long as a player's connections have not overlapped, one handler at a time
\* acts for the player, and while it reads, the record points at it.
ApartInv ==
    \A c \in Conns : Owner[c] \notin overlapped =>
      /\ Present(c) => \A d \in Conns : Present(d) /\ Owner[d] = Owner[c] => d = c
      /\ connPc[c] \in {"read", "send"} =>
           connOf[Owner[c]] = {c} /\ status[Owner[c]] = "CONNECTED"

PresenceInv == RecordedInv /\ ApartInv

\* The loop and end move a handler only between reading and sending, or from
\* sending to a panic, and leave the players' records alone.
LEMMA OthersKeepPresence ==
    ASSUME TypeOK, PresenceInv,
           \/ LoopStep
           \/ TimerFire
           \/ \E a \in Actors : EndStep(a)
           \/ UNCHANGED vars
    PROVE  PresenceInv'
<1> USE DEF TypeOK
<1> DEFINE Moves ==
      /\ UNCHANGED <<status, connOf, overlapped>>
      /\ \A c \in Conns : connPc'[c] # connPc[c] =>
            connPc[c] = "send" /\ connPc'[c] \in {"read", "panic"}
<1>1. Moves
  <2>1. ASSUME NEW c \in Conns, Receive(c) PROVE Moves
    BY <2>1 DEF Receive, ConnGoto, presence
  <2>2. ASSUME NEW c \in Conns, NEW a \in Actors, ProbeSwallows(a, c) PROVE Moves
    BY <2>2 DEF ProbeSwallows, ConnGoto, presence
  <2>3. ASSUME NEW a \in Actors, CloseChannel(a) PROVE Moves
    BY <2>3 DEF CloseChannel, presence
  <2>4. ASSUME UNCHANGED connVars PROVE Moves
    BY <2>4 DEF connVars, presence
  <2>5. QED
    BY <2>1, <2>2, <2>3, <2>4 DEF LoopStep, LoopExit, HandleAbort, HandleResign,
       HandleOfferDraw, HandleDeclineDraw, HandleBadMove, HandleMove, LoopCheck, TimerFire,
       EndStep, Lock, ProbeFindsOpen, Skip, CheckTimeout, ChooseRatings, InvokeEndGame,
       InvokeAbortGame, Remove, vars, connVars, presence
<1>2. \A c \in Conns : Present(c)' => Present(c)
  BY <1>1 DEF Present
<1>3. RecordedInv'
  BY <1>1 DEF PresenceInv, RecordedInv
<1>4. ApartInv'
  BY <1>1, <1>2 DEF PresenceInv, ApartInv
<1>5. QED
  BY <1>3, <1>4 DEF PresenceInv

\* The handlers: opening a connection while another one is there marks the
\* player, and only the handler that is there touches the record of a player
\* that is not marked.
LEMMA HandlersKeepPresence ==
    ASSUME TypeOK, PresenceInv, NEW c \in Conns, ConnStep(c) \/ ClientStep(c)
    PROVE  PresenceInv'
<1> USE OwnerAssumption DEF TypeOK, PresenceInv, ConnGoto
<1>1. CASE Open(c)
  <2>1. /\ connPc[c] = "new" /\ connPc' = [connPc EXCEPT ![c] = "open"]
        /\ UNCHANGED <<status, connOf>>
    BY <1>1 DEF Open
  <2>2. RecordedInv'
    BY <2>1 DEF RecordedInv
  <2>3. \A s \in Sides \ {Owner[c]} : s \in overlapped' <=> s \in overlapped
    BY <1>1 DEF Open
  <2>4. Owner[c] \notin overlapped' =>
          \A d \in Conns : Owner[d] = Owner[c] => ~Present(d)
    BY <1>1 DEF Open
  <2>5. ApartInv'
    BY <2>1, <2>3, <2>4 DEF ApartInv, Present
  <2>6. QED
    BY <2>2, <2>5
<1>2. CASE JoinSetConn(c)
  BY <1>2 DEF JoinSetConn, RecordedInv, ApartInv, Present
<1>3. CASE LeaveSetConn(c)
  BY <1>3 DEF LeaveSetConn, RecordedInv, ApartInv, Present
<1>4. CASE JoinStart(c) \/ Send(c) \/ LeaveCheck(c) \/ LeaveArm(c)
  <2>1. UNCHANGED <<status, connOf, overlapped>>
    BY <1>4 DEF JoinStart, Send, LeaveCheck, LeaveArm, presence
  <2>2. \E l \in ConnPlaces :
          /\ connPc' = [connPc EXCEPT ![c] = l]
          /\ connPc[c] = "read" => l \in {"send", "panic"}
          /\ connPc[c] = "open" => l = "join"
          /\ connPc[c] \in {"open", "read", "leave", "armClock", "armDisconnect"}
          /\ connPc[c] \in {"leave", "armClock", "armDisconnect"} =>
               l \in {"armClock", "armDisconnect", "gone"}
    BY <1>4 DEF JoinStart, Send, LeaveCheck, LeaveArm, ConnPlaces
  <2>3. RecordedInv'
    BY <2>1, <2>2 DEF RecordedInv
  <2>4. ApartInv'
    BY <2>1, <2>2 DEF ApartInv, Present
  <2>5. QED
    BY <2>3, <2>4
<1>5. QED
  BY <1>1, <1>2, <1>3, <1>4 DEF ConnStep, ClientStep

LEMMA PresenceInvariant == Spec => []PresenceInv
<1>1. Init => PresenceInv
  BY DEF Init, PresenceInv, RecordedInv, ApartInv, Present
<1>2. TypeOK /\ PresenceInv /\ [Next]_vars => PresenceInv'
  BY HandlersKeepPresence, OthersKeepPresence DEF Next
<1>3. QED
  BY <1>1, <1>2, TypeCorrect, PTL DEF Spec

\* However many connections the players have open, a player that counts as
\* connected has a handler that is there or panicked; and a player whose
\* connections have not overlapped is recorded with the one being read.
THEOREM ReadersAreReachable == Spec => []Reachable
<1>1. PresenceInv => Reachable
  BY DEF PresenceInv, RecordedInv, ApartInv, Reachable
<1>2. QED
  BY <1>1, PresenceInvariant, PTL

\* checkTimeout names a player only when that player is recorded as gone and
\* the other one as connected.
LEMMA ForfeitOfTheGone ==
    ASSUME NEW s \in Sides, TimeoutOutcome = DisconnectTimeout[s], TimeoutOutcome # custom
    PROVE  status[s] = "DISCONNECTED" /\ status[Opp(s)] = "CONNECTED"
<1> DEFINE gone == {t \in Sides : status[t] = "DISCONNECTED"}
<1>1. gone # Sides /\ \E t \in gone : status[Opp(t)] = "CONNECTED"
  BY DEF TimeoutOutcome, DisconnectTimeout, Sides
<1>2. PICK t \in gone : gone = {t} /\ status[Opp(t)] = "CONNECTED"
  BY <1>1 DEF Sides, Opp
<1>3. TimeoutOutcome = DisconnectTimeout[t]
  BY <1>1, <1>2 DEF TimeoutOutcome
<1>4. s = t
  BY <1>3 DEF DisconnectTimeout, Sides
<1>5. QED
  BY <1>2, <1>4

\* Only checkTimeout gives a player a loss for being away.
LEMMA ForfeitByCheckTimeout ==
    ASSUME TypeOK, [Next]_vars, NEW s \in Sides, custom' # custom,
           custom' = DisconnectTimeout[s]
    PROVE  \E a \in Actors : CheckTimeout(a)
<1>1. HandleMove \/ \E a \in Actors : CheckTimeout(a)
  BY DEF Next, ConnStep, ClientStep, JoinStart, JoinSetConn, LeaveCheck, LeaveArm,
     Open, Send, LeaveSetConn, LoopStep, Receive, LoopExit, HandleAbort, HandleResign,
     HandleOfferDraw, HandleDeclineDraw, HandleBadMove, LoopCheck, TimerFire, EndStep,
     Lock, ProbeSwallows, ProbeFindsOpen, CloseChannel, Skip, ChooseRatings,
     InvokeEndGame, InvokeAbortGame, Remove, vars
<1>2. \A t \in Sides : OutOfTime[t] # DisconnectTimeout[s]
  BY DEF OutOfTime, DisconnectTimeout, Sides
<1>3. ~HandleMove
  BY <1>2 DEF HandleMove, TypeOK
<1>4. QED
  BY <1>1, <1>3

\* A match is awarded for the opponent's absence only to a player with a
\* connection that is being read or panicked, and, if the absent player's
\* connections have not overlapped, only when none of them is being read.
THEOREM ForfeitsAreReal == Spec => ForfeitIsReal
<1>1. ASSUME TypeOK, Reachable, [Next]_vars, NEW s \in Sides,
             custom' # custom, custom' = DisconnectTimeout[s]
      PROVE  /\ \E c \in Conns : /\ Owner[c] = Opp(s)
                                /\ connPc[c] \in {"read", "send", "panic"}
             /\ s \notin overlapped =>
                  \A c \in Conns : Owner[c] = s => connPc[c] \notin {"read", "send"}
  <2>1. status[s] = "DISCONNECTED" /\ status[Opp(s)] = "CONNECTED"
    BY <1>1, ForfeitByCheckTimeout, ForfeitOfTheGone DEF CheckTimeout
  <2>2. Opp(s) \in Sides
    BY DEF Opp, Sides
  <2>3. QED
    BY <1>1, <2>1, <2>2 DEF Reachable
<1>2. TypeOK /\ Reachable /\ [Next]_vars =>
        [\A s \in Sides :
           custom' # custom /\ custom' = DisconnectTimeout[s] =>
             /\ \E c \in Conns : /\ Owner[c] = Opp(s)
                                /\ connPc[c] \in {"read", "send", "panic"}
             /\ s \notin overlapped =>
                  \A c \in Conns : Owner[c] = s => connPc[c] \notin {"read", "send"}]_vars
  BY <1>1
<1>3. QED
  BY <1>2, TypeCorrect, ReadersAreReachable, PTL DEF Spec, ForfeitIsReal
=============================================================================
