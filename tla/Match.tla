------------------------------- MODULE Match -------------------------------
(***************************************************************************)
(* One match of the game server: internal/app/server/match.go, game.go,    *)
(* player.go and the connection part of handlers.go and server.go.         *)
(*                                                                         *)
(* Three kinds of goroutines share the match:                              *)
(*   "loop"   Match.start, which takes messages from the channel moveCh;   *)
(*   "timer"  the goroutine of setTimer, which waits for the one timer and *)
(*            calls end;                                                   *)
(*   Conns    one websocket handler for each connection of a player.       *)
(* Time is abstracted: an armed timer may fire at any moment, and only the *)
(* reason it was last armed for is kept.                                   *)
(***************************************************************************)
EXTENDS Integers, FiniteSets

CONSTANTS
    Kinds,      \* the kinds of messages clients send
    Conns,      \* the websocket connections that may be opened to the match
    Owner,      \* Owner[c] is the side whose player opens connection c
    MaxPly      \* bound: no more legal moves than this are played

Sides == {"white", "black"}
Controls == {"abort", "resign", "offerDraw", "declineDraw", "move"}

ASSUME KindsAssumption == Kinds \subseteq Controls
ASSUME OwnerAssumption == Owner \in [Conns -> Sides]
ASSUME MaxPlyAssumption == MaxPly \in Nat

Opp(s) == IF s = "white" THEN "black" ELSE "white"

Messages == [from : Sides, kind : Controls]
NoMessage == [from |-> "white", kind |-> "move"]    \* where there is none

Statuses == {"INIT", "CONNECTED", "DISCONNECTED"}
Outcomes == {"none", "white", "black", "draw"}
OutOfTime == [white |-> "WHITE_OUT_OF_TIME", black |-> "BLACK_OUT_OF_TIME"]
DisconnectTimeout == [white |-> "WHITE_DISCONNECT_TIMEOUT",
                      black |-> "BLACK_DISCONNECT_TIMEOUT"]
CustomOutcomes == {"none", "DRAW_BY_TIMEOUT"} \cup {OutOfTime[s] : s \in Sides}
                      \cup {DisconnectTimeout[s] : s \in Sides}

\* Why the timer runs: each call of setTimer or skipTimer, or that the waiting
\* goroutine has received from it.
TimerKinds == {"cancel", "match", "clock", "disconnect", "skip", "fired"}

Actors == {"loop", "timer"}

VARIABLES
    pc,         \* pc[a]: where goroutine a \in Actors is
    msg,        \* the message the loop is handling
    connPc,     \* connPc[c]: where the handler of connection c is
    connMsg,    \* connMsg[c]: the message it is sending on moveCh
    chOpen,     \* moveCh has not been closed
    mu,         \* the goroutine inside end or abort, which holds match.mu
    mode,       \* which of the two it runs
    ended,      \* match.ended
    timer,      \* the reason of match.timer
    status,     \* status[s]: player.Status
    connOf,     \* connOf[s]: player.Conn, {} or the singleton of a connection
    overlapped, \* the sides whose player has opened its latest connection
                \* before the server saw the previous one go
    turn,       \* side to move in the position
    ply,        \* len(game.moves)
    board,      \* the outcome held by the embedded chess.Game
    custom,     \* game.customOutcome
    offer,      \* game.drawOffer: {} or the singleton of the offering side
    settled,    \* how often endGameHandler and abortGameHandler were invoked
    rec,        \* what the last endGameHandler sent: who sent it, the outcome
                \* the ratings were chosen by and the outcome of the results
    removals    \* how often removeMatch ran for this match

loopVars == <<msg, turn, ply, board, offer>>
presence == <<status, connOf, overlapped>>
connVars == <<connPc, connMsg, presence>>
endVars  == <<chOpen, mu, mode, ended, settled, rec, removals>>
vars == <<pc, msg, connPc, connMsg, chOpen, mu, mode, ended, timer, status,
          connOf, overlapped, turn, ply, board, custom, offer, settled, rec, removals>>

-----------------------------------------------------------------------------
(* game.go *)

\* game.outcome: a custom outcome hides the one of the board.
Outcome ==
    CASE custom \in {OutOfTime["black"], DisconnectTimeout["black"]} -> "white"
      [] custom \in {OutOfTime["white"], DisconnectTimeout["white"]} -> "black"
      [] custom = "DRAW_BY_TIMEOUT" -> "draw"
      [] OTHER -> board

\* chess.Game.Resign of the library does nothing to a decided game.
Resign(s) == IF board = "none" THEN Opp(s) ELSE board

\* game.OfferDraw answers an offer of the other side that is still fresh (fresh
\* stands for the 20 seconds), and otherwise records an offer of this side.
AcceptsDraw(s, fresh) == offer = {Opp(s)} /\ fresh

\* Mutant of TimeoutOutcome: it stores the winner, not the method.
TimeoutOutcomeWinner ==
    LET gone == {s \in Sides : status[s] = "DISCONNECTED"} IN
    IF gone = Sides THEN "DRAW_BY_TIMEOUT"
    ELSE IF \E s \in gone : status[Opp(s)] = "CONNECTED"
         THEN Opp(CHOOSE s \in gone : TRUE)
         ELSE custom

\* Mutant of TimeoutOutcome: it blames the player who stayed.
TimeoutOutcomeSwapped ==
    LET gone == {s \in Sides : status[s] = "DISCONNECTED"} IN
    IF gone = Sides THEN "DRAW_BY_TIMEOUT"
    ELSE IF \E s \in gone : status[Opp(s)] = "CONNECTED"
         THEN DisconnectTimeout[Opp(CHOOSE s \in gone : TRUE)]
         ELSE custom

\* Match.checkTimeout: the outcome it sets from the two statuses.
TimeoutOutcome ==
    LET gone == {s \in Sides : status[s] = "DISCONNECTED"} IN
    IF gone = Sides THEN "DRAW_BY_TIMEOUT"
    ELSE IF \E s \in gone : status[Opp(s)] = "CONNECTED"
         THEN DisconnectTimeout[CHOOSE s \in gone : TRUE]
         ELSE custom

-----------------------------------------------------------------------------
(* The timer: setTimer keeps one timer and one goroutine for the match. *)

SetTimer(kind) == timer' = kind
SkipTimer == timer' = "skip"

\* newMatch and resumeMatch: no connection has joined, the cancel timeout runs
\* and the loop waits; a resumed match starts with either side to move and with
\* no moves, whatever was played before.
Init ==
    /\ pc = [a \in Actors |-> IF a = "loop" THEN "recv" ELSE "wait"]
    /\ msg = NoMessage
    /\ connPc = [c \in Conns |-> "new"]
    /\ connMsg = [c \in Conns |-> NoMessage]
    /\ chOpen = TRUE
    /\ mu = "free"
    /\ mode = "none"
    /\ ended = FALSE
    /\ timer = "cancel"
    /\ status = [s \in Sides |-> "INIT"]
    /\ connOf = [s \in Sides |-> {}]
    /\ overlapped = {}
    /\ turn \in Sides
    /\ ply = 0
    /\ board = "none"
    /\ custom = "none"
    /\ offer = {}
    /\ settled = [end |-> 0, abort |-> 0]
    /\ rec = [by |-> "nobody", ratings |-> "none", results |-> "none"]
    /\ removals = 0

-----------------------------------------------------------------------------
(* Connections: the websocket handler of server.go and handlers.go. *)

ConnGoto(c, l) == connPc' = [connPc EXCEPT ![c] = l]

\* A handler that may still call setConn(nil) for its player.
Present(c) == connPc[c] \in {"open", "join", "read", "send"}

\* The player connects and loadMatch finds the match in the server's map.
\* Nothing keeps a player from having several connections.
Open(c) ==
    /\ connPc[c] = "new"
    /\ removals = 0
    /\ ConnGoto(c, "open")
    /\ overlapped' = IF \E d \in Conns : Owner[d] = Owner[c] /\ Present(d)
                     THEN overlapped \cup {Owner[c]} ELSE overlapped \ {Owner[c]}
    /\ UNCHANGED <<pc, loopVars, connMsg, endVars, timer, status, connOf, custom>>

\* handlePlayerJoin up to setConn: white's first arrival starts the match.
JoinStart(c) ==
    /\ connPc[c] = "open"
    /\ ConnGoto(c, "join")
    /\ IF status[Owner[c]] = "INIT" /\ Owner[c] = "white"
       THEN SetTimer("match")
       ELSE UNCHANGED timer
    /\ UNCHANGED <<pc, loopVars, connMsg, endVars, presence, custom>>

\* Mutant of JoinSetConn: the connection is stored on the first join only.
JoinSetConnOnce(c) ==
    /\ connPc[c] = "join"
    /\ ConnGoto(c, "read")
    /\ status' = [status EXCEPT ![Owner[c]] = "CONNECTED"]
    /\ connOf' = IF status[Owner[c]] = "INIT"
                 THEN [connOf EXCEPT ![Owner[c]] = {c}] ELSE connOf
    /\ UNCHANGED <<pc, loopVars, connMsg, endVars, timer, overlapped, custom>>

\* setConn(conn), after the write of StartedAt to the ActiveMatches table.
JoinSetConn(c) ==
    /\ connPc[c] = "join"
    /\ ConnGoto(c, "read")
    /\ status' = [status EXCEPT ![Owner[c]] = "CONNECTED"]
    /\ connOf' = [connOf EXCEPT ![Owner[c]] = {c}]
    /\ UNCHANGED <<pc, loopVars, connMsg, endVars, timer, overlapped, custom>>

\* handleWebSocketMessage: processMove and processGameControl send on moveCh.
\* The send blocks until the loop receives it; on a closed channel it panics,
\* and net/http ends the handler without handlePlayerDisconnect.
Send(c) ==
    /\ connPc[c] = "read"
    /\ IF chOpen
       THEN /\ \E k \in Kinds :
                 connMsg' = [connMsg EXCEPT ![c] = [from |-> Owner[c], kind |-> k]]
            /\ ConnGoto(c, "send")
       ELSE ConnGoto(c, "panic") /\ UNCHANGED connMsg
    /\ UNCHANGED <<pc, loopVars, endVars, timer, presence, custom>>

\* ReadMessage fails and handlePlayerDisconnect begins: setConn(nil).
LeaveSetConn(c) ==
    /\ connPc[c] = "read"
    /\ ConnGoto(c, "leave")
    /\ status' = [status EXCEPT ![Owner[c]] = "DISCONNECTED"]
    /\ connOf' = [connOf EXCEPT ![Owner[c]] = {}]
    /\ UNCHANGED <<pc, loopVars, connMsg, endVars, timer, overlapped, custom>>

\* It compares the statuses and asks isEnded, which needs match.mu. "short"
\* stands for a clock below DisconnectTimeout.
LeaveCheck(c) ==
    /\ connPc[c] = "leave"
    /\ mu = "free"
    /\ IF ended
       THEN ConnGoto(c, "gone")
       ELSE \E short \in BOOLEAN :
              ConnGoto(c, IF short \/ status["white"] = status["black"]
                          THEN "armClock" ELSE "armDisconnect")
    /\ UNCHANGED <<pc, loopVars, connMsg, endVars, timer, presence, custom>>

\* It arms the timer, which end may have skipped in the meantime.
LeaveArm(c) ==
    /\ connPc[c] \in {"armClock", "armDisconnect"}
    /\ SetTimer(IF connPc[c] = "armClock" THEN "clock" ELSE "disconnect")
    /\ ConnGoto(c, "gone")
    /\ UNCHANGED <<pc, loopVars, connMsg, endVars, presence, custom>>

-----------------------------------------------------------------------------
(* The loop: Match.start. *)

LoopGoto(l) == pc' = [pc EXCEPT !["loop"] = l]

\* The message of connection c has been received.
Taken(c) == connMsg' = [connMsg EXCEPT ![c] = NoMessage]

\* The receive on the unbuffered channel releases the sender.
Receive(c) ==
    /\ pc["loop"] = "recv"
    /\ connPc[c] = "send"
    /\ msg' = connMsg[c]
    /\ Taken(c)
    /\ ConnGoto(c, "read")
    /\ LoopGoto("handle")
    /\ UNCHANGED <<endVars, timer, presence, turn, ply, board,
                   custom, offer>>

\* The range over moveCh ends when the channel is closed.
LoopExit ==
    /\ pc["loop"] = "recv"
    /\ ~chOpen
    /\ LoopGoto("done")
    /\ UNCHANGED <<loopVars, connVars, endVars, timer, custom>>

\* Each case of the switch handles a message of its kind.
Handling(kind) == pc["loop"] = "handle" /\ msg.kind = kind /\ msg' = NoMessage

\* case ABORT: a late abort is answered INVALID_PLY and carried out all the same.
HandleAbort ==
    /\ Handling("abort")
    /\ LoopGoto("abort")
    /\ UNCHANGED <<turn, ply, board, offer, connVars, endVars, timer, custom>>

HandleResign ==
    /\ Handling("resign")
    /\ board' = Resign(msg.from)
    /\ LoopGoto("save")
    /\ UNCHANGED <<turn, ply, offer, connVars, endVars, timer, custom>>

HandleOfferDraw ==
    /\ Handling("offerDraw")
    /\ \E fresh \in BOOLEAN :
          IF AcceptsDraw(msg.from, fresh)
          THEN board' = "draw" /\ LoopGoto("save") /\ UNCHANGED offer
          ELSE offer' = {msg.from} /\ LoopGoto("recv") /\ UNCHANGED board
    /\ UNCHANGED <<turn, ply, connVars, endVars, timer, custom>>

HandleDeclineDraw ==
    /\ Handling("declineDraw")
    /\ offer' = offer \ {Opp(msg.from)}
    /\ LoopGoto("recv")
    /\ UNCHANGED <<turn, ply, board, connVars, endVars, timer, custom>>

\* A move out of turn or not legal is answered with an error only.
HandleBadMove ==
    /\ Handling("move")
    /\ LoopGoto("recv")
    /\ UNCHANGED <<turn, ply, board, offer, connVars, endVars, timer, custom>>

\* A legal move: the position advances and may decide the game; a mover whose
\* clock is used up is out of time, otherwise the timer runs the clock of the
\* other side.
HandleMove ==
    /\ Handling("move")
    /\ msg.from = turn
    /\ ply < MaxPly
    /\ ply' = ply + 1
    /\ turn' = Opp(turn)
    /\ board' \in IF board = "none" THEN {"none", turn, "draw"} ELSE {board}
    /\ \/ custom' = OutOfTime[turn] /\ UNCHANGED timer
       \/ SetTimer("clock") /\ UNCHANGED custom
    /\ LoopGoto("save")
    /\ UNCHANGED <<offer, connVars, endVars>>

\* Mutant of LoopCheck: a decided game leaves the loop without end.
LoopCheckReturns ==
    /\ pc["loop"] = "save"
    /\ mu = "free"
    /\ LoopGoto(IF ended \/ board # "none" THEN "done" ELSE "recv")
    /\ UNCHANGED <<loopVars, connVars, endVars, timer, custom>>

\* Mutant of LoopCheck: end is called whatever the outcome is.
LoopCheckEnds ==
    /\ pc["loop"] = "save"
    /\ mu = "free"
    /\ LoopGoto(IF ended THEN "done" ELSE "end")
    /\ UNCHANGED <<loopVars, connVars, endVars, timer, custom>>

\* After notifyPlayers and save: isEnded, then the outcome of the board.
LoopCheck ==
    /\ pc["loop"] = "save"
    /\ mu = "free"
    /\ LoopGoto(IF ended THEN "done"
                ELSE IF board # "none" THEN "end" ELSE "recv")
    /\ UNCHANGED <<loopVars, connVars, endVars, timer, custom>>

-----------------------------------------------------------------------------
(* The timer goroutine of setTimer. *)

\* Mutant of TimerFire: the goroutine receives and returns without end.
TimerFireReturns ==
    /\ pc["timer"] = "wait"
    /\ timer # "fired"
    /\ timer' = "fired"
    /\ pc' = [pc EXCEPT !["timer"] = "done"]
    /\ UNCHANGED <<loopVars, connVars, endVars, custom>>

\* The goroutine receives from the timer and calls end.
TimerFire ==
    /\ pc["timer"] = "wait"
    /\ timer # "fired"
    /\ timer' = "fired"
    /\ pc' = [pc EXCEPT !["timer"] = "end"]
    /\ UNCHANGED <<loopVars, connVars, endVars, custom>>

-----------------------------------------------------------------------------
(* Match.end and Match.abort, which hold match.mu from Lock to Remove. *)

Goto(a, l) == pc' = [pc EXCEPT ![a] = l]
Return(a) == Goto(a, IF a = "loop" THEN "recv" ELSE "done")

\* Mutant of Lock: ended is not asked.
LockAnyway(a) ==
    /\ pc[a] \in {"end", "abort"}
    /\ mu = "free"
    /\ Goto(a, "probe")
    /\ mu' = a
    /\ mode' = pc[a]
    /\ ended' = TRUE
    /\ UNCHANGED <<loopVars, connVars, chOpen, timer, custom, settled, rec, removals>>

\* The two return at once when the match has already ended.
Lock(a) ==
    /\ pc[a] \in {"end", "abort"}
    /\ mu = "free"
    /\ IF ended
       THEN Return(a) /\ UNCHANGED <<mu, mode, ended>>
       ELSE /\ Goto(a, "probe")
            /\ mu' = a
            /\ mode' = pc[a]
            /\ ended' = TRUE
    /\ UNCHANGED <<loopVars, connVars, chOpen, timer, custom, settled, rec, removals>>

\* utils.IsClosed receives from the channel: with a sender waiting it takes and
\* drops that sender's message and reports the open channel closed.
ProbeSwallows(a, c) ==
    /\ pc[a] = "probe"
    /\ connPc[c] = "send"
    /\ Taken(c)
    /\ ConnGoto(c, "read")
    /\ Goto(a, "skip")
    /\ UNCHANGED <<loopVars, presence, endVars, timer, custom>>

ProbeFindsOpen(a) ==
    /\ pc[a] = "probe"
    /\ \A c \in Conns : connPc[c] # "send"
    /\ Goto(a, "close")
    /\ UNCHANGED <<loopVars, connVars, endVars, timer, custom>>

\* close(moveCh): a sender that came after the probe panics.
CloseChannel(a) ==
    /\ pc[a] = "close"
    /\ chOpen' = FALSE
    /\ connPc' = [c \in Conns |-> IF connPc[c] = "send" THEN "panic" ELSE connPc[c]]
    /\ connMsg' = [c \in Conns |-> NoMessage]
    /\ Goto(a, "skip")
    /\ UNCHANGED <<loopVars, presence, mu, mode, ended, timer,
                   custom, settled, rec, removals>>

\* Mutant of Skip: an aborted match is removed without the abortGame function.
SkipToRemove(a) ==
    /\ pc[a] = "skip"
    /\ SkipTimer
    /\ Goto(a, IF mode = "end" THEN "timeout" ELSE "remove")
    /\ UNCHANGED <<loopVars, connVars, endVars, custom>>

\* skipTimer, and on to what remains of end or of abort.
Skip(a) ==
    /\ pc[a] = "skip"
    /\ SkipTimer
    /\ Goto(a, IF mode = "end" THEN "timeout" ELSE "invokeAbort")
    /\ UNCHANGED <<loopVars, connVars, endVars, custom>>

CheckTimeout(a) ==
    /\ pc[a] = "timeout"
    /\ custom' = TimeoutOutcome
    /\ Goto(a, "ratings")
    /\ UNCHANGED <<loopVars, connVars, endVars, timer>>

\* handleEndGame reads the outcome for the ratings, and again for the results.
ChooseRatings(a) ==
    /\ pc[a] = "ratings"
    /\ rec' = [rec EXCEPT !.by = a, !.ratings = Outcome]
    /\ Goto(a, "invokeEnd")
    /\ UNCHANGED <<loopVars, connVars, chOpen, mu, mode, ended, timer, custom,
                   settled, removals>>

InvokeEndGame(a) ==
    /\ pc[a] = "invokeEnd"
    /\ rec' = [rec EXCEPT !.results = Outcome]
    /\ settled' = [settled EXCEPT !.end = @ + 1]
    /\ Goto(a, "remove")
    /\ UNCHANGED <<loopVars, connVars, chOpen, mu, mode, ended, timer, custom, removals>>

InvokeAbortGame(a) ==
    /\ pc[a] = "invokeAbort"
    /\ settled' = [settled EXCEPT !.abort = @ + 1]
    /\ Goto(a, "remove")
    /\ UNCHANGED <<loopVars, connVars, chOpen, mu, mode, ended, timer, custom,
                   rec, removals>>

\* Mutant of Remove: the mutex is not released.
RemoveLocked(a) ==
    /\ pc[a] = "remove"
    /\ removals' = removals + 1
    /\ Return(a)
    /\ UNCHANGED <<loopVars, connVars, chOpen, mu, mode, ended, timer, custom, settled, rec>>

\* server.removeMatch, and the deferred Unlock.
Remove(a) ==
    /\ pc[a] = "remove"
    /\ removals' = removals + 1
    /\ mu' = "free"
    /\ Return(a)
    /\ UNCHANGED <<loopVars, connVars, chOpen, mode, ended, timer, custom, settled, rec>>

-----------------------------------------------------------------------------
ConnStep(c) ==
    \/ JoinStart(c) \/ JoinSetConn(c) \/ LeaveCheck(c) \/ LeaveArm(c)

ClientStep(c) == Open(c) \/ Send(c) \/ LeaveSetConn(c)

LoopStep ==
    \/ \E c \in Conns : Receive(c)
    \/ LoopExit \/ HandleAbort \/ HandleResign \/ HandleOfferDraw
    \/ HandleDeclineDraw \/ HandleBadMove \/ HandleMove \/ LoopCheck

EndStep(a) ==
    \/ Lock(a) \/ ProbeFindsOpen(a) \/ CloseChannel(a) \/ Skip(a)
    \/ CheckTimeout(a) \/ ChooseRatings(a) \/ InvokeEndGame(a)
    \/ InvokeAbortGame(a) \/ Remove(a)
    \/ \E c \in Conns : ProbeSwallows(a, c)

Next ==
    \/ \E c \in Conns : ConnStep(c) \/ ClientStep(c)
    \/ LoopStep
    \/ TimerFire
    \/ \E a \in Actors : EndStep(a)

\* The Go scheduler runs every goroutine that can run, and a timer that is not
\* set again for ever goes off; clients need never do anything.
Fairness ==
    /\ WF_vars(LoopStep)
    /\ WF_vars(TimerFire)
    /\ \A a \in Actors : WF_vars(EndStep(a))
    /\ \A c \in Conns : WF_vars(ConnStep(c))

Spec == Init /\ [][Next]_vars /\ Fairness

-----------------------------------------------------------------------------
(* Properties *)

Places == {"recv", "handle", "save", "wait", "end", "abort", "probe", "close",
           "skip", "timeout", "ratings", "invokeEnd", "invokeAbort", "remove",
           "done"}
ConnPlaces == {"new", "open", "join", "read", "send", "leave", "armClock",
               "armDisconnect", "gone", "panic"}

\* The type of the state.
TypeOK ==
    /\ pc \in [Actors -> Places]
    /\ msg \in Messages
    /\ connPc \in [Conns -> ConnPlaces]
    /\ connMsg \in [Conns -> Messages]
    /\ chOpen \in BOOLEAN
    /\ mu \in Actors \cup {"free"}
    /\ mode \in {"none", "end", "abort"}
    /\ ended \in BOOLEAN
    /\ timer \in TimerKinds
    /\ status \in [Sides -> Statuses]
    /\ connOf \in [Sides -> SUBSET Conns]
    /\ overlapped \subseteq Sides
    /\ turn \in Sides
    /\ ply \in 0..MaxPly
    /\ board \in Outcomes
    /\ custom \in CustomOutcomes
    /\ offer \in SUBSET Sides
    /\ settled \in [end : Nat, abort : Nat]
    /\ rec \in [by : Actors \cup {"nobody"}, ratings : Outcomes, results : Outcomes]
    /\ removals \in Nat

\* The loop and the timer goroutine can both reach end, and the loop abort, for
\* reasons that arise at the same time (match.go end, abort). Whatever the
\* order, a match is handed over to the endGame or the abortGame function at
\* most once in total, and leaves the server's count once, after that.
SettledOnce ==
    /\ settled.end + settled.abort <= 1
    /\ removals <= settled.end + settled.abort

\* A match that has not ended can always still end and be played: its timer
\* goroutine waits on an armed timer or is on its way into end (setTimer), and
\* its loop still serves an open channel (start).
LiveMatchIsServed ==
    ~ended => /\ \/ pc["timer"] = "wait" /\ timer # "fired"
                 \/ pc["timer"] = "end"
              /\ chOpen
              /\ pc["loop"] # "done"

\* The connection a player record writes to is one whose handler goes on, or
\* panicked, however many connections the player has (player.go setConn, from
\* join and disconnect of different handlers). The connection being read is the
\* one written to, and its player counts as CONNECTED, unless the player opened
\* it while another one was there.
Reachable ==
    /\ \A s \in Sides : status[s] = "CONNECTED" =>
         \E c \in Conns : /\ connOf[s] = {c} /\ Owner[c] = s
                         /\ connPc[c] \in {"read", "send", "panic"}
    /\ \A c \in Conns :
         connPc[c] \in {"read", "send"} /\ Owner[c] \notin overlapped =>
           connOf[Owner[c]] = {c} /\ status[Owner[c]] = "CONNECTED"

\* checkTimeout awards a match to a player only if a connection of that player
\* is being read or has panicked, and against a player for being away only if
\* none of that player is, unless its connections have overlapped.
ForfeitIsReal ==
    [][ \A s \in Sides :
          custom' # custom /\ custom' = DisconnectTimeout[s] =>
            /\ \E c \in Conns : /\ Owner[c] = Opp(s)
                               /\ connPc[c] \in {"read", "send", "panic"}
            /\ s \notin overlapped =>
                 \A c \in Conns : Owner[c] = s => connPc[c] \notin {"read", "send"}
      ]_vars

\* A match that the loop itself ends (not the timer) is sent with a decided
\* outcome, and the ratings sent are those of the result sent (handleEndGame
\* reads the outcome twice).
LoopRecordsDecidedGame ==
    settled.end > 0 /\ rec.by = "loop" =>
        rec.results # "none" /\ rec.ratings = rec.results

\* Every match is eventually settled and leaves the server, whatever clients do
\* or fail to do: the timer goes off if nothing else ends it.
EverySettles == <>(removals > 0)

\* Once the channel of an ended match is closed the loop's goroutine ends.
LoopExits == ~chOpen ~> pc["loop"] = "done"

\* The match implements its lifecycle: what endGame records is a win or a draw
\* (a game with no outcome is recorded 0.5 to 0.5).
Result(o) == IF o = "none" THEN "draw" ELSE o
Lifecycle == INSTANCE MatchLifecycle WITH
    Verdicts <- {"white", "black", "draw", "aborted"},
    phase <- IF ~ended THEN "open" ELSE IF removals = 0 THEN "ending" ELSE "over",
    verdict <- (IF settled.end > 0 THEN {Result(rec.results)} ELSE {})
                 \cup (IF settled.abort > 0 THEN {"aborted"} ELSE {})

\* Match.start, end, abort and the timer implement the lifecycle a match
\* promises: decided once, settled once with one verdict, then gone, for ever.
ImplementsLifecycle == Lifecycle!Spec

=============================================================================
