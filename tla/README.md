# Formal verification of slchess

TLA+ modules, TLC configurations and TLAPS proofs for the slchess backend: the
Go game server that runs chess matches over websockets, and the Lambda
functions and workers around it. Paths are relative to the repository.

## 1. Inventory

| component | code | state it keeps | operations | what makes it correct |
|---|---|---|---|---|
| Match | `internal/app/server/match.go`, `game.go`, `player.go` | position, custom outcome, draw offer, two players with status and connection, one timer, channel `moveCh`, `ended` under `mu` | `start` loop, `end`, `abort`, `setTimer`, `checkTimeout` | settled exactly once; a live match always has a deadline; what is recorded is what was played |
| Connection handlers | `handlers.go`, `server.go` (websocket) | none of their own; they mutate the match | join, message, disconnect | presence agrees with the connections that are read |
| Game server | `server.go` (`loadMatch`, `removeMatch`, protection timer), `handleSaveGame`, `matchState.go` | `matches`, `totalMatches`, `protectionTimer`; table MatchStates | load, create or resume, save, remove, protect the task | one match object per id, count = number of matches, no running match on an unprotected task, a resumed match continues from the last saved position |
| Settlement | `cmd/lambda/endGame`, `abortGame`, `removeExpiredMatch`, `internal/aws/storage` | tables ActiveMatches, UserMatches, MatchRecords, MatchResults, UserRatings, SpectatorConversations | a fixed sequence of writes, stopping at the first error | players are freed; ratings and results agree; nothing done twice |
| Matchmaking | `cmd/lambda/matchmaking`, `matchmakingCancel` | MatchmakingTickets, UserMatches, ActiveMatches | queue, match, cancel | a user is in at most one match and is never locked out |
| Notification | `cmd/lambda/connect`, `disconnect`, `queuing`, `notifyQueueingUser` | Connections and its index | connect, wait, notify, disconnect | a waiting user learns of its match |
| Restore and fleet | `cmd/lambda/matchRestore`, `internal/aws/compute/fargate.go`, `templates/compute.yaml` | running tasks, desired count, a match's server address | find, start or replace a server | a match keeps its server while that is there, and gets another when it is not |
| Evaluation | `cmd/lambda/evaluate`, `evaluationWorkAcquire`, `evaluationSubmit`, `internal/app/stofinet`, `internal/aws/analysis` | evaluation cache, SQS queue, connections | request, acquire, submit | every request is eventually answered; no work is lost |
| Friends | `cmd/lambda/friend*`, `applicationEndpointPut` | FriendRequests, Friendships, ApplicationEndpoints | add, accept, reject, remove | a request is never lost half-way |
| Lists | the eight `cmd/lambda/*List` over tables, and their `Fetch*` | none; tokens held by the client | page | every row once |
| Accounts | `postUserConfirmation`, `paymentConfirmation`, `avatarUpload`, `postAvatarUpload`, `puzzleSolve` | UserProfiles, PuzzleProfiles, UserRatings, avatar buckets | confirm, pay, upload, solve | what one function writes survives the others |
| Ratings | `cmd/lambda/matchmaking/rating.go` | none | Glicko update | right rating for the right outcome |
| Puzzle queries, reads of one row, metrics | `puzzleGet`, `puzzleList`, `userGet`, `matchSpectate`, ... | none | read | formatting |
| Load-test variants | `internal/app/servertest`, `cmd/lambda/matchmakingtest` | as the originals | as the originals | variants for load tests |
| FEN tools, authentication, presigned uploads, deployment | `pkg/utils/fen.go`, `internal/aws/auth`, `presign`, `templates` | none | parsing, tokens, URLs | |

**How they interact.** A client asks the matchmaking function for a game; it
writes an ActiveMatch naming a game server and notifies both users over the
notification websocket. Both then open `/game/{matchId}` on that server, whose
handler loads or creates the match and forwards messages to the match's loop
through `moveCh`. The match is saved through AppSync after each accepted
action. When it is over, the server invokes the endGame function (synchronously)
or the abortGame function (asynchronously), which free the players and update
ratings. A server that died is replaced through matchRestore.

**What is hard.** One match is touched by its loop, its timer goroutine and one
goroutine per connection, and only part of its state is under `mu`. The
functions work on several tables without transactions: any of them may stop
after any write, run concurrently with itself and with the game server, and be
retried. Deadlines race with answers (abort, cancel, disconnect, flag fall,
visibility timeout). Servers come and go while functions hold their addresses.

## 2. Modules

| model | extends | checked by | proofs |
|---|---|---|---|
| `Match` | | `MCMatch` | `MatchProofs` |
| `MatchLifecycle` (abstract) | | implemented by `Match` | `MatchProofs` |
| `Hosting` (abstract) | | implemented by `GameServer` | `GameServerProofs` |
| `Pairing` (abstract) | | implemented by `Matchmaking` | `MatchmakingProofs` |
| `Settlement` | | `MCSettlement` | `SettlementProofs` |
| `Matchmaking` | `Settlement` | `MCMatchmaking` | `MatchmakingProofs` |
| `GameServer` | | `MCGameServer` | `GameServerProofs` |
| `Evaluation` | | `MCEvaluation` | `EvaluationProofs` |
| `Fleet` | | `MCFleet` | `ServiceProofs` |
| `Listing` | | `MCServices`, `MCListing` | `ListingProofs` |
| `Friends` | | `MCServices` | `FriendsProofs` |
| `Notification`, `Accounts` | | `MCServices` | `ServiceProofs` |

`Matchmaking` composes with `Settlement`: the calls that make matches run over
the tables that the functions of earlier matches are clearing. `Hosting` says how
one server looks from the tables: a match is idle, live or ending, and goes from
one to the other in a fixed order. `GameServer` is proved to implement it. The
steps that `Settlement` gives its server between these phases (`Load`, `End`,
`EndReturns`, `Abort`, `Crash`) are by inspection those that `Hosting` lists; that
`Settlement` leaves out none of them in any state is read off the two modules and
is not a theorem. `MCServices` puts
four services beside each other that share neither row nor message; a behaviour
is one of one of them, so that the states add up and do not multiply.

An operator whose comment begins with "Mutant" is a wrong form of the definition
that follows it. It is used by no action: with it in the place of the original
the property that PROJECT.json names is violated, which shows that the property
depends on that code.

Left for later, in this order: the clocks of a match (durations instead of
timers that may fire at any time); overlapping calls of one user in
`Matchmaking`; the Glicko arithmetic over small integers.

## 3. Match

`Match.tla` has one variable per field of `Match`, `game` and `player` that
control depends on, a program counter for the loop and for the timer goroutine
(`pc`), and one per connection handler (`connPc`). Each action is the code
between two points where another goroutine can observe or change shared state.

* `Open`, `JoinStart`, `JoinSetConn`: `handlePlayerJoin`. Between its two parts
  the code writes to DynamoDB, so other goroutines run.
* `Send`, `Receive`: the unbuffered `moveCh`. A handler blocks in `send` until
  the loop takes the message. A send on a closed channel panics; `net/http`
  recovers, and `handlePlayerDisconnect` is skipped (`panic`).
* `LeaveSetConn`, `LeaveCheck`, `LeaveArm`: `handlePlayerDisconnect`; `isEnded`
  needs `mu`, setting the timer does not.
* `Handle*`, `LoopCheck`, `LoopExit`: the cases of `start`, then
  notify/save/`isEnded`/outcome check. The library's part of a move is a choice:
  a legal move may decide the game for the mover or as a draw.
* `TimerFire`: the goroutine of `setTimer`.
* `Lock` ... `Remove`: `end` and `abort`, which share their first half; `mu` is
  held from `Lock` to `Remove`. `ProbeSwallows` is `utils.IsClosed` receiving a
  waiting sender's message. `ChooseRatings` and `InvokeEndGame` are the two
  reads of the outcome in `handleEndGame`.

Abstractions: time (a timer that is armed may fire at once; `timer` keeps only
the reason), the board (only turn, ply and outcome), messages to clients. A
failed Lambda invocation ends the process (`logging.Fatal`); crashes are in
`GameServer` and `Settlement`. Reads of a status by `checkTimeout` while a handler writes it (a data
race in the code) appear as either order of the two steps.

Bounds. `match_safety`: one connection for each player, every kind of message,
one legal move. `match_lifecycle`: two connections for white and one for black,
aborts as the only messages and no moves; since nothing moves, the side to move
is fixed to white there (`MCSpec`). Two connections are enough for a player to
leave, come back and meet the timer of its own departure, or to open the second
before the server has seen the first one go, and one move for a game to be
decided on the board while the timer fires.

Any client may open a connection while it has another. The disconnect of the old
one then marks the player as gone although the new one is read (section 13).
`overlapped`, which no action reads, remembers the players whose latest connection
was opened in that way. `Reachable` and `ForfeitIsReal` say what holds with any
overlap: whoever is recorded as connected, and whoever wins because the other one
is away, has a handler that goes on or has panicked. What they promise to a player
while it is read, that it is the one recorded and does not forfeit, they promise
to players who are not in `overlapped`; of the others it does not hold.

Fairness: weak fairness of the loop, of the handlers' steps that need no
client, of `end`/`abort` and of the timer. The Go scheduler justifies the
first three. A timer can be set again only by a move, a disconnect or white's
arrival, which are finitely many in a game, so it goes off if nothing else ends
the match. Clients are never assumed to do anything.

Proved (`MatchProofs`), for every set of connections, every assignment to
players and every `MaxPly`: `TypeCorrect`, `SettledAtMostOnce`,
`LiveMatchAlwaysServed`, `LoopAlwaysRecordsDecidedGame`, `ReadersAreReachable`,
`ForfeitsAreReal` and the safety part of the refinement
(`MatchRefinesLifecycle`). The inductive invariant `EndInv`
says that the goroutine inside `end` or `abort` is the holder of `mu`, that it
set `ended`, and how many settlements there are before, at and after its
invocation: `SettledOnce` alone is not inductive, since nothing in it says that
a goroutine about to invoke is the only one. `RecordInv` adds that the loop
enters `end` only with a decided board and that a goroutine between the two
readings owns `rec`. `PresenceInv` says of every player that the handler its
record names as connected goes on or has panicked (`RecordedInv`), and of those
whose connections have not overlapped that one handler at a time is between
opening and leaving (`ApartInv`).

## 4. Settlement

`Settlement.tla` has a variable per table and one program counter (`job`) per
function and match. A function is a fixed program of writes (`EndWrites`,
`AbortWrites`, `ExpireWrites`), each one DynamoDB call; `Step` performs the next
one, `Fail` is the early return of an error. Only `abortGame`, which is an
asynchronous event, is retried by Lambda; the server does not look at the
`FunctionError` of `endGame`. `Load`, `End`, `EndReturns`, `Abort`, `Expire` and
`Crash` are what the game server does in between: `End` waits for the function,
`Abort` forgets the match at once. A handler reads the row before it takes the
lock under which it loads the match (`server.go:207`, `:227`), so that `Load` may
come after the row is gone; `stale` remembers such matches. It looks at the age
of a match before it looks for a live one, so that `Expire` may strike a match
that is being played. `Free` deletes the mark of a user whatever
match it is for, as `DeleteUserMatch` does, and `Rate` stores a rating that was
computed when the match was made: a rating is the set of matches it counts.

`Make` is a successful `createMatch` in one step, so that `Settlement` stands by
itself; `Matchmaking` replaces it.

Bounds: one match and two users, three loads and expiries together (`loads`
counts both, since each acts on a row once more), two failed calls, one crash and
one retry: a failure in each of two functions that work on the match, and a load
after either. What relates two matches is in `matchmaking_safety`.

Fairness: a live match ends (that is `EverySettles` of `Match`) and an invoked
function goes on. Nothing makes users play.

`SettlementProofs` proves the results below for any users, matches, functions at
work and any numbers of loads, failures, crashes and retries. The shape is the
same for each: an invariant stated for one match, a lemma for a step of the
server or of a function, a lemma for `Make`, which `Matchmaking` replaces.
`Effects` and `EffectsAt` reduce a step of a program to the position where it is,
so that the proofs speak of positions and not of nine kinds of writes.

* `TypeCorrect` from `TypeInv`: a match that is not made has nothing that works
  on it.
* `RecordCorrect` (`CountedIsRecorded`) from `RecordInv`, which adds that the
  ratings a match was made with count recorded matches and that endGame is past
  its record when it rates.
* `LockCorrect` (`EndNeverLocksOut`) from `LockInv`: only the players of a match
  are marked with it, and the marks are off, one after the other, before the row
  goes. The statement alone is not inductive: it says nothing of a function that
  is about to drop the row.
* `OnceCorrect` (`RecordedOnce`) from `OnceInv`: while endGame runs the server
  has not forgotten the match, and a recorded match has no row to load it from.
  A crash, or a row read earlier (`stale`), is the way around it.
* `CareCorrect` (`MarkedIsCared`) from `CareInv`: without failures a mark with a
  match that was loaded or taken for expired is one of a match that is played, or
  some running function has the write that frees this player before it
  (`WillFree`). The step that matters is the function's own: it may leave a
  freeing write behind only by having made it (`FreeEffect`).
* `StayCorrect` (`PlayersStayMarked`) from `StayInv` and `LockInv`: one function
  works on a match, once, and until it has freed a player that player is marked
  with this match, so that it takes no other match's mark off.
  `UndisturbedBefore` allows the invariant to be stated for undisturbed states.

## 5. Matchmaking

`Matchmaking.tla` extends `Settlement` and has, per user, the tickets table and
the call the user made: where it is (`at`) and its local variables. One action
is one storage call of `cmd/lambda/matchmaking/main.go`; `FailCall` is the error
path of each, including the two places where the code does not look at the
error. `Scan` may or may not see a ticket that is being put or deleted.
`Cancel` is matchmakingCancel. Two calls of one user at a time are excluded.

Bounds: three users, two matches, two (`matchmaking_safety`) or four
(`matchmaking_lockout`) calls, one failed storage call in `matchmaking_safety`
and none in `matchmaking_lockout`. Three users are what it takes
for two calls to choose the same opponent or each other, and two matches for the
settlement of one to race with the making of the other.

`MatchmakingProofs`, for any users, requests, matches, calls and failed storage
calls:

* `MatchmakingTypeCorrect`, `CallsStayApart` and `MatchedStayMarked`. The
  invariant is `StayInv` of Settlement's proof, kept by the lemmas of that proof
  where the tables' functions step, together with `CallInv` (no two calls make
  the same match, a match that a call has not put is not made, nobody plays
  himself) and `MarkInv` (who is marked with a match that is being made: first
  the opponent alone, then both). `CallsAreDisjoint` is not inductive: two calls
  before their marks may have chosen one opponent, and only the marks, one per
  user, tell them apart.
* `MatchedNeverLockedOut`, `MatchedCountsRecorded`, `MatchedAreCared` and
  `MatchedRecordOnce`: what `Settlement` promises with matches made in one step
  it promises with the steps of calls that interleave, fail and leave marks
  behind, failures of the functions and crashes included. `LockInv`, `OnceInv`,
  `RecordInv` and `CareInv` are kept again (`SettledInv`); what the calls add is
  `ReadInv`: a match that is not put yet has no marks but of its two players,
  who may have lost theirs by then, and the ratings a call has read count
  recorded matches only, however long ago it read them.
* `MatchmakingImplementsPairing`: the function and the settling functions
  together implement `Pairing`, in which two free users are paired in one step
  and released only when their game is over. A mark is seen as a game once the
  match is put (`GameOf`), a match is over when a function starts to work on it
  (`StateOf`); only `PutActiveMatch` is seen as pairing (`CallsPair`), and
  `MarkInv` is why both users have no game at that moment. The hypothesis
  `[]Undisturbed` is needed: with a failed or a second settlement a function
  takes off marks that are not its own (section 13). It does not exclude failing
  matchmaking calls, crashes, or concurrency of any kind. `OpenGamesAreForTwo`
  is what users get from it.

## 6. Game server

`GameServer.tla`: a handler of a connection reads the row (`Read`), then, under
`server.mu`, finds the match or creates it (`Create`), counts it and protects
the task; `removeMatch` (`Delete`, `Uncount`, `Skip`) runs in the match's own
goroutine without that lock. `Guard` is the goroutine of the protection timer,
`Expire` the timer. `Save` may fail, since `handleSaveGame` only logs that, and so
may both calls of `UpdateServerProtection`, for want of the task's metadata or in
ECS: `enableProtection` and `disableProtection` log it and never try again
(`server.go:396`, `:405`), so that in `Guard` a call takes effect or has none.
`refused` remembers that the waiting goroutine asked for protection in vain.
`Crash` ends the process: objects and the map are gone, the tables stay.

`ServingIsProtected` excludes by name the two ways in which a server with matches
is left unprotected, and no longer than they last: the failed call, until the
next goroutine asks, and a match loaded while the empty server was giving its
protection up (`overlapped`), until a goroutine asks after that. Both are in
section 13.

Assumed: the timer goes off by itself only on a server without matches, that is
no match outlasts the duration it gives to `resetProtectionTimer`. ECS ends a
protection by itself after some hours; that is left out, too. A row without
a game mode, which a late join can leave behind, is never loaded.

Bounds: two matches, two handlers, two match objects in all (three in
`server_resume`), one crash, two moves in one of the matches. The moves matter
only for what is saved, so one match with moves is enough; two saved states are
needed to tell the last from the first. What a removed object held is reset
(`Gone`), as garbage would be.

`GameServerProofs` proves all five properties of `server_load`, and that the
server implements `Hosting`, for any matches, handlers, objects, moves and
crashes:

* `OneObject` adds `KeysAreServed`, that the map leads only to objects of its
  key that are not removed: `removeMatch` deletes by id, and nothing but this
  says that it deletes its own object.
* `CountIsRight` from `CountInv`: `server.mu` is held by one handler, and at any
  time `total` = registered matches + objects deleted and not yet uncounted −
  the match a handler has registered and not yet counted.
* `ServingIsSafe` from `GuardInv`: with a match counted, and no overlap that is
  not healed, nobody is giving the protection up, and the goroutine of a timer
  whose call took effect has the task protected.
* `FirstResume` from `PlyIsPosition`: while a match has had one object, the ply
  of a saved state is its position, so that the highest ply is the last state.
  The resumed match is where that ends (`server_resume`).
* `ServerImplementsHosting`: with the phase of a match read off its objects
  (`PhaseOf`) the server implements `Hosting`. `OneServes` is the reason: of the
  objects of a match at most one is between its creation and its removal from
  the map, so that a step of one object changes the phase of one match
  (`OthersStay`), and a match has none, and is idle, when a handler makes one.

## 7. Evaluation

`Evaluation.tla`: `Ask` to `CheckAndStartNewTask` are the evaluate function;
`AcquireEvaluationWork`, `Evaluate` the loop of an analysis node; `Post`,
`PutEvaluation`, `RemoveEvaluationWork`, `AssignMore` the evaluationSubmit
function; `TimeOut` and `Expire` the queue; `StartNode`, `ScaleOut`, `Stop` the
ECS service. An error ends `Start`; it then runs once more, as the argument of
`logging.Fatal` in `cmd/stofinet/main.go` (`retried`).

Bounds: two requests for one position, two nodes, one mishap (a failed call, a
stopped node, an evaluation that outlasts the visibility timeout). Answers are
counted up to 2.

Fairness: running functions, the loop, ECS and the visibility timeout make
progress. Users, expiry and the scaling policy are not fair.

`EvaluationProofs`, for any requests, positions, nodes and mishaps:
`NothingIsDropped` from `SubmitInv` (a function that has passed a step has done
what that step does) and `NothingIsRepeated` from `OnceInv` (until a message has
timed out one node has it, it is out of sight, and it is not answered before it
is posted).

## 8. Fleet

`Fleet.tla` has the tasks of the ECS service, the desired count, the server in
each match's row, what the servers have loaded, and one call per client. A call
is of one of three kinds, which share the code of `fargate.go`: a restore
(`matchRestore`), a new match and a rejoin (both `matchmaking`; a rejoin answers
with what it finds and does not store it). Every action is one call of a
function: `CheckTasks` and `ScaleToOne` are CheckAndStartNewTask, `Find` and
`GetServerStatus` CheckAndGetNewServerIp, `Offer`, `GetServerStatus` and
`StartNewTask` GetAvailableServerIp; `UpdateActiveMatch` and `CreateMatch` write
the row. `Connect` is the client that goes to the address it was given and the
server that loads the match, without a look at its own address. `PlaceTask`,
`RunTask`, `StopTask`, `NoticeDead` and `Recycle` are ECS, `Die` a task that
dies and stays listed for a while, `ScaleIn` the policy of the template.

Abstractions: servers are asked from the newest to the oldest; here in any
order. An address comes back when no row of a live match and no call refers to
it. A task without an address and one that does not answer are the same failed
try. Errors of the AWS calls themselves are left out, failed tries are not.

Bounds: three tasks, one running at first, each with room for one match; the two
players of one match as clients, and another match that takes up a place; two
tries for five; two troubles, which are crashes, scale-ins and calls for new
matches together. Two clients are what it takes for two searches, or a search
and a scaling, to cross; two troubles let the server die and its successor as
well.

Fairness: ECS goes on, a running function goes on, a client whose match is lost
calls again, and a match that is played ends. Crashes and scale-ins are not fair, and bounded:
without a bound on them nothing could be promised.

`ServiceProofs` proves `FleetTypeCorrect` (a task that serves a match is running
among it) and `ServersAreKept` for any tasks, clients, matches and troubles. The
invariant `FleetInv` says that whatever task a row or a call refers to has
started (`Started`) and that a restore that has gone past the server of the row
found it stopped. `ServedAgain` is liveness and stays with TLC.

## 9. Lists

`Listing.tla` is the eight list functions as one module: a function is a record
of the query it makes (`Fetch*`: attributes of the key, directions) and of what
the handler does with tokens (which attributes it reads from the last key and as
which type, which it sends back as start key, and whose partition it names). The
client pages (`NextPage`, `LastPage`) while rows are put and deleted; a page is
the first rows after the start key, at most as many as the limit. A token fails
when the assertion on the last key panics (`TokenPanics`) or DynamoDB refuses
the start key (`StartKeyRefused`).

Bounds: four rows, limits one and two: pages of one row, full last pages, and
rows deleted under the token. Rows and their order are finite and arbitrary in
the proofs.

`ListingProofs`: `PagesAreComplete` for any finite set of rows, any order and any
limits. The token is the last row of the page, so the page must have one:
`LastOfPage` shows it by well-founded induction over strict subsets of rows.
`PageInv` then says that before a page is asked for, the rows after the start
key were not given and those up to it that stayed were. `FittingTokensAreGood`
proves that no token fails if only friendships, the two lists of friend requests
and match states are listed; `listing_cursor` shows that the statement does not
hold with the other four.

## 10. Friends

`Friends.tla`: friendRequestAdd (`GetFriendship` to `DeleteApplicationEndpoint`),
friendRequestAccept (`PutReceiver`, `PutSender`, `DeleteFriendRequest`),
friendRequestReject, friendshipRemove and applicationEndpointPut, one call per
action, each able to fail. friendRequestRemove is not modelled: its source is that
of friendRequestAdd without the push, so that it puts a request and removes none,
and the templates do not deploy it.
A client waits for an answer before it asks again, and accepts what it was shown
at some time, which may be gone by then: the function does not look.

Bounds: two users, one of whom sends, two acceptances, one device, one fault.
Two acceptances of one request is the interesting overlap.

Fairness: `AddStep`, a running function goes on; `Repeat`, a client repeats a
request that failed.

`FriendsProofs`: `RequestsAreAnswered` for any users, devices, calls and faults.
`AcceptInv` says that an acceptance that has reached its n-th write finds what
the earlier writes made, unless its user has removed it since (`removed`).

## 11. Notification and accounts

`Notification.tla`: one user's connections, their rows and the index over them
(which follows with any delay), the queuing function, and the call of another user
that makes the match, from the mark to the end of `notifyQueueingUser`. queuing
reads the row of the connection and not the index, so a user may have its answer,
that there is no match yet, before the index knows the connection; the matcher
that looks into the index at that moment finds nobody and takes that for nobody
waiting (`matchmaking/main.go:356`). That wake-up is lost, and `WaiterIsTold`
excludes it exactly: `missed`, which no action of the code reads, is the set of
connections of which this happened, and `Wait` takes a connection out again, since
a user who asks once more is told by queuing. Everything else about the lag is
covered: an index that still has a closed connection, one that learns of the
connection between the answer and the search, two connections.
Bounds: two connections, one error. `ServiceProofs` proves `WaitersAreTold` for
any number of either: `WaitInv` adds that an open connection has its row, so that
the matcher finds it in the index or it is in `missed`, that the row of the match
is there before the index is read, and that a match was posted before the matcher
closes the connection.

`Accounts.tla`: the rows of one user. postUserConfirmation puts three rows
whatever is there; paymentConfirmation and postAvatarUpload each write one
attribute of the profile; postAvatarUpload reads the original, writes every
size, updates the profile and deletes the original; puzzleSolve reads and writes
a rating. Repeated and overlapping invocations are explicit: `late` is a
confirmation after a payment, `crossed` an overlap of puzzle solutions, and the
properties exclude them by name (section 13 says what happens then). The numbers
of a puzzle (300, plus 10) stand for its rating. Bounds: two confirmations, two
uploads in two sizes or two solutions, one failure: two of each are what it
takes to overlap. `ServiceProofs` proves `PayersArePro`, `AvatarsAreThere`
(`AvatarInv`: the sizes an upload is done with have a picture, and nothing takes
one away) and `SolvesAreCounted` (`PuzzleInv`: whoever is about to write is
alone and has read what is still there) for any number of each.

`ServicesApart`: a behaviour of the four services side by side (`MCServices`) is
one of each of them, so that `ServicesTypeCorrect` and `ServicesKeepPromises`
follow from the components' theorems: together they keep every promise that
`services_apart` checks, but the liveness one.

## 12. Runs

| run | shows |
|---|---|
| `match_safety` | a match is settled once, a live one has its timer, channel and loop, and its loop records decided games only, for all messages and interleavings |
| `match_lifecycle` | whoever is recorded as connected, or wins because the other one is away, is there; a player whose connections did not overlap is reachable while it is read and never forfeits for being away; every match is settled and leaves the server, the loop ends once the channel is closed, and the match implements `MatchLifecycle`, liveness included |
| `settlement_failures` | `EndNeverLocksOut`, `CountedIsRecorded`, `RecordedOnce`, wherever calls fail and the server crashes; without failures `MarkedIsCared` and `PlayedFrees` |
| `matchmaking_safety` | players of a live match stay marked, calls of several users never share a player, with a failed call and earlier matches being settled; marks implement `Pairing` |
| `matchmaking_lockout` (violated) | a call that marked the opponent and cannot mark its caller, whom another call has marked meanwhile, leaves the opponent marked with a match nobody made |
| `server_load` | one object per match, a count that agrees with the map, a task that is protected when the call for it took effect, a first resume from the last saved position |
| `server_resume` (violated) | a match that is resumed twice comes back at an older position, since ply counts from 0 after a resume and decides which state is the last |
| `evaluation_nodes` | nothing is removed from the queue before it is answered and cached, no double answers, every queued request is answered |
| `evaluation_assign` (violated) | the second request that evaluationSubmit receives is dropped by the node, whose loop takes StatusOK for the end of work |
| `services_apart` | lists miss and repeat no row; friend requests are not lost and get through; a waiter is told, unless the index lagged behind its answer; payments, avatars and solutions last |
| `fleet_restore` | a restore leaves a listed server its match; a match whose server died is served again or over |
| `listing_cursor` (violated) | the tokens of four list functions do not fit the keys they stand for |

Deadlock checking is off everywhere: matches end, calls are used up. The largest
instances are `server_load` (5.0 million distinct states), `match_safety`
(2.2 million), `match_lifecycle` (0.31 million, with liveness) and `services_apart`
(0.30 million).

**Reads.** Apart from the index `UserIdIndex` of Notification, every read of
DynamoDB is modelled as current, although only two ask for that, of the rows of
UserMatches and ActiveMatches (`userMatch.go:34`, `activeMatch.go:35`). Taken as
current without being consistent are the query of MatchStates over `MatchIndex`
(`matchState.go:16`), the queries of the list functions, the scan of tickets but
for those being put or deleted, the query of ApplicationEndpoints, and the reads of
single rows of Connections, Friendships, PuzzleProfiles (`puzzleProfile.go:29`),
UserRatings and the cached evaluations. A read that lags may return what an
earlier state of the model would have returned; the runs and the theorems say
nothing of that. `FirstResumeIsLatest`, for one, needs the index to have the last
saved state by the time a server that takes over reads it.

**What the properties do not cover.** Some properties hold only with a case
excluded by name, because the code does otherwise in that case; the excluded case
is then an observation of section 13 and not something a run would catch:
overlapping connections of one player (`overlapped` in `Match`), a load during the
loss of protection and a failed call for it (`overlapped`, `refused` in
`GameServer`), a load from a row that is gone and a crash in `RecordedOnce`, failed
and repeated functions in `PlayersStayMarked` and `ImplementsPairing`, a second
restore of one row in `ServerIsKept`, a late confirmation and overlapping solutions
in `PaidIsPro` and `SolvesCount`, a connection missed by the index in
`WaiterIsTold`. `LoopRecordsDecidedGame` is about games that the loop ends: the
outcome that `checkTimeout` overrides, the two readings of `handleEndGame` under the
timer and a flag that falls at a move are not covered. PROJECT.json says so at each
hazard.

**Proved and checked.** Every invariant of a passing run has a theorem for all
values of the constants, and so have the action properties `ForfeitIsReal`,
`FirstResumeIsLatest` and `ServerIsKept`, the refinement `ImplementsPairing` (of
undisturbed behaviours, see section 5) and the safety part of
`ImplementsLifecycle`. The theorems rest on the named `ASSUME`s of the modules,
which say that distinct things are distinct, that bounds are natural numbers and
that a few sets are finite. In `matchmaking_safety` no function fails and no match
is acted on twice, so that TLC checks `ImplementsPairing` without the hypothesis.

**Proved only.** `ImplementsHosting`, which TLC takes too long to evaluate at
each of the thirty million transitions of `server_load`, and the promises of
`Settlement` under the calls of `Matchmaking` (of which `matchmaking_safety`
checks `PlayersStayMarked`).

**Only model-checked.** Liveness (`EverySettles`, `LoopExits`, the fairness half
of `ImplementsLifecycle`, `PlayedFrees`, `QueuedIsAnswered`, `AddGetsThrough`,
`ServedAgain`): TLAPS cannot reason about `ENABLED`.

## 13. Observations without a run

Read off the models, or met while writing them; no run is spent on them.

Match and game server:

* `checkTimeout` runs for decided games, too, and may override their outcome: a
  player who resigns is recorded as the winner if the other one has left by then
  (`match.go:177`, `match.go:383`). When the timer's goroutine is first into
  `end`, the outcome that the loop sees and logs need not be the recorded one.
* Flag fall: `handleMove` rejects a move of a player whose clock is over, but
  only the timer ends the match (`match.go:137`, `match.go:175`).
* An abort after the first ply is answered with INVALID_PLY and aborts all the
  same (`match.go:88`, `errors.go:9`).
* White's arrival replaces the cancel timeout of a match whose black never came
  (`handlers.go:276`, `server.go:324`).
* Overlapping connections of one player: the old handler's disconnect marks the
  player gone while the new one is read (`handlers.go:224`), and its timer ends
  the match, which that player may forfeit (`handlers.go:238`).
* A player who returns within the disconnect timeout does not stop that timer:
  the match is ended with both players there (`handlers.go:248`).
* A handler that panics at the closed channel never marks its player as gone
  (`match.go:379`).
* `IsClosed` may swallow the message of a waiting sender instead of finding the
  channel open or closed; `end` then leaves it open, and the loop and whoever
  sends after that wait for ever (`utils.go:16`). The match is settled and removed
  all the same.
* A join after the row was deleted makes a stub row (UpdateItem).
* A match loaded while an empty server gives its protection up stays
  unprotected until that server is empty again and loads another
  (`server.go:367`); `ServingIsProtected` excludes that overlap by name.
* A call for protection that fails is logged and not repeated, while later loads
  only reset the timer: the task stays unprotected as long as it has matches
  (`server.go:396` to `:411`). A failed call to give protection up leaves an
  empty task protected until it has served again, or ECS ends it.
* Player 2 is created with player 1's new RDs (`server.go:271`).
* After a resume an abort is allowed again and the record lacks the moves made
  before.

Settlement and matchmaking:

* A client that reconnects before the queued abortGame has run loads the match
  again; its players are freed and matched anew, so that a user is in two matches
  (`handlers.go:61`).
* A handler that read the row before the match ended finds no live match after
  it and loads it again, without a row: the match is played and recorded a second
  time (`server.go:207`, `:227`). `RecordedOnce` excludes such matches.
* A match that outlasts its row's age, as one with increments may, is removed as
  expired by the next reconnect while it is played: its players are free for
  another match (`server.go:217`).
* abortGame retried, or removeExpiredMatch after it, takes a later match's mark
  off (`userMatch.go:87`); removeExpiredMatch deletes the row first, so that
  nobody frees the players if it fails after that (`server.go:416`).
* endGame frees the players before it stores ratings, so that the next match may
  be made with the old rating and its result overwrites the earlier one
  (`endGame/main.go:32`, `matchmaking/main.go:279`).
* Two users who scan before either has put its ticket are both queued, and wait
  until one of them, or a third user, calls again (`matchmaking/main.go:237`);
  the caller's own older ticket stays in the queue (`:329`) and keeps its window
  (`:228`); tickets may change between the scan and the mark. The Elo difference
  of 100 in `README.md:17` is not enforced (`matchmakingTickets.go:21`).
* A rating row that is missing reads as a rating of zeros (`userRatings.go`).

Fleet and notification:

* Two restores that have read the same row take the match from each other, and a
  rejoin does not store the server it finds: two servers can serve one match.
* A pending task beside another one makes the comparison of start times panic
  (`fargate.go:121`), for every caller, until it has started.
* StartNewTask writes the count it read plus one: two callers get one task, and a
  stale count may lower the present one (`fargate.go:275`).
* UpdateItem of a match that has ended leaves a row of a server and nothing else.
* A user whose connection has not reached `UserIdIndex` when the matcher looks
  for it, after queuing told it that there is no match yet, is never told, unless
  it asks again (`queuing/main.go:45`, `matchmaking/main.go:356`).

Evaluation:

* A node that gets SIGTERM cannot submit: its context is cancelled, and
  `RawQuery` is set after the request was built (`stofinet/client.go:132`).
* "score mate" of the engine gives an empty evaluation, which is posted and
  cached (`stockfish.go:31`).
* `CheckAndStartNewTask` sets DesiredCount to 1 even if it was 2; a scale-in
  right after its check leaves a queued request without a node.

Friends, accounts, puzzles:

* Two acceptances of one request may leave two conversation ids in the two rows.
* Cognito invokes postUserConfirmation after a forgotten password, too; the
  function does not look at the trigger and puts membership, puzzle rating and
  rating of a new user.
* Two uploads: the first function may delete the second's original, and the
  sizes may be of different pictures.
* Of overlapping puzzle solutions one is lost.
* `dtos/puzzle.go:43` to `:60` parses three columns from the column of the rating.

## 14. Not modelled

* Ratings: Glicko in floating point is sequential arithmetic; which matches a
  rating counts is in `Settlement`.
* Puzzle queries (Athena), reads of one row and metrics: they change no state.
* `internal/app/servertest`, `cmd/lambda/matchmakingtest`: copies of the originals
  for load tests, not deployed for users.
* FEN tools and game-mode parsing: pure functions on strings.
* Authentication, presigned uploads and deployment: services outside the code.
* Parts of components that are modelled: durations (clocks, timeouts, retention),
  chess rules (an external library), two calls of one user at a time in
  `Matchmaking`, the messages to clients, the signature and record of a payment.
