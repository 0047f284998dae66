----------------------------- MODULE Settlement -----------------------------
(***************************************************************************)
(* What happens in the tables when a match is over: the Lambda functions   *)
(* endGame and abortGame, the server's removeExpiredMatch, and the loads   *)
(* and ends of matches they race with.  A function is a fixed program of   *)
(* writes, one DynamoDB call each, that stops at the first error.          *)
(*                                                                         *)
(* Make is what a successful createMatch amounts to; Matchmaking replaces  *)
(* it by that function's own steps.                                        *)
(***************************************************************************)
EXTENDS Naturals, FiniteSets, Sequences

CONSTANTS Users, MatchIds,
          Kinds,         \* the functions at work, of "end", "abort", "expire"
          NoMatch, NoUser,
          MaxLoads,      \* bound: times the row of one match is acted on
          MaxFailures,   \* bound: storage calls that fail
          MaxCrashes,    \* bound: crashes of the game server
          MaxRetries     \* times Lambda retries a failed asynchronous event

ASSUME ConstantsAssumption ==
  /\ Kinds \subseteq {"end", "abort", "expire"}
  /\ NoMatch \notin MatchIds /\ NoUser \notin Users
  /\ MaxLoads \in Nat /\ MaxFailures \in Nat
  /\ MaxCrashes \in Nat /\ MaxRetries \in Nat

VARIABLES
  userMatch,      \* table UserMatches: the match a user is marked with
  active,         \* table ActiveMatches: the ids with a row
  conversations,  \* table SpectatorConversations
  records,        \* table MatchRecords: how often each match was recorded
  results,        \* table MatchResults
  rating,         \* table UserRatings: the matches a user's rating counts
  players,        \* Player1 and Player2 of each match made
  base,           \* the ratings they had when it was made
  phase,          \* the object of each match on the game server
  loads,          \* how often each match was loaded, or removed as expired
  stale,          \* matches that were loaded when they had no row any more
  job,            \* next write of each function working on each match
  tries,          \* retries of each match's abortGame
  failures,       \* storage calls that failed so far
  crashes         \* crashes of the game server so far

tables == <<userMatch, active, conversations, records, results, rating>>
matchVars == <<players, base>>
serverVars == <<phase, loads, stale, crashes>>
jobVars == <<job, tries, failures>>
settlementVars == <<tables, matchVars, serverVars, jobVars>>

Seats == 1 .. 2
AllKinds == {"end", "abort", "expire"}
Phases == {"idle", "live", "ending"}

(* The writes of each function in the order of its code.                   *)
(* Mutants: endGame records first, rates before it records, or drops the   *)
(* row first; abortGame frees one player only.                             *)
EndRecordsFirst == <<"record", "free1", "free2", "row", "rate1", "result1",
                     "rate2", "result2", "conversation">>
EndRatesFirst == <<"free1", "free2", "row", "rate1", "record", "result1",
                   "rate2", "result2", "conversation">>
EndDropsRowFirst == <<"row", "free1", "free2", "record", "rate1", "result1",
                      "rate2", "result2", "conversation">>
EndWrites == <<"free1", "free2", "row", "record", "rate1", "result1",
               "rate2", "result2", "conversation">>

AbortFreesOne == <<"row", "conversation", "free1">>
AbortWrites == <<"row", "conversation", "free1", "free2">>

ExpireWrites == <<"row", "free1", "free2", "conversation">>

Program == [end |-> EndWrites, abort |-> AbortWrites, expire |-> ExpireWrites]

FreeWrites == <<"free1", "free2">>
Stopped == 11    \* where the job of a function that returned an error is

Running(m, k) == job[m][k] \in DOMAIN Program[k]
Made(m) == players[m][1] # NoUser

Init ==
  /\ userMatch = [u \in Users |-> NoMatch]
  /\ active = {} /\ conversations = {} /\ results = {}
  /\ records = [m \in MatchIds |-> 0]
  /\ rating = [u \in Users |-> {}]
  /\ players = [m \in MatchIds |-> [i \in Seats |-> NoUser]]
  /\ base = [m \in MatchIds |-> [i \in Seats |-> {}]]
  /\ phase = [m \in MatchIds |-> "idle"]
  /\ loads = [m \in MatchIds |-> 0] /\ stale = {}
  /\ job = [m \in MatchIds |-> [k \in AllKinds |-> 0]]
  /\ tries = [m \in MatchIds |-> 0]
  /\ failures = 0 /\ crashes = 0

(* A match between two unmarked users, whose ratings it is based on. *)
Make(m, u, v) ==
  /\ players[m][1] = NoUser
  /\ u # v /\ userMatch[u] = NoMatch /\ userMatch[v] = NoMatch
  /\ userMatch' = [userMatch EXCEPT ![u] = m, ![v] = m]
  /\ players' = [players EXCEPT ![m] = <<u, v>>]
  /\ base' = [base EXCEPT ![m] = <<rating[u], rating[v]>>]
  /\ active' = active \cup {m}
  /\ conversations' = conversations \cup {m}
  /\ UNCHANGED <<records, results, rating, serverVars, jobVars>>

(***************************************************************************)
(* The game server.  A handler reads the row of a match before it takes    *)
(* the lock under which it loads the match, and goes on with what it read: *)
(* by then the row may be gone.                                            *)
(***************************************************************************)

Load(m) ==
  /\ Made(m) /\ phase[m] = "idle"
  /\ loads[m] < MaxLoads
  /\ phase' = [phase EXCEPT ![m] = "live"]
  /\ loads' = [loads EXCEPT ![m] = @ + 1]
  /\ stale' = stale \cup ({m} \ active)
  /\ UNCHANGED <<tables, matchVars, jobVars, crashes>>

Start(m, k) == k \in Kinds /\ job' = [job EXCEPT ![m][k] = 1]

(* handleEndGame waits for the function, and only then forgets the match. *)
End(m) ==
  /\ phase[m] = "live" /\ ~Running(m, "end")
  /\ phase' = [phase EXCEPT ![m] = "ending"]
  /\ Start(m, "end")
  /\ UNCHANGED <<tables, matchVars, loads, stale, crashes, tries, failures>>

EndReturns(m) ==
  /\ phase[m] = "ending" /\ ~Running(m, "end")
  /\ phase' = [phase EXCEPT ![m] = "idle"]
  /\ UNCHANGED <<tables, matchVars, loads, stale, crashes, jobVars>>

(* The process dies, as logging.Fatal makes it when Invoke fails; a        *)
(* function that was started goes on.                                      *)
Crash ==
  /\ crashes < MaxCrashes
  /\ crashes' = crashes + 1
  /\ phase' = [m \in MatchIds |-> "idle"]
  /\ UNCHANGED <<tables, matchVars, loads, stale, jobVars>>

(* handleAbortGame queues an event and forgets the match at once.  (One    *)
(* event, and one endGame, per match at a time is a bound of the model.)   *)
Abort(m) ==
  /\ phase[m] = "live"
  /\ ~Running(m, "abort")
  /\ phase' = [phase EXCEPT ![m] = "idle"]
  /\ Start(m, "abort")
  /\ tries' = [tries EXCEPT ![m] = 0]
  /\ UNCHANGED <<tables, matchVars, loads, stale, crashes, failures>>

(* A handler finds the match too old, whether it is live or not. *)
Expire(m) ==
  /\ Made(m) /\ ~Running(m, "expire")
  /\ loads[m] < MaxLoads
  /\ loads' = [loads EXCEPT ![m] = @ + 1]
  /\ Start(m, "expire")
  /\ UNCHANGED <<tables, matchVars, phase, stale, crashes, tries, failures>>

(***************************************************************************)
(* The functions.  DeleteUserMatch names the user only, whatever match the *)
(* mark is for; UpdateUserRating stores the rating computed from base.     *)
(***************************************************************************)

Free(m, i) ==
  /\ userMatch' = [userMatch EXCEPT ![players[m][i]] = NoMatch]
  /\ UNCHANGED <<active, conversations, records, results, rating>>

DropRow(m) ==
  /\ active' = active \ {m}
  /\ UNCHANGED <<userMatch, conversations, records, results, rating>>

DropConversation(m) ==
  /\ conversations' = conversations \ {m}
  /\ UNCHANGED <<userMatch, active, records, results, rating>>

Record(m) ==
  /\ records' = [records EXCEPT ![m] = @ + 1]
  /\ UNCHANGED <<userMatch, active, conversations, results, rating>>

Rate(m, i) ==
  /\ rating' = [rating EXCEPT ![players[m][i]] = base[m][i] \cup {m}]
  /\ UNCHANGED <<userMatch, active, conversations, records, results>>

Result(m, i) ==
  /\ results' = results \cup {<<players[m][i], m>>}
  /\ UNCHANGED <<userMatch, active, conversations, records, rating>>

Write(m, op) ==
  \/ op = "free1" /\ Free(m, 1)
  \/ op = "free2" /\ Free(m, 2)
  \/ op = "row" /\ DropRow(m)
  \/ op = "conversation" /\ DropConversation(m)
  \/ op = "record" /\ Record(m)
  \/ op = "rate1" /\ Rate(m, 1)
  \/ op = "rate2" /\ Rate(m, 2)
  \/ op = "result1" /\ Result(m, 1)
  \/ op = "result2" /\ Result(m, 2)

Step(m, k) ==
  /\ Running(m, k)
  /\ Write(m, Program[k][job[m][k]])
  /\ job' = [job EXCEPT ![m][k] = @ + 1]
  /\ UNCHANGED <<matchVars, serverVars, tries, failures>>

(* Mutant: the event is retried for ever.                                  *)
FailForever(m, k) ==
  /\ Running(m, k)
  /\ failures < MaxFailures
  /\ failures' = failures + 1
  /\ Start(m, k)
  /\ tries' = [tries EXCEPT ![m] = @ + 1]
  /\ UNCHANGED <<tables, matchVars, serverVars>>

(* The function returns an error.  Only the asynchronous event is retried, *)
(* from its start: the client of Invoke sees no error in the other cases.  *)
Fail(m, k) ==
  /\ Running(m, k)
  /\ failures < MaxFailures
  /\ failures' = failures + 1
  /\ IF k = "abort" /\ tries[m] < MaxRetries
     THEN /\ Start(m, k)
          /\ tries' = [tries EXCEPT ![m] = @ + 1]
     ELSE /\ job' = [job EXCEPT ![m][k] = Stopped]
          /\ UNCHANGED tries
  /\ UNCHANGED <<tables, matchVars, serverVars>>

SettlementNext ==
  \/ \E m \in MatchIds :
       \/ Load(m) \/ End(m) \/ EndReturns(m) \/ Abort(m) \/ Expire(m)
       \/ \E k \in Kinds : Step(m, k) \/ Fail(m, k)
  \/ Crash

Next == \/ \E m \in MatchIds, u, v \in Users : Make(m, u, v)
        \/ SettlementNext

(* A live match settles (Match, EverySettles) and a function that was      *)
(* invoked makes progress.                                                 *)
Fairness ==
  \A m \in MatchIds :
    /\ WF_settlementVars(End(m) \/ Abort(m))
    /\ WF_settlementVars(EndReturns(m))
    /\ \A k \in Kinds : WF_settlementVars(Step(m, k))

Spec == Init /\ [][Next]_settlementVars
FairSpec == Spec /\ Fairness

(***************************************************************************)
(* Properties.                                                             *)
(***************************************************************************)

TypeOK ==
  /\ userMatch \in [Users -> MatchIds \cup {NoMatch}]
  /\ active \subseteq MatchIds
  /\ conversations \subseteq MatchIds
  /\ records \in [MatchIds -> Nat]
  /\ results \subseteq Users \X MatchIds
  /\ rating \in [Users -> SUBSET MatchIds]
  /\ players \in [MatchIds -> [Seats -> Users \cup {NoUser}]]
  /\ base \in [MatchIds -> [Seats -> SUBSET MatchIds]]
  /\ phase \in [MatchIds -> Phases]
  /\ loads \in [MatchIds -> 0 .. MaxLoads]
  /\ stale \subseteq MatchIds
  /\ job \in [MatchIds -> [AllKinds -> 0 .. Stopped]]
  /\ tries \in [MatchIds -> 0 .. MaxRetries]
  /\ failures \in 0 .. MaxFailures
  /\ crashes \in 0 .. MaxCrashes

MarkedWith(m) == {u \in Users : userMatch[u] = m}
PlayersOf(m) == {players[m][i] : i \in Seats}

(* No call failed, and no match was loaded a second time, or taken for     *)
(* expired a second time, or both loaded and taken for expired.            *)
Undisturbed == failures = 0 /\ \A m \in MatchIds : loads[m] <= 1

(* The two players of a match that is being played are marked with it,     *)
(* "to kind of mark them as matched" (matchmaking/main.go:262), whatever   *)
(* functions of earlier matches are still running.                         *)
PlayersStayMarked ==
  Undisturbed =>
    \A m \in MatchIds : phase[m] = "live" => MarkedWith(m) = PlayersOf(m)

(* A match that only endGame worked on has freed its players by the time   *)
(* its row is gone, wherever the function fails: a row is what a later     *)
(* load needs to free them.                                                *)
EndNeverLocksOut ==
  \A m \in MatchIds :
    Made(m) /\ m \notin active /\ job[m].abort = 0 /\ job[m].expire = 0
      => MarkedWith(m) = {}

(* What a rating counts and a result list shows has a record to open,      *)
(* wherever endGame stops.                                                 *)
CountedIsRecorded ==
  \A m \in MatchIds, u \in Users :
    m \in rating[u] \/ <<u, m>> \in results => records[m] > 0

(* A match is recorded at most once although a failed endGame lets it be   *)
(* loaded, played and ended again: unless the server crashed, or loaded    *)
(* the match from a row that was gone.                                     *)
RecordedOnce ==
  crashes = 0 => \A m \in MatchIds : m \notin stale => records[m] <= 1

(* A function at work on the match will free player i.                     *)
WillFree(m, i) ==
  \E k \in Kinds : \E n \in DOMAIN Program[k] :
    job[m][k] \in 1 .. n /\ Program[k][n] = FreeWrites[i]

(* No mark is forgotten: a player who is still marked with a match that a  *)
(* handler has dealt with is playing it, or a function at work will free   *)
(* him, as long as no call and no server fails.                            *)
MarkedIsCared ==
  failures + crashes = 0 =>
    \A m \in MatchIds, i \in Seats :
      loads[m] > 0 /\ userMatch[players[m][i]] = m
        => phase[m] = "live" \/ WillFree(m, i)

(* A match that is played frees both its players, unless a call or the     *)
(* server fails.                                                           *)
PlayedFrees ==
  \A m \in MatchIds :
    phase[m] = "live" ~> MarkedWith(m) = {} \/ failures + crashes > 0
=============================================================================
