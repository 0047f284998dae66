---------------------------- MODULE Matchmaking ----------------------------
(***************************************************************************)
(* The matchmaking function, one storage call at a time, run by several    *)
(* users at once against the tables of Settlement and against the          *)
(* functions that settle earlier matches.  There are no transactions: each *)
(* step reads or writes one item (or scans one table).                     *)
(***************************************************************************)
EXTENDS Settlement

CONSTANTS Elo,         \* the rating of each user, as the windows see it
          Requests,    \* what users ask for: [mode, min, max]
          NoTicket,
          MaxCalls,    \* bound: matchmaking requests, all users together
          MaxLost      \* bound: storage calls of theirs that fail

ASSUME RequestsAssumption ==
  /\ Elo \in [Users -> Nat]
  /\ Requests \subseteq [mode : STRING, min : Nat, max : Nat]
  /\ NoTicket \notin Requests /\ MaxCalls \in Nat /\ MaxLost \in Nat

VARIABLES
  ticket,    \* table MatchmakingTickets, keyed by user
  at,        \* where the call of each user is
  request,   \* the ticket it is for
  todo,      \* opponents it has not tried
  opponent,  \* the one it is trying
  own,       \* the caller's rating as it read it
  theirs,    \* the opponent's
  match,     \* the id it uses (or found)
  calls,     \* requests so far
  lost       \* storage calls of theirs that failed

callVars == <<at, request, todo, opponent, own, theirs, match>>
vars == <<settlementVars, ticket, callVars, calls, lost>>

Steps == {"idle", "check", "checkRow", "scan", "queue", "markOpponent",
          "markSelf", "rate", "put", "unqueue", "talk"}

(* The filter of the scan, both ways, and Validate. *)
InWindow(u, r) == r.min <= Elo[u] /\ Elo[u] <= r.max
Compatible(u, r, v, t) ==
  /\ InWindow(v, r) /\ InWindow(u, t)
  /\ r.mode = t.mode

(* Some users have queued before. *)
InitMatchmaking ==
  /\ Init
  /\ ticket \in [Users -> Requests \cup {NoTicket}]
  /\ \A u \in Users : ticket[u] # NoTicket => InWindow(u, ticket[u])
  /\ at = [u \in Users |-> "idle"]
  /\ request = [u \in Users |-> NoTicket]
  /\ todo = [u \in Users |-> {}]
  /\ opponent = [u \in Users |-> NoUser]
  /\ own = [u \in Users |-> {}]
  /\ theirs = [u \in Users |-> {}]
  /\ match = [u \in Users |-> NoMatch]
  /\ calls = 0 /\ lost = 0

Goto(u, step) == at' = [at EXCEPT ![u] = step]

(* The call returns. *)
Answer(u) ==
  /\ Goto(u, "idle")
  /\ request' = [request EXCEPT ![u] = NoTicket]
  /\ todo' = [todo EXCEPT ![u] = {}]
  /\ opponent' = [opponent EXCEPT ![u] = NoUser]
  /\ own' = [own EXCEPT ![u] = {}]
  /\ theirs' = [theirs EXCEPT ![u] = {}]
  /\ match' = [match EXCEPT ![u] = NoMatch]

Request(u, r) ==
  /\ at[u] = "idle" /\ InWindow(u, r)
  /\ calls < MaxCalls
  /\ calls' = calls + 1
  /\ Goto(u, "check")
  /\ request' = [request EXCEPT ![u] = r]
  /\ own' = [own EXCEPT ![u] = rating[u]]
  /\ UNCHANGED <<settlementVars, ticket, todo, opponent, theirs, match, lost>>

(* CheckForActiveMatch: a mark whose match has no row counts as no match. *)
CheckUserMatch(u) ==
  /\ at[u] = "check"
  /\ match' = [match EXCEPT ![u] = userMatch[u]]
  /\ Goto(u, IF userMatch[u] = NoMatch THEN "scan" ELSE "checkRow")
  /\ UNCHANGED <<settlementVars, ticket, request, todo, opponent, own, theirs>>

CheckActiveMatch(u) ==
  /\ at[u] = "checkRow"
  /\ \/ match[u] \in active /\ Answer(u)
     \/ /\ match[u] \notin active
        /\ Goto(u, "scan")
        /\ match' = [match EXCEPT ![u] = NoMatch]
        /\ UNCHANGED <<request, todo, opponent, own, theirs>>
  /\ UNCHANGED <<settlementVars, ticket>>

Found(u) == {v \in Users : /\ ticket[v] # NoTicket
                           /\ Compatible(u, request[u], v, ticket[v])}

(* Mutant: the caller's own ticket is not skipped.                         *)
ScanOwn(u) ==
  /\ at[u] = "scan"
  /\ \/ /\ Found(u) = {}
        /\ Goto(u, "queue")
        /\ UNCHANGED <<request, todo, opponent, own, theirs, match>>
     \/ /\ Found(u) # {}
        /\ todo' = [todo EXCEPT ![u] = Found(u)]
        /\ Goto(u, "markOpponent")
        /\ UNCHANGED <<request, opponent, own, theirs, match>>
  /\ UNCHANGED <<settlementVars, ticket>>

(* The caller's own ticket, left by an earlier call, is found as well: it  *)
(* is skipped as an opponent, but keeps the new one from being put.        *)
Scan(u) ==
  /\ at[u] = "scan"
  /\ \/ /\ Found(u) = {}
        /\ Goto(u, "queue")
        /\ UNCHANGED <<request, todo, opponent, own, theirs, match>>
     \/ Found(u) = {u} /\ Answer(u)
     \/ /\ Found(u) \ {u} # {}
        /\ todo' = [todo EXCEPT ![u] = Found(u) \ {u}]
        /\ Goto(u, "markOpponent")
        /\ UNCHANGED <<request, opponent, own, theirs, match>>
  /\ UNCHANGED <<settlementVars, ticket>>

PutTicket(u) ==
  /\ at[u] = "queue"
  /\ ticket' = [ticket EXCEPT ![u] = request[u]]
  /\ Answer(u)
  /\ UNCHANGED settlementVars

(* An id no step of any call has used. *)
Fresh(m) == /\ ~Made(m)
            /\ \A u \in Users : match[u] # m /\ userMatch[u] # m

(* Mutant: the put has no condition.                                       *)
MarkOpponentAnyway(u, v) ==
  /\ at[u] = "markOpponent" /\ v \in todo[u]
  /\ todo' = [todo EXCEPT ![u] = @ \ {v}]
  /\ \E m \in MatchIds :
       /\ Fresh(m)
       /\ userMatch' = [userMatch EXCEPT ![v] = m]
       /\ match' = [match EXCEPT ![u] = m]
  /\ opponent' = [opponent EXCEPT ![u] = v]
  /\ Goto(u, "markSelf")
  /\ UNCHANGED <<active, conversations, records, results, rating, matchVars,
                 serverVars, jobVars, ticket, request, own, theirs>>

(* PutUserMatch is conditional: it fails on a user who has a mark. *)
MarkOpponent(u, v) ==
  /\ at[u] = "markOpponent" /\ v \in todo[u]
  /\ todo' = [todo EXCEPT ![u] = @ \ {v}]
  /\ \/ /\ userMatch[v] = NoMatch
        /\ \E m \in MatchIds :
             /\ Fresh(m)
             /\ userMatch' = [userMatch EXCEPT ![v] = m]
             /\ match' = [match EXCEPT ![u] = m]
        /\ opponent' = [opponent EXCEPT ![u] = v]
        /\ Goto(u, "markSelf")
     \/ /\ userMatch[v] # NoMatch
        /\ UNCHANGED <<userMatch, match, opponent, at>>
  /\ UNCHANGED <<active, conversations, records, results, rating, matchVars,
                 serverVars, jobVars, ticket, request, own, theirs>>

NoOpponentLeft(u) ==
  /\ at[u] = "markOpponent" /\ todo[u] = {}
  /\ Answer(u)
  /\ UNCHANGED <<settlementVars, ticket>>

(* createMatch returned an error: the next opponent is tried.  What the    *)
(* failed attempt wrote stays.                                             *)
NextOpponent(u) ==
  /\ Goto(u, "markOpponent")
  /\ opponent' = [opponent EXCEPT ![u] = NoUser]
  /\ theirs' = [theirs EXCEPT ![u] = {}]
  /\ match' = [match EXCEPT ![u] = NoMatch]
  /\ UNCHANGED <<request, todo, own>>

(* Mutant: the put has no condition.                                       *)
MarkSelfAnyway(u) ==
  /\ at[u] = "markSelf"
  /\ userMatch' = [userMatch EXCEPT ![u] = match[u]]
  /\ Goto(u, "rate")
  /\ UNCHANGED <<active, conversations, records, results, rating, matchVars,
                 serverVars, jobVars, ticket, request, todo, opponent, own,
                 theirs, match>>

MarkSelf(u) ==
  /\ at[u] = "markSelf"
  /\ \/ /\ userMatch[u] = NoMatch
        /\ userMatch' = [userMatch EXCEPT ![u] = match[u]]
        /\ Goto(u, "rate")
        /\ UNCHANGED <<request, todo, opponent, own, theirs, match>>
     \/ /\ userMatch[u] # NoMatch
        /\ NextOpponent(u)
        /\ UNCHANGED userMatch
  /\ UNCHANGED <<active, conversations, records, results, rating, matchVars,
                 serverVars, jobVars, ticket>>

ReadOpponentRating(u) ==
  /\ at[u] = "rate"
  /\ theirs' = [theirs EXCEPT ![u] = rating[opponent[u]]]
  /\ Goto(u, "put")
  /\ UNCHANGED <<settlementVars, ticket, request, todo, opponent, own, match>>

PutActiveMatch(u) ==
  /\ at[u] = "put"
  /\ active' = active \cup {match[u]}
  /\ players' = [players EXCEPT ![match[u]] = <<u, opponent[u]>>]
  /\ base' = [base EXCEPT ![match[u]] = <<own[u], theirs[u]>>]
  /\ Goto(u, "unqueue")
  /\ UNCHANGED <<userMatch, conversations, records, results, rating,
                 serverVars, jobVars, ticket, request, todo, opponent, own,
                 theirs, match>>

(* Only the opponent's ticket: the caller may have one as well. *)
Unqueue(u) ==
  /\ at[u] = "unqueue"
  /\ ticket' = [ticket EXCEPT ![opponent[u]] = NoTicket]
  /\ Goto(u, "talk")
  /\ UNCHANGED <<settlementVars, request, todo, opponent, own, theirs, match>>

PutConversation(u) ==
  /\ at[u] = "talk"
  /\ conversations' = conversations \cup {match[u]}
  /\ Answer(u)
  /\ UNCHANGED <<userMatch, active, records, results, rating, matchVars,
                 serverVars, jobVars, ticket>>

(* A storage call fails.  Inside createMatch that means the next opponent, *)
(* except for PutActiveMatch, and PutMatchmakingTickets, whose errors are  *)
(* not looked at.  (That no server is found is a failed scan.)             *)
FailCall(u) ==
  /\ lost < MaxLost
  /\ lost' = lost + 1
  /\ \/ at[u] \in {"check", "checkRow", "scan"} /\ Answer(u)
     \/ at[u] = "queue" /\ Answer(u)
     \/ /\ at[u] = "markOpponent"
        /\ \E v \in todo[u] : todo' = [todo EXCEPT ![u] = @ \ {v}]
        /\ UNCHANGED <<at, request, opponent, own, theirs, match>>
     \/ at[u] \in {"markSelf", "rate", "unqueue", "talk"} /\ NextOpponent(u)
     \/ /\ at[u] = "put"
        /\ Goto(u, "unqueue")
        /\ UNCHANGED <<request, todo, opponent, own, theirs, match>>
  /\ UNCHANGED <<settlementVars, ticket>>

(* Mutant: the user is free again.                                         *)
CancelUnmarks(u) ==
  /\ ticket[u] # NoTicket
  /\ ticket' = [ticket EXCEPT ![u] = NoTicket]
  /\ userMatch' = [userMatch EXCEPT ![u] = NoMatch]
  /\ UNCHANGED <<active, conversations, records, results, rating, matchVars,
                 serverVars, jobVars, callVars>>

(* matchmakingCancel. *)
Cancel(u) ==
  /\ ticket[u] # NoTicket
  /\ ticket' = [ticket EXCEPT ![u] = NoTicket]
  /\ UNCHANGED <<settlementVars, callVars>>

CallStep(u) ==
  \/ CheckUserMatch(u) \/ CheckActiveMatch(u) \/ Scan(u) \/ PutTicket(u)
  \/ \E v \in Users : MarkOpponent(u, v)
  \/ NoOpponentLeft(u)
  \/ MarkSelf(u) \/ ReadOpponentRating(u) \/ PutActiveMatch(u)
  \/ Unqueue(u) \/ PutConversation(u)

NextMatchmaking ==
  \/ \E u \in Users, r \in Requests : Request(u, r)
  \/ \E u \in Users : /\ CallStep(u) \/ Cancel(u)
                      /\ UNCHANGED <<calls, lost>>
  \/ \E u \in Users : FailCall(u) /\ UNCHANGED calls
  \/ SettlementNext /\ UNCHANGED <<ticket, callVars, calls, lost>>

SpecMatchmaking == InitMatchmaking /\ [][NextMatchmaking]_vars

(***************************************************************************)
(* Properties.  PlayersStayMarked of Settlement is checked here again.     *)
(***************************************************************************)

(* The type of the state; a call that makes a match has an opponent other  *)
(* than its own user.                                                      *)
TypeOKMatchmaking ==
  /\ TypeOK
  /\ ticket \in [Users -> Requests \cup {NoTicket}]
  /\ at \in [Users -> Steps]
  /\ request \in [Users -> Requests \cup {NoTicket}]
  /\ todo \in [Users -> SUBSET Users]
  /\ opponent \in [Users -> Users \cup {NoUser}]
  /\ own \in [Users -> SUBSET MatchIds]
  /\ theirs \in [Users -> SUBSET MatchIds]
  /\ match \in [Users -> MatchIds \cup {NoMatch}]
  /\ \A u \in Users : at[u] \in {"markSelf", "rate", "put", "unqueue", "talk"}
       => opponent[u] \in Users \ {u} /\ match[u] \in MatchIds
  /\ calls \in 0 .. MaxCalls
  /\ lost \in 0 .. MaxLost

(* Two calls that got both their marks are for four different users,       *)
(* although each pair was marked in two steps.                             *)
CallsAreDisjoint ==
  Undisturbed =>
    \A u, w \in Users :
      u # w /\ at[u] \in {"rate", "put"} /\ at[w] \in {"rate", "put"}
        => {u, opponent[u]} \cap {w, opponent[w]} = {}

(* The game a user is in, once it is made, and how it is with a match: it  *)
(* is over for its players when a function starts to work on it.           *)
GameOf(u) == IF userMatch[u] \in MatchIds /\ Made(userMatch[u])
             THEN userMatch[u] ELSE NoMatch
StateOf(m) == IF ~Made(m) THEN "new"
              ELSE IF \A k \in AllKinds : job[m][k] = 0 THEN "open" ELSE "over"

P == INSTANCE Pairing WITH
  game <- [u \in Users |-> GameOf(u)],
  state <- [m \in MatchIds |-> StateOf(m)]

(* The marks of two users, put one by one and taken off one by one, amount *)
(* to one step that pairs two free users, and to a game they stay in until *)
(* it is over: the function implements Pairing, as long as Undisturbed.    *)
ImplementsPairing == P!Spec

(***************************************************************************)
(* A statement of the code that does not hold.                             *)
(***************************************************************************)

(* "user already in a match" (storage/userMatch.go:17), the error of a     *)
(* user whose mark exists: the match is being played, made or settled.     *)
MarkedIsInMatch ==
  \A u \in Users :
    LET m == userMatch[u] IN
    m = NoMatch \/ m \in active \/ (\E w \in Users : match[w] = m)
      \/ \E k \in Kinds : Running(m, k)

=============================================================================
