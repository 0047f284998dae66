------------------------- MODULE MatchmakingProofs -------------------------
(***************************************************************************)
(* Proofs about Matchmaking for any users, requests and matches, any       *)
(* numbers of calls and of failures.  They use the steps of Settlement's   *)
(* proofs; Make is replaced by the calls' own steps.                       *)
(***************************************************************************)
EXTENDS Matchmaking, SettlementProofs

(* A call with a match id of its own, and one that has not put its row.    *)
Making == {"markSelf", "rate", "put", "unqueue", "talk"}
Unmade == {"markSelf", "rate", "put"}

CallTypes ==
  /\ ticket \in [Users -> Requests \cup {NoTicket}]
  /\ at \in [Users -> Steps]
  /\ request \in [Users -> Requests \cup {NoTicket}]
  /\ todo \in [Users -> SUBSET Users]
  /\ opponent \in [Users -> Users \cup {NoUser}]
  /\ own \in [Users -> SUBSET MatchIds]
  /\ theirs \in [Users -> SUBSET MatchIds]
  /\ match \in [Users -> MatchIds \cup {NoMatch}]
  /\ calls \in 0 .. MaxCalls
  /\ lost \in 0 .. MaxLost

(* No two calls make the same match, and nobody plays himself. *)
CallOf(u) ==
  /\ u \notin todo[u]
  /\ at[u] \in Making => match[u] \in MatchIds /\ opponent[u] \in Users \ {u}
  /\ at[u] \in Unmade => ~Made(match[u])
  /\ \A w \in Users : u # w /\ at[u] \in Making /\ at[w] \in Making => match[u] # match[w]

CallInv == CallTypes /\ \A u \in Users : CallOf(u)

(* Who is marked with a match: the opponent, then both players; and nobody *)
(* else once it is made.                                                   *)
MarkInv ==
  Undisturbed =>
    /\ \A u \in Users :
         /\ at[u] = "markSelf" => MarkedWith(match[u]) = {opponent[u]}
         /\ at[u] \in {"rate", "put"} => MarkedWith(match[u]) = {u, opponent[u]}
    /\ \A m \in MatchIds : Made(m) => MarkedWith(m) \subseteq PlayersOf(m)

MatchmakingInv == TypeInv /\ StayInv /\ CallInv /\ MarkInv

LEMMA MatchmakingInit == InitMatchmaking => MatchmakingInv
<1> SUFFICES ASSUME InitMatchmaking PROVE MatchmakingInv
  OBVIOUS
<1>1. TypeInv
  BY ConstantsAssumption
     DEF InitMatchmaking, Init, TypeInv, TypeOK, MadeInv, Made, Seats, Phases, AllKinds, Stopped
<1>2. \A m \in MatchIds : ~Made(m)
  BY DEF InitMatchmaking, Init, Made, Seats
<1>3. StayInv
  BY <1>2 DEF InitMatchmaking, Init, StayInv, StayOf, AllKinds, Stopped
<1>4. CallTypes
  BY RequestsAssumption DEF InitMatchmaking, Init, CallTypes, Steps
<1>5. \A u \in Users : CallOf(u)
  BY DEF InitMatchmaking, CallOf, Making, Unmade
<1>6. MarkInv
  BY <1>2 DEF InitMatchmaking, MarkInv
<1>7. QED
  BY <1>1, <1>3, <1>4, <1>5, <1>6 DEF MatchmakingInv, CallInv

(***************************************************************************)
(* The calls.                                                              *)
(***************************************************************************)

(* A call that goes on with its match, or leaves it. *)
LEMMA CallGoesOn ==
  ASSUME MatchmakingInv, NEW u \in Users, NEW a \in Steps, NEW p, NEW o,
         at' = [at EXCEPT ![u] = a],
         match' = [match EXCEPT ![u] = p],
         opponent' = [opponent EXCEPT ![u] = o],
         u \notin todo'[u], \A w \in Users \ {u} : todo'[w] = todo[w],
         a \in Making => at[u] \in Making /\ p = match[u] /\ o = opponent[u],
         a = "markSelf" => at[u] = "markSelf",
         a \in {"rate", "put"} => at[u] \in {"rate", "put"},
         CallTypes', TypeInv',
         UNCHANGED <<userMatch, active, players, phase, loads, job, failures>>
  PROVE  MatchmakingInv'
<1> USE DEF MatchmakingInv, CallInv
<1>1. \A m \in MatchIds : MarkedWith(m)' = MarkedWith(m) /\ PlayersOf(m)' = PlayersOf(m)
                          /\ Made(m)' = Made(m)
  BY DEF MarkedWith, PlayersOf, Made
<1>2. Undisturbed' = Undisturbed
  BY DEF Undisturbed
<1>3. StayInv'
  BY <1>2 DEF StayInv, StayOf, Pending, Made
<1>4. /\ at'[u] = a /\ match'[u] = p /\ opponent'[u] = o
      /\ \A w \in Users \ {u} : at'[w] = at[w] /\ match'[w] = match[w] /\ opponent'[w] = opponent[w]
  BY DEF CallTypes
<1>5. ASSUME NEW w \in Users PROVE CallOf(w)'
  <2>1. a \in Unmade => at[u] \in Unmade
    BY DEF Unmade
  <2>2. CASE w = u
    BY <1>1, <1>4, <2>1, <2>2 DEF CallOf, Making, Unmade
  <2>3. CASE w # u
    BY <1>1, <1>4, <2>3 DEF CallOf, Making, Unmade
  <2>4. QED
    BY <2>2, <2>3
<1>6. MarkInv'
  <2> SUFFICES ASSUME Undisturbed
               PROVE  /\ \A w \in Users :
                           /\ at'[w] = "markSelf" => MarkedWith(match[w])' = {opponent'[w]}
                           /\ at'[w] \in {"rate", "put"} => MarkedWith(match[w])' = {w, opponent'[w]}
                      /\ \A m \in MatchIds : Made(m)' => MarkedWith(m)' \subseteq PlayersOf(m)'
    BY <1>2 DEF MarkInv
  <2>1. ASSUME NEW w \in Users, at'[w] \in {"markSelf", "rate", "put"}
        PROVE  /\ at[w] \in {"markSelf", "rate", "put"}
               /\ at'[w] = "markSelf" => at[w] = "markSelf"
               /\ at'[w] \in {"rate", "put"} => at[w] \in {"rate", "put"}
               /\ match'[w] = match[w] /\ opponent'[w] = opponent[w] /\ match[w] \in MatchIds
    BY <1>4, <2>1 DEF Making, CallOf
  <2>2. ASSUME NEW w \in Users, match'[w] = match[w]
        PROVE  MarkedWith(match[w])' = MarkedWith(match[w])
    BY <2>2 DEF MarkedWith
  <2>3. QED
    BY <1>1, <2>1, <2>2 DEF MarkInv
<1>7. QED
  BY <1>3, <1>5, <1>6

LEMMA SettlementSame ==
  ASSUME TypeInv, UNCHANGED settlementVars
  PROVE  /\ TypeInv'
         /\ UNCHANGED <<userMatch, active, players, phase, loads, job, failures, rating>>
BY DEF settlementVars, tables, matchVars, serverVars, jobVars, TypeInv, TypeOK, MadeInv, Made

(* The types of the call of u after a step that is its own. *)
LEMMA CallTyped ==
  ASSUME CallTypes, NEW u \in Users, NEW a \in Steps,
         NEW p \in MatchIds \cup {NoMatch}, NEW o \in Users \cup {NoUser},
         NEW r \in Requests \cup {NoTicket}, NEW T \in SUBSET Users,
         NEW X \in SUBSET MatchIds, NEW Y \in SUBSET MatchIds,
         at' = [at EXCEPT ![u] = a], match' = [match EXCEPT ![u] = p],
         opponent' = [opponent EXCEPT ![u] = o], request' = [request EXCEPT ![u] = r],
         todo' = [todo EXCEPT ![u] = T], own' = [own EXCEPT ![u] = X],
         theirs' = [theirs EXCEPT ![u] = Y],
         ticket' \in [Users -> Requests \cup {NoTicket}],
         calls' \in 0 .. MaxCalls, lost' \in 0 .. MaxLost
  PROVE  CallTypes'
BY DEF CallTypes

(* The call returns. *)
LEMMA Answered ==
  ASSUME MatchmakingInv, NEW u \in Users, Answer(u), TypeInv',
         ticket' \in [Users -> Requests \cup {NoTicket}],
         calls' \in 0 .. MaxCalls, lost' \in 0 .. MaxLost,
         UNCHANGED <<userMatch, active, players, phase, loads, job, failures>>
  PROVE  MatchmakingInv'
<1>1. CallTypes'
  <2>1. CallTypes /\ "idle" \in Steps
    BY DEF MatchmakingInv, CallInv, Steps
  <2>2. QED
    BY <2>1, CallTyped DEF Answer, Goto
<1>2. u \notin todo'[u] /\ \A w \in Users \ {u} : todo'[w] = todo[w]
  BY DEF Answer, MatchmakingInv, CallInv, CallTypes
<1>3. QED
  BY <1>1, <1>2, CallGoesOn DEF Answer, Goto, Steps, Making

(* The steps of createMatch that fail: the next opponent is tried.         *)
LEMMA NextTried ==
  ASSUME MatchmakingInv, NEW u \in Users, NextOpponent(u), UNCHANGED <<settlementVars, ticket>>,
         calls' \in 0 .. MaxCalls, lost' \in 0 .. MaxLost
  PROVE  MatchmakingInv'
<1> USE DEF MatchmakingInv, CallInv
<1>1. CallTypes'
  BY DEF NextOpponent, Goto, CallTypes, Steps
<1>2. u \notin todo'[u] /\ \A w \in Users \ {u} : todo'[w] = todo[w]
  BY DEF NextOpponent, CallOf
<1>3. QED
  BY <1>1, <1>2, CallGoesOn, SettlementSame DEF NextOpponent, Goto, Steps, Making

(* The reads, and the writes of tickets and conversations.                 *)
LEMMA CallReads ==
  ASSUME MatchmakingInv, NEW u \in Users, calls' \in 0 .. MaxCalls, lost' \in 0 .. MaxLost,
         \/ \E r \in Requests : /\ at[u] = "idle"
                                /\ Goto(u, "check")
                                /\ request' = [request EXCEPT ![u] = r]
                                /\ own' = [own EXCEPT ![u] = rating[u]]
                                /\ UNCHANGED <<settlementVars, ticket, todo, opponent, theirs, match>>
         \/ CheckUserMatch(u) \/ CheckActiveMatch(u) \/ Scan(u) \/ PutTicket(u)
         \/ NoOpponentLeft(u) \/ ReadOpponentRating(u) \/ Unqueue(u) \/ PutConversation(u)
  PROVE  MatchmakingInv'
<1> USE DEF MatchmakingInv, CallInv
<1>0. /\ CallTypes /\ TypeInv /\ u \notin todo[u]
      /\ userMatch \in [Users -> MatchIds \cup {NoMatch}] /\ rating \in [Users -> SUBSET MatchIds]
  BY DEF CallOf, TypeInv, TypeOK
<1>1. ASSUME NEW r \in Requests, at[u] = "idle", Goto(u, "check"),
             request' = [request EXCEPT ![u] = r], own' = [own EXCEPT ![u] = rating[u]],
             UNCHANGED <<settlementVars, ticket, todo, opponent, theirs, match>>
      PROVE  MatchmakingInv'
  <2>1. CallTypes'
    BY <1>0, <1>1 DEF CallTypes, Goto, Steps
  <2>2. match' = [match EXCEPT ![u] = match[u]] /\ opponent' = [opponent EXCEPT ![u] = opponent[u]]
    BY <1>0, <1>1 DEF CallTypes
  <2>3. QED
    BY <1>0, <1>1, <2>1, <2>2, CallGoesOn, SettlementSame DEF Goto, Steps, Making
<1>2. CASE CheckUserMatch(u)
  <2> DEFINE a == IF userMatch[u] = NoMatch THEN "scan" ELSE "checkRow"
  <2>1. a \in Steps /\ a \notin Making /\ at' = [at EXCEPT ![u] = a]
    BY <1>2 DEF CheckUserMatch, Goto, Steps, Making
  <2>2. CallTypes'
    BY <1>0, <1>2, <2>1 DEF CallTypes, CheckUserMatch
  <2>3. opponent' = [opponent EXCEPT ![u] = opponent[u]]
    BY <1>0, <1>2 DEF CallTypes, CheckUserMatch
  <2>4. a \notin {"markSelf", "rate", "put"}
    OBVIOUS
  <2>5. QED
    BY <1>0, <1>2, <2>1, <2>2, <2>3, <2>4, CallGoesOn, SettlementSame DEF CheckUserMatch
<1>3. CASE CheckActiveMatch(u)
  <2>1. CASE Answer(u)
    BY <1>0, <1>3, <2>1, Answered, SettlementSame DEF CheckActiveMatch, CallTypes
  <2>2. CASE ~ Answer(u)
    <3>1. /\ Goto(u, "scan") /\ match' = [match EXCEPT ![u] = NoMatch]
          /\ UNCHANGED <<request, todo, opponent, own, theirs, settlementVars, ticket>>
      BY <1>3, <2>2 DEF CheckActiveMatch
    <3>2. CallTypes'
      BY <1>0, <3>1 DEF CallTypes, Goto, Steps
    <3>3. opponent' = [opponent EXCEPT ![u] = opponent[u]]
      BY <1>0, <3>1 DEF CallTypes
    <3>4. QED
      BY <1>0, <3>1, <3>2, <3>3, CallGoesOn, SettlementSame DEF Goto, Steps, Making
  <2>3. QED
    BY <2>1, <2>2
<1>4. CASE Scan(u)
  <2>1. CASE Answer(u)
    BY <1>0, <1>4, <2>1, Answered, SettlementSame DEF Scan, CallTypes
  <2>2. ASSUME NEW T \in SUBSET (Users \ {u}), NEW a \in {"queue", "markOpponent"},
               todo' = [todo EXCEPT ![u] = T], Goto(u, a),
               UNCHANGED <<request, opponent, own, theirs, match>>
        PROVE  MatchmakingInv'
    <3>1. UNCHANGED <<settlementVars, ticket>>
      BY <1>4 DEF Scan
    <3>2. CallTypes'
      BY <1>0, <2>2, <3>1 DEF CallTypes, Goto, Steps
    <3>3. opponent' = [opponent EXCEPT ![u] = opponent[u]] /\ match' = [match EXCEPT ![u] = match[u]]
          /\ u \notin todo'[u] /\ \A w \in Users \ {u} : todo'[w] = todo[w]
      BY <1>0, <2>2 DEF CallTypes
    <3>4. a \in Steps /\ a \notin Making /\ a \notin {"markSelf", "rate", "put"}
          /\ at' = [at EXCEPT ![u] = a]
      BY <2>2 DEF Steps, Making, Goto
    <3>5. QED
      BY <1>0, <3>1, <3>2, <3>3, <3>4, CallGoesOn, SettlementSame
  <2>3. \/ Answer(u)
        \/ \E T \in SUBSET (Users \ {u}), a \in {"queue", "markOpponent"} :
             /\ todo' = [todo EXCEPT ![u] = T] /\ Goto(u, a)
             /\ UNCHANGED <<request, opponent, own, theirs, match>>
    <3>1. CASE /\ Goto(u, "queue")
               /\ UNCHANGED <<request, todo, opponent, own, theirs, match>>
      <4>1. todo' = [todo EXCEPT ![u] = todo[u]] /\ todo[u] \in SUBSET (Users \ {u})
        BY <1>0, <3>1 DEF CallTypes
      <4>2. QED
        BY <3>1, <4>1
    <3>2. CASE /\ todo' = [todo EXCEPT ![u] = Found(u) \ {u}]
               /\ Goto(u, "markOpponent")
               /\ UNCHANGED <<request, opponent, own, theirs, match>>
      <4>1. Found(u) \ {u} \in SUBSET (Users \ {u})
        BY DEF Found
      <4>2. QED
        BY <3>2, <4>1
    <3>3. QED
      BY <1>4, <3>1, <3>2 DEF Scan
  <2>4. QED
    BY <2>1, <2>2, <2>3
<1>5. CASE PutTicket(u)
  <2>1. ticket' \in [Users -> Requests \cup {NoTicket}]
    BY <1>0, <1>5 DEF PutTicket, CallTypes
  <2>2. QED
    BY <1>0, <1>5, <2>1, Answered, SettlementSame DEF PutTicket
<1>6. CASE NoOpponentLeft(u)
  BY <1>0, <1>6, Answered, SettlementSame DEF NoOpponentLeft, CallTypes
<1>7. CASE PutConversation(u)
  <2>1. /\ UNCHANGED <<userMatch, active, records, results, rating, matchVars,
                       serverVars, jobVars, ticket>>
        /\ Answer(u) /\ conversations' = conversations \cup {match[u]} /\ match[u] \in MatchIds
    BY <1>7 DEF PutConversation, CallOf, Making
  <2>2. TypeInv' /\ UNCHANGED <<userMatch, active, players, phase, loads, job, failures>>
    BY <1>0, <2>1 DEF TypeInv, TypeOK, MadeInv, Made, matchVars, serverVars, jobVars
  <2>3. QED
    BY <1>0, <2>1, <2>2, Answered DEF CallTypes
<1>8. CASE ReadOpponentRating(u)
  <2>1. /\ opponent[u] \in Users /\ at[u] = "rate"
        /\ theirs' = [theirs EXCEPT ![u] = rating[opponent[u]]] /\ at' = [at EXCEPT ![u] = "put"]
        /\ UNCHANGED <<settlementVars, ticket, request, todo, opponent, own, match>>
    BY <1>8 DEF ReadOpponentRating, CallOf, Making, Goto
  <2>2. CallTypes'
    BY <1>0, <2>1 DEF CallTypes, Steps
  <2>3. opponent' = [opponent EXCEPT ![u] = opponent[u]] /\ match' = [match EXCEPT ![u] = match[u]]
    BY <1>0, <2>1 DEF CallTypes
  <2>4. QED
    BY <1>0, <2>1, <2>2, <2>3, CallGoesOn, SettlementSame DEF Steps, Making
<1>9. CASE Unqueue(u)
  <2>1. /\ opponent[u] \in Users /\ at[u] = "unqueue"
        /\ ticket' = [ticket EXCEPT ![opponent[u]] = NoTicket] /\ at' = [at EXCEPT ![u] = "talk"]
        /\ UNCHANGED <<settlementVars, request, todo, opponent, own, theirs, match>>
    BY <1>9 DEF Unqueue, CallOf, Making, Goto
  <2>2. CallTypes'
    BY <1>0, <2>1 DEF CallTypes, Steps
  <2>3. opponent' = [opponent EXCEPT ![u] = opponent[u]] /\ match' = [match EXCEPT ![u] = match[u]]
    BY <1>0, <2>1 DEF CallTypes
  <2>4. QED
    BY <1>0, <2>1, <2>2, <2>3, CallGoesOn, SettlementSame DEF Steps, Making
<1>10. QED
  BY <1>1, <1>2, <1>3, <1>4, <1>5, <1>6, <1>7, <1>8, <1>9

(* An unmarked user is marked: nothing that anybody relies on was marked   *)
(* with nothing.                                                           *)
LEMMA MarkPut ==
  ASSUME TypeInv, StayInv, NEW v \in Users, NEW m \in MatchIds,
         userMatch[v] = NoMatch, userMatch' = [userMatch EXCEPT ![v] = m],
         UNCHANGED <<active, conversations, records, results, rating, matchVars,
                     serverVars, jobVars>>
  PROVE  /\ TypeInv' /\ StayInv'
         /\ \A n \in MatchIds : Made(n)' = Made(n) /\ PlayersOf(n)' = PlayersOf(n)
         /\ Undisturbed' = Undisturbed
         /\ MarkedWith(m)' = MarkedWith(m) \cup {v}
         /\ \A n \in MatchIds \ {m} : MarkedWith(n)' = MarkedWith(n)
<1>1. /\ userMatch \in [Users -> MatchIds \cup {NoMatch}] /\ NoMatch \notin MatchIds
      /\ UNCHANGED <<players, base, phase, loads, stale, crashes, job, tries, failures>>
  BY ConstantsAssumption DEF TypeInv, TypeOK, matchVars, serverVars, jobVars
<1>2. TypeInv'
  BY <1>1 DEF TypeInv, TypeOK, MadeInv, Made
<1>3. Undisturbed' = Undisturbed
  BY <1>1 DEF Undisturbed
<1>4. \A n \in MatchIds : Made(n)' = Made(n) /\ PlayersOf(n)' = PlayersOf(n)
  BY <1>1 DEF Made, PlayersOf
<1>5. /\ MarkedWith(m)' = MarkedWith(m) \cup {v}
      /\ \A n \in MatchIds \ {m} : MarkedWith(n)' = MarkedWith(n)
  BY <1>1 DEF MarkedWith
<1>6. ASSUME Undisturbed, NEW n \in MatchIds PROVE StayOf(n)'
  <2>1. StayOf(n)
    BY <1>6 DEF StayInv
  <2>2. ASSUME Made(n), NEW i \in Seats, Pending(n, i)
        PROVE  userMatch'[players[n][i]] = n
    <3>1. userMatch[players[n][i]] = n /\ players[n][i] \in Users
      BY <2>1, <2>2, ConstantsAssumption DEF StayOf, TypeInv, MadeInv, Seats, Made
    <3>2. QED
      BY <1>1, <3>1
  <2>3. QED
    BY <1>1, <1>4, <2>1, <2>2 DEF StayOf, Pending
<1>7. QED
  BY <1>2, <1>3, <1>4, <1>5, <1>6 DEF StayInv

LEMMA OpponentMarked ==
  ASSUME MatchmakingInv, NEW u \in Users, NEW v \in Users, MarkOpponent(u, v),
         calls' \in 0 .. MaxCalls, lost' \in 0 .. MaxLost
  PROVE  MatchmakingInv'
<1> USE DEF MatchmakingInv, CallInv
<1>1. /\ at[u] = "markOpponent" /\ v \in todo[u] /\ v # u
      /\ todo' = [todo EXCEPT ![u] = @ \ {v}]
      /\ UNCHANGED <<ticket, request, own, theirs>>
      /\ UNCHANGED <<active, conversations, records, results, rating, matchVars,
                     serverVars, jobVars>>
  BY DEF MarkOpponent, CallOf
<1>2. CASE userMatch[v] # NoMatch
  <2>1. UNCHANGED <<userMatch, match, opponent, at>>
    BY <1>2 DEF MarkOpponent
  <2>2. CallTypes'
    BY <1>1, <2>1 DEF CallTypes
  <2>3. /\ at' = [at EXCEPT ![u] = at[u]] /\ match' = [match EXCEPT ![u] = match[u]]
        /\ opponent' = [opponent EXCEPT ![u] = opponent[u]]
        /\ u \notin todo'[u] /\ \A w \in Users \ {u} : todo'[w] = todo[w]
    BY <1>1, <2>1 DEF CallTypes, CallOf
  <2>4. UNCHANGED settlementVars
    BY <1>1, <2>1 DEF settlementVars, tables
  <2>5. at[u] \in Steps
    BY DEF CallTypes
  <2>6. QED
    BY <2>2, <2>3, <2>4, <2>5, CallGoesOn, SettlementSame
<1>3. CASE userMatch[v] = NoMatch
  <2>1. PICK m \in MatchIds : /\ Fresh(m)
                              /\ userMatch' = [userMatch EXCEPT ![v] = m]
                              /\ match' = [match EXCEPT ![u] = m]
    BY <1>3 DEF MarkOpponent
  <2>2. opponent' = [opponent EXCEPT ![u] = v] /\ at' = [at EXCEPT ![u] = "markSelf"]
    BY <1>3 DEF MarkOpponent, Goto
  <2>3. /\ TypeInv' /\ StayInv' /\ Undisturbed' = Undisturbed
        /\ \A n \in MatchIds : Made(n)' = Made(n) /\ PlayersOf(n)' = PlayersOf(n)
        /\ MarkedWith(m)' = MarkedWith(m) \cup {v}
        /\ \A n \in MatchIds \ {m} : MarkedWith(n)' = MarkedWith(n)
    BY <1>1, <1>3, <2>1, MarkPut
  <2>4. MarkedWith(m) = {} /\ ~Made(m) /\ \A w \in Users : match[w] # m
    BY <2>1 DEF Fresh, MarkedWith
  <2>5. CallTypes'
    BY <1>1, <2>1, <2>2 DEF CallTypes, Steps
  <2>6. /\ at'[u] = "markSelf" /\ match'[u] = m /\ opponent'[u] = v
        /\ \A w \in Users \ {u} : at'[w] = at[w] /\ match'[w] = match[w] /\ opponent'[w] = opponent[w]
        /\ \A w \in Users : w \notin todo[w] => w \notin todo'[w]
    BY <1>1, <2>1, <2>2 DEF CallTypes
  <2>7. ASSUME NEW w \in Users PROVE CallOf(w)'
    <3>1. CASE w = u
      BY <1>1, <2>3, <2>4, <2>6, <3>1 DEF CallOf, Making, Unmade
    <3>2. CASE w # u
      BY <1>1, <2>3, <2>4, <2>6, <3>2 DEF CallOf, Making, Unmade
    <3>3. QED
      BY <3>1, <3>2
  <2>8. MarkInv'
    <3> SUFFICES ASSUME Undisturbed
                 PROVE  /\ \A w \in Users :
                             /\ at'[w] = "markSelf" => MarkedWith(match[w])' = {opponent'[w]}
                             /\ at'[w] \in {"rate", "put"} => MarkedWith(match[w])' = {w, opponent'[w]}
                        /\ \A n \in MatchIds : Made(n)' => MarkedWith(n)' \subseteq PlayersOf(n)'
      BY <2>3 DEF MarkInv
    <3>1. MarkedWith(match[u])' = {opponent'[u]}
      <4>1. MarkedWith(match[u])' = MarkedWith(m)'
        BY <2>6 DEF MarkedWith
      <4>2. QED
        BY <2>3, <2>4, <2>6, <4>1
    <3>2. ASSUME NEW w \in Users \ {u}, at[w] \in Unmade
          PROVE  MarkedWith(match[w])' = MarkedWith(match[w])
      <4>1. PICK n \in MatchIds : n = match[w]
        BY <3>2 DEF CallOf, Making, Unmade
      <4>2. MarkedWith(match[w])' = MarkedWith(n)'
        BY <2>6, <4>1 DEF MarkedWith
      <4>3. QED
        BY <2>3, <2>4, <4>1, <4>2
    <3>3. \A n \in MatchIds : Made(n)' => MarkedWith(n)' \subseteq PlayersOf(n)'
      BY <2>3, <2>4 DEF MarkInv
    <3>4. QED
      BY <2>6, <3>1, <3>2, <3>3 DEF MarkInv, Unmade
  <2>9. QED
    BY <2>3, <2>5, <2>7, <2>8
<1>4. QED
  BY <1>2, <1>3

LEMMA SelfMarked ==
  ASSUME MatchmakingInv, NEW u \in Users, MarkSelf(u),
         calls' \in 0 .. MaxCalls, lost' \in 0 .. MaxLost
  PROVE  MatchmakingInv'
<1> USE DEF MatchmakingInv, CallInv
<1>1. /\ at[u] = "markSelf" /\ ticket' = ticket
      /\ UNCHANGED <<active, conversations, records, results, rating, matchVars,
                     serverVars, jobVars>>
  BY DEF MarkSelf
<1>2. CASE userMatch[u] # NoMatch
  <2>1. NextOpponent(u) /\ UNCHANGED settlementVars
    BY <1>1, <1>2 DEF MarkSelf, settlementVars, tables
  <2>2. QED
    BY <1>1, <2>1, NextTried
<1>3. CASE userMatch[u] = NoMatch
  <2>1. PICK m \in MatchIds : m = match[u] /\ ~Made(m)
    BY <1>1 DEF CallOf, Making, Unmade
  <2>2. /\ userMatch' = [userMatch EXCEPT ![u] = m] /\ at' = [at EXCEPT ![u] = "rate"]
        /\ UNCHANGED <<request, todo, opponent, own, theirs, match>>
    BY <1>3, <2>1 DEF MarkSelf, Goto
  <2>3. /\ TypeInv' /\ StayInv' /\ Undisturbed' = Undisturbed
        /\ \A n \in MatchIds : Made(n)' = Made(n) /\ PlayersOf(n)' = PlayersOf(n)
        /\ MarkedWith(m)' = MarkedWith(m) \cup {u}
        /\ \A n \in MatchIds \ {m} : MarkedWith(n)' = MarkedWith(n)
    BY <1>1, <1>3, <2>2, MarkPut
  <2>4. CallTypes'
    BY <1>1, <2>2 DEF CallTypes, Steps
  <2>5. at'[u] = "rate" /\ \A w \in Users \ {u} : at'[w] = at[w]
    BY <2>2 DEF CallTypes
  <2>6. ASSUME NEW w \in Users PROVE CallOf(w)'
    <3>1. at'[w] \in Making <=> at[w] \in Making
      BY <1>1, <2>5 DEF Making
    <3>2. at'[w] \in Unmade <=> at[w] \in Unmade
      BY <1>1, <2>5 DEF Unmade
    <3>3. \A x \in Users : at'[x] \in Making <=> at[x] \in Making
      BY <1>1, <2>5 DEF Making
    <3>4. at[w] \in Unmade => match[w] \in MatchIds
      BY DEF CallOf, Making, Unmade
    <3>5. CallOf(w)
      OBVIOUS
    <3>6. at'[w] \in Unmade => ~Made(match[w])'
      BY <2>2, <2>3, <3>2, <3>4, <3>5 DEF CallOf, Made
    <3>7. QED
      BY <2>2, <3>1, <3>3, <3>5, <3>6 DEF CallOf
  <2>7. MarkInv'
    <3> SUFFICES ASSUME Undisturbed
                 PROVE  /\ \A w \in Users :
                             /\ at'[w] = "markSelf" => MarkedWith(match[w])' = {opponent'[w]}
                             /\ at'[w] \in {"rate", "put"} => MarkedWith(match[w])' = {w, opponent'[w]}
                        /\ \A n \in MatchIds : Made(n)' => MarkedWith(n)' \subseteq PlayersOf(n)'
      BY <2>3 DEF MarkInv
    <3>1. MarkedWith(match[u])' = {u, opponent'[u]}
      <4>1. MarkedWith(m) = {opponent[u]}
        BY <1>1, <2>1 DEF MarkInv
      <4>2. MarkedWith(match[u])' = MarkedWith(m)'
        BY <2>1, <2>2 DEF MarkedWith
      <4>3. QED
        BY <2>2, <2>3, <4>1, <4>2
    <3>2. ASSUME NEW w \in Users \ {u}, at[w] \in Unmade
          PROVE  MarkedWith(match[w])' = MarkedWith(match[w])
      <4>1. PICK n \in MatchIds : n = match[w] /\ n # m
        BY <1>1, <2>1, <3>2 DEF CallOf, Making, Unmade
      <4>2. MarkedWith(match[w])' = MarkedWith(n)'
        BY <2>2, <4>1 DEF MarkedWith
      <4>3. QED
        BY <2>3, <4>1, <4>2
    <3>3. \A n \in MatchIds : Made(n)' => MarkedWith(n)' \subseteq PlayersOf(n)'
      BY <2>1, <2>3 DEF MarkInv
    <3>4. QED
      BY <2>2, <2>5, <3>1, <3>2, <3>3 DEF MarkInv, Unmade
  <2>8. QED
    BY <2>3, <2>4, <2>6, <2>7
<1>4. QED
  BY <1>2, <1>3

LEMMA ActivePut ==
  ASSUME MatchmakingInv, NEW u \in Users, PutActiveMatch(u),
         calls' \in 0 .. MaxCalls, lost' \in 0 .. MaxLost
  PROVE  MatchmakingInv'
<1> USE DEF MatchmakingInv, CallInv
<1>1. PICK m \in MatchIds : m = match[u] /\ ~Made(m)
  BY DEF PutActiveMatch, CallOf, Making, Unmade
<1>2. PICK v \in Users : v = opponent[u] /\ v # u
  BY DEF PutActiveMatch, CallOf, Making
<1>3. /\ at[u] = "put" /\ at' = [at EXCEPT ![u] = "unqueue"]
      /\ active' = active \cup {m}
      /\ players' = [players EXCEPT ![m] = <<u, v>>]
      /\ base' = [base EXCEPT ![m] = <<own[u], theirs[u]>>]
      /\ UNCHANGED <<userMatch, conversations, records, results, rating, phase, loads, stale,
                     crashes, job, tries, failures>>
      /\ UNCHANGED <<ticket, request, todo, opponent, own, theirs, match>>
  BY <1>1, <1>2 DEF PutActiveMatch, Goto, serverVars, jobVars
<1>4. /\ players \in [MatchIds -> [Seats -> Users \cup {NoUser}]] /\ NoUser \notin Users
      /\ userMatch \in [Users -> MatchIds \cup {NoMatch}]
  BY ConstantsAssumption DEF TypeInv, TypeOK
<1>5. /\ players'[m][1] = u /\ players'[m][2] = v
      /\ \A n \in MatchIds \ {m} : players'[n] = players[n]
  BY <1>3, <1>4
<1>6. TypeInv'
  <2>1. <<u, v>> \in [Seats -> Users \cup {NoUser}]
        /\ <<own[u], theirs[u]>> \in [Seats -> SUBSET MatchIds]
    BY DEF Seats, CallTypes
  <2>2. /\ players' \in [MatchIds -> [Seats -> Users \cup {NoUser}]]
        /\ base' \in [MatchIds -> [Seats -> SUBSET MatchIds]]
    BY <1>3, <2>1 DEF TypeInv, TypeOK
  <2>3. TypeOK'
    BY <1>3, <2>2 DEF TypeInv, TypeOK
  <2>4. MadeInv'
    BY <1>2, <1>3, <1>4, <1>5 DEF TypeInv, MadeInv, Made
  <2>5. QED
    BY <2>3, <2>4 DEF TypeInv
<1>7. /\ Undisturbed' = Undisturbed
      /\ \A n \in MatchIds : MarkedWith(n)' = MarkedWith(n)
      /\ \A n \in MatchIds \ {m} : Made(n)' = Made(n) /\ PlayersOf(n)' = PlayersOf(n)
      /\ PlayersOf(m)' = {u, v}
  BY <1>3, <1>5 DEF Undisturbed, MarkedWith, Made, PlayersOf, Seats
<1>8. Undisturbed => MarkedWith(m) = {u, v}
  BY <1>1, <1>2, <1>3 DEF MarkInv
<1>9. ASSUME Undisturbed, NEW n \in MatchIds PROVE StayOf(n)'
  <2>1. StayOf(n)
    BY <1>9 DEF StayInv
  <2>2. CASE n # m
    BY <1>3, <1>5, <1>7, <2>1, <2>2 DEF StayOf, Pending
  <2>3. CASE n = m
    <3>1. /\ phase[n] = "idle" /\ loads[n] = 0 /\ \A k \in AllKinds : job[n][k] = 0
      BY <1>1, <2>3, ConstantsAssumption DEF TypeInv, MadeInv, Made
    <3>2. userMatch[u] = m /\ userMatch[v] = m
      BY <1>8, <1>9 DEF MarkedWith
    <3>3. \A i \in Seats : userMatch'[players'[n][i]] = n
      BY <1>3, <1>5, <2>3, <3>2 DEF Seats
    <3>4. QED
      BY <1>3, <3>1, <3>3 DEF StayOf, AllKinds, Stopped
  <2>4. QED
    BY <2>2, <2>3
<1>10. StayInv'
  BY <1>7, <1>9 DEF StayInv
<1>11. CallTypes'
  BY <1>3 DEF CallTypes, Steps
<1>12. at'[u] = "unqueue" /\ \A w \in Users \ {u} : at'[w] = at[w]
  BY <1>3 DEF CallTypes
<1>13. ASSUME NEW w \in Users PROVE CallOf(w)'
  <2>1. CallOf(w) /\ \A x \in Users : at'[x] \in Making => at[x] \in Making
    BY <1>3, <1>12 DEF Making
  <2>2. ASSUME at'[w] \in Unmade PROVE ~Made(match[w])'
    <3>1. w # u /\ at[w] \in Unmade /\ at[w] \in Making
      BY <1>12, <2>2 DEF Making, Unmade
    <3>2. match[w] \in MatchIds \ {m} /\ ~Made(match[w])
      BY <1>1, <1>3, <2>1, <3>1 DEF CallOf, Making
    <3>3. QED
      BY <1>3, <1>5, <3>2 DEF Made
  <2>3. QED
    BY <1>3, <2>1, <2>2 DEF CallOf
<1>14. MarkInv'
  <2> SUFFICES ASSUME Undisturbed
               PROVE  /\ \A w \in Users :
                           /\ at'[w] = "markSelf" => MarkedWith(match[w])' = {opponent'[w]}
                           /\ at'[w] \in {"rate", "put"} => MarkedWith(match[w])' = {w, opponent'[w]}
                      /\ \A n \in MatchIds : Made(n)' => MarkedWith(n)' \subseteq PlayersOf(n)'
    BY <1>7 DEF MarkInv
  <2>1. \A w \in Users : MarkedWith(match[w])' = MarkedWith(match[w])
    BY <1>3 DEF MarkedWith
  <2>2. \A n \in MatchIds : Made(n)' => MarkedWith(n)' \subseteq PlayersOf(n)'
    BY <1>7, <1>8 DEF MarkInv
  <2>3. QED
    BY <1>3, <1>12, <2>1, <2>2 DEF MarkInv
<1>15. QED
  BY <1>6, <1>10, <1>11, <1>13, <1>14

(* A storage call fails; the ticket is withdrawn.                          *)
LEMMA CallFails ==
  ASSUME MatchmakingInv, NEW u \in Users, FailCall(u), calls' \in 0 .. MaxCalls
  PROVE  MatchmakingInv'
<1> USE DEF MatchmakingInv, CallInv
<1>1. /\ UNCHANGED <<settlementVars, ticket>> /\ lost' \in 0 .. MaxLost
  BY RequestsAssumption DEF FailCall, CallTypes
<1>2. CASE Answer(u)
  BY <1>1, <1>2, Answered, SettlementSame DEF CallTypes
<1>3. CASE NextOpponent(u)
  BY <1>1, <1>3, NextTried
<1>4. CASE /\ at[u] = "markOpponent"
           /\ \E v \in todo[u] : todo' = [todo EXCEPT ![u] = @ \ {v}]
           /\ UNCHANGED <<at, request, opponent, own, theirs, match>>
  <2>1. CallTypes'
    BY <1>1, <1>4 DEF CallTypes
  <2>2. /\ at' = [at EXCEPT ![u] = at[u]] /\ match' = [match EXCEPT ![u] = match[u]]
        /\ opponent' = [opponent EXCEPT ![u] = opponent[u]] /\ at[u] \in Steps
        /\ u \notin todo'[u] /\ \A w \in Users \ {u} : todo'[w] = todo[w]
    BY <1>4 DEF CallTypes, CallOf
  <2>3. QED
    BY <1>1, <2>1, <2>2, CallGoesOn, SettlementSame
<1>5. CASE /\ at[u] = "put"
           /\ Goto(u, "unqueue")
           /\ UNCHANGED <<request, todo, opponent, own, theirs, match>>
  <2>1. CallTypes'
    BY <1>1, <1>5 DEF CallTypes, Goto, Steps
  <2>2. /\ match' = [match EXCEPT ![u] = match[u]]
        /\ opponent' = [opponent EXCEPT ![u] = opponent[u]]
        /\ u \notin todo'[u] /\ todo' = todo
    BY <1>5 DEF CallTypes, CallOf
  <2>3. QED
    BY <1>1, <1>5, <2>1, <2>2, CallGoesOn, SettlementSame DEF Goto, Steps, Making
<1>6. QED
  BY <1>2, <1>3, <1>4, <1>5 DEF FailCall

LEMMA Cancelled ==
  ASSUME MatchmakingInv, NEW u \in Users, Cancel(u), UNCHANGED <<calls, lost>>
  PROVE  MatchmakingInv'
<1> USE DEF MatchmakingInv, CallInv
<1>1. CallTypes'
  BY DEF Cancel, CallTypes, callVars
<1>2. /\ UNCHANGED settlementVars /\ at' = [at EXCEPT ![u] = at[u]] /\ at[u] \in Steps
      /\ match' = [match EXCEPT ![u] = match[u]] /\ opponent' = [opponent EXCEPT ![u] = opponent[u]]
      /\ u \notin todo'[u] /\ todo' = todo
  BY DEF Cancel, CallTypes, callVars, CallOf
<1>3. QED
  BY <1>1, <1>2, CallGoesOn, SettlementSame

(***************************************************************************)
(* The functions that settle matches: they take marks of their own match   *)
(* off, and no others.                                                     *)
(***************************************************************************)

LEMMA StepMarks ==
  ASSUME TypeInv, StayInv, Undisturbed, NEW m \in MatchIds, NEW k \in Kinds, Step(m, k)
  PROVE  /\ Made(m) /\ k \in AllKinds /\ job[m][k] \in 1 .. 9
         /\ \/ userMatch' = userMatch
            \/ \E x \in Users : /\ userMatch[x] = m
                              /\ userMatch' = [userMatch EXCEPT ![x] = NoMatch]
<1> USE DEF AllKinds
<1>1. StayOf(m)
  BY DEF StayInv
<1>2. /\ k \in AllKinds /\ job[m][k] \in 1 .. 9
      /\ players[m][1] \in Users /\ players[m][2] \in Users
  BY StepIsWrite
<1>3. ASSUME NEW j \in Seats,
             <<k, job[m][k]>> \in {<<"end", j>>, <<"abort", 2 + j>>, <<"expire", 1 + j>>}
      PROVE  userMatch[players[m][j]] = m
  <2>1. /\ k = "end" => job[m].end = j
        /\ k = "abort" => job[m].abort = 2 + j
        /\ k = "expire" => job[m].expire = 1 + j
    BY <1>3
  <2>2. \A l \in AllKinds : l # k => job[m][l] = 0
    BY <1>1, <1>2 DEF StayOf
  <2>3. k \in {"end", "abort", "expire"}
    BY <1>2
  <2>4. Pending(m, j)
    BY <2>1, <2>2, <2>3 DEF Pending, Seats
  <2>5. QED
    BY <1>1, <1>2, <2>4, ConstantsAssumption DEF StayOf, Made
<1>4. \/ userMatch' = userMatch
      \/ \E j \in Seats :
           /\ userMatch' = [userMatch EXCEPT ![players[m][j]] = NoMatch]
           /\ <<k, job[m][k]>> \in {<<"end", j>>, <<"abort", 2 + j>>, <<"expire", 1 + j>>}
  BY Effects DEF Seats
<1>5. \A j \in Seats : players[m][j] \in Users
  BY <1>2 DEF Seats
<1>6. Made(m)
  BY <1>2, ConstantsAssumption DEF Made
<1>7. QED
  BY <1>2, <1>3, <1>4, <1>5, <1>6

LEMMA SettlementMarks ==
  ASSUME TypeInv, StayInv, SettlementNext, Undisturbed', NEW x \in Users
  PROVE  \/ userMatch'[x] = userMatch[x]
         \/ /\ userMatch[x] \in MatchIds /\ Made(userMatch[x])
            /\ userMatch'[x] = NoMatch
<1>1. Undisturbed
  BY UndisturbedBefore
<1>2. userMatch \in [Users -> MatchIds \cup {NoMatch}]
  BY DEF TypeInv, TypeOK
<1>3. CASE ~ \E m \in MatchIds, k \in Kinds : Step(m, k)
  BY <1>3, OtherSteps DEF tables
<1>4. CASE \E m \in MatchIds, k \in Kinds : Step(m, k)
  BY <1>1, <1>2, <1>4, StepMarks
<1>5. QED
  BY <1>3, <1>4

LEMMA SettlementKeeps ==
  ASSUME MatchmakingInv, SettlementNext, UNCHANGED <<ticket, callVars, calls, lost>>
  PROVE  MatchmakingInv'
<1> USE DEF MatchmakingInv, CallInv
<1>1. TypeInv' /\ StayInv'
  BY TypeStep, StayStep
<1>2. CallTypes' /\ UNCHANGED <<at, match, opponent, todo>>
  BY DEF CallTypes, callVars
<1>3. players' = players
  BY DEF SettlementNext, Load, End, EndReturns, Abort, Expire, Step, Fail, Crash, matchVars
<1>4. \A m : Made(m)' = Made(m) /\ PlayersOf(m)' = PlayersOf(m)
  BY <1>3 DEF Made, PlayersOf
<1>5. \A u \in Users : CallOf(u)'
  BY <1>2, <1>3 DEF CallOf, Made
<1>6. MarkInv'
  <2> SUFFICES ASSUME Undisturbed'
               PROVE  /\ \A w \in Users :
                           /\ at[w] = "markSelf" => MarkedWith(match[w])' = {opponent[w]}
                           /\ at[w] \in {"rate", "put"} => MarkedWith(match[w])' = {w, opponent[w]}
                      /\ \A n \in MatchIds : Made(n) => MarkedWith(n)' \subseteq PlayersOf(n)
    BY <1>2, <1>4 DEF MarkInv
  <2>1. Undisturbed /\ NoMatch \notin MatchIds
    BY UndisturbedBefore, ConstantsAssumption
  <2>2. ASSUME NEW m \in MatchIds
        PROVE  /\ MarkedWith(m)' \subseteq MarkedWith(m)
               /\ ~Made(m) => MarkedWith(m)' = MarkedWith(m)
    BY <2>1, SettlementMarks DEF MarkedWith
  <2>3. ASSUME NEW w \in Users, at[w] \in Unmade
        PROVE  MarkedWith(match[w])' = MarkedWith(match[w])
    <3>1. PICK m \in MatchIds : m = match[w] /\ ~Made(m)
      BY <2>3 DEF CallOf, Making, Unmade
    <3>2. MarkedWith(match[w])' = MarkedWith(m)'
      BY <1>2, <3>1 DEF MarkedWith
    <3>3. QED
      BY <2>2, <3>1, <3>2
  <2>4. QED
    BY <2>1, <2>2, <2>3 DEF MarkInv, Unmade
<1>7. QED
  BY <1>1, <1>2, <1>5, <1>6

LEMMA MatchmakingKeeps == MatchmakingInv /\ [NextMatchmaking]_vars => MatchmakingInv'
<1> SUFFICES ASSUME MatchmakingInv, [NextMatchmaking]_vars PROVE MatchmakingInv'
  OBVIOUS
<1>1. calls \in 0 .. MaxCalls /\ lost \in 0 .. MaxLost
  BY DEF MatchmakingInv, CallInv, CallTypes
<1>2. ASSUME NEW u \in Users, NEW r \in Requests, Request(u, r) PROVE MatchmakingInv'
  <2>1. calls' \in 0 .. MaxCalls /\ lost' = lost
    BY <1>1, <1>2, RequestsAssumption DEF Request
  <2>2. QED
    BY <1>1, <1>2, <2>1, CallReads DEF Request
<1>3. ASSUME NEW u \in Users, CallStep(u), UNCHANGED <<calls, lost>> PROVE MatchmakingInv'
  <2>1. calls' \in 0 .. MaxCalls /\ lost' \in 0 .. MaxLost
    BY <1>1, <1>3
  <2>2. ASSUME NEW v \in Users, MarkOpponent(u, v) PROVE MatchmakingInv'
    BY <2>1, <2>2, OpponentMarked
  <2>3. CASE MarkSelf(u)
    BY <2>1, <2>3, SelfMarked
  <2>4. CASE PutActiveMatch(u)
    BY <2>1, <2>4, ActivePut
  <2>5. CASE \/ CheckUserMatch(u) \/ CheckActiveMatch(u) \/ Scan(u) \/ PutTicket(u)
             \/ NoOpponentLeft(u) \/ ReadOpponentRating(u) \/ Unqueue(u) \/ PutConversation(u)
    BY <2>1, <2>5, CallReads
  <2>6. QED
    BY <1>3, <2>2, <2>3, <2>4, <2>5 DEF CallStep
<1>4. ASSUME NEW u \in Users, Cancel(u), UNCHANGED <<calls, lost>> PROVE MatchmakingInv'
  BY <1>4, Cancelled
<1>5. ASSUME NEW u \in Users, FailCall(u), UNCHANGED calls PROVE MatchmakingInv'
  BY <1>1, <1>5, CallFails
<1>6. CASE SettlementNext /\ UNCHANGED <<ticket, callVars, calls, lost>>
  BY <1>6, SettlementKeeps
<1>7. CASE UNCHANGED vars
  <2>1. UNCHANGED <<settlementVars, ticket, callVars, calls, lost>>
    BY <1>7 DEF vars
  <2>2. /\ TypeInv' /\ CallTypes'
        /\ UNCHANGED <<userMatch, active, players, phase, loads, job, failures>>
        /\ UNCHANGED <<at, match, opponent, todo>>
    BY <2>1, SettlementSame DEF MatchmakingInv, CallInv, CallTypes, callVars
  <2>3. StayInv'
    BY <2>2 DEF MatchmakingInv, StayInv, StayOf, Undisturbed, Pending, Made
  <2>4. \A u \in Users : CallOf(u)'
    BY <2>2 DEF MatchmakingInv, CallInv, CallOf, Made
  <2>5. MarkInv'
    BY <2>2 DEF MatchmakingInv, MarkInv, Undisturbed, MarkedWith, Made, PlayersOf
  <2>6. QED
    BY <2>2, <2>3, <2>4, <2>5 DEF MatchmakingInv, CallInv
<1>8. QED
  BY <1>2, <1>3, <1>4, <1>5, <1>6, <1>7 DEF NextMatchmaking

(***************************************************************************)
(* Theorems.                                                               *)
(***************************************************************************)

(* Every state of the calls and of the tables has its type.                *)
THEOREM MatchmakingTypeCorrect == SpecMatchmaking => []TypeOKMatchmaking
<1>1. MatchmakingInv => TypeOKMatchmaking
  BY DEF MatchmakingInv, CallInv, CallOf, CallTypes, Making, TypeInv, TypeOKMatchmaking
<1>2. QED
  BY MatchmakingInit, MatchmakingKeeps, <1>1, PTL DEF SpecMatchmaking

(* Two calls that have both their marks are for four users                 *)
(* (CallsAreDisjoint), for any users, calls and lost storage calls.        *)
THEOREM CallsStayApart == SpecMatchmaking => []CallsAreDisjoint
<1>1. ASSUME MatchmakingInv PROVE CallsAreDisjoint
  <2> SUFFICES ASSUME Undisturbed, NEW u \in Users, NEW w \in Users, u # w,
                      at[u] \in {"rate", "put"}, at[w] \in {"rate", "put"}
               PROVE  {u, opponent[u]} \cap {w, opponent[w]} = {}
    BY DEF CallsAreDisjoint
  <2>1. match[u] # match[w]
    BY <1>1 DEF MatchmakingInv, CallInv, CallOf, Making
  <2>2. MarkedWith(match[u]) = {u, opponent[u]} /\ MarkedWith(match[w]) = {w, opponent[w]}
    BY <1>1 DEF MatchmakingInv, MarkInv
  <2>3. QED
    BY <2>1, <2>2 DEF MarkedWith
<1>2. MatchmakingInv => CallsAreDisjoint
  BY <1>1
<1>3. QED
  BY MatchmakingInit, MatchmakingKeeps, <1>2, PTL DEF SpecMatchmaking

(* The players of a live match are marked with it and nobody else is, when *)
(* matches are made by the function's own steps (PlayersStayMarked).       *)
THEOREM MatchedStayMarked == SpecMatchmaking => []PlayersStayMarked
<1>1. ASSUME MatchmakingInv PROVE PlayersStayMarked
  <2> SUFFICES ASSUME Undisturbed, NEW m \in MatchIds, phase[m] = "live"
               PROVE  MarkedWith(m) = PlayersOf(m)
    BY DEF PlayersStayMarked
  <2>1. Made(m) /\ players[m][1] \in Users /\ players[m][2] \in Users
    BY <1>1, ConstantsAssumption DEF MatchmakingInv, TypeInv, MadeInv, Made
  <2>2. job[m].end = 0 /\ job[m].abort = 0 /\ job[m].expire = 0
    BY <1>1 DEF MatchmakingInv, StayInv, StayOf, AllKinds
  <2>3. \A i \in Seats : userMatch[players[m][i]] = m
    BY <1>1, <2>1, <2>2 DEF MatchmakingInv, StayInv, StayOf, Pending, Seats
  <2>4. MarkedWith(m) \subseteq PlayersOf(m)
    BY <1>1, <2>1 DEF MatchmakingInv, MarkInv
  <2>5. PlayersOf(m) \subseteq MarkedWith(m)
    BY <2>1, <2>3 DEF PlayersOf, MarkedWith, Seats
  <2>6. QED
    BY <2>4, <2>5
<1>2. MatchmakingInv => PlayersStayMarked
  BY <1>1
<1>3. QED
  BY MatchmakingInit, MatchmakingKeeps, <1>2, PTL DEF SpecMatchmaking

(***************************************************************************)
(* Matchmaking and the functions that settle matches implement Pairing.    *)
(***************************************************************************)

(* What Pairing sees depends on the marks, the players and the jobs.       *)
LEMMA PairingSame ==
  ASSUME userMatch' = userMatch \/ \A u \in Users : GameOf(u)' = GameOf(u),
         players' = players, job' = job
  PROVE  UNCHANGED P!pairing
<1>1. \A m : Made(m)' = Made(m)
  BY DEF Made
<1>2. \A u \in Users : GameOf(u)' = GameOf(u)
  BY <1>1 DEF GameOf
<1>3. \A m \in MatchIds : StateOf(m)' = StateOf(m)
  BY <1>1 DEF StateOf
<1>4. QED
  BY <1>2, <1>3 DEF P!pairing

(* A mark with a match that is not made is not seen.                       *)
LEMMA MarkingHidden ==
  ASSUME TypeInv, NEW v \in Users, NEW m \in MatchIds, ~Made(m),
         userMatch[v] = NoMatch, userMatch' = [userMatch EXCEPT ![v] = m],
         players' = players, job' = job
  PROVE  UNCHANGED P!pairing
<1>1. userMatch \in [Users -> MatchIds \cup {NoMatch}] /\ NoMatch \notin MatchIds
  BY ConstantsAssumption DEF TypeInv, TypeOK
<1>2. \A n : Made(n)' = Made(n)
  BY DEF Made
<1>3. \A u \in Users \ {v} : GameOf(u)' = GameOf(u)
  BY <1>1, <1>2 DEF GameOf
<1>4. GameOf(v) = NoMatch /\ GameOf(v)' = NoMatch
  BY <1>1, <1>2 DEF GameOf
<1>5. QED
  BY <1>3, <1>4, PairingSame

(* The steps of a call: only PutActiveMatch is seen, and it pairs the two  *)
(* users whose marks the call has put.                                     *)
LEMMA CallsPair ==
  ASSUME MatchmakingInv, Undisturbed, NEW u \in Users, CallStep(u)
  PROVE  P!Next \/ UNCHANGED P!pairing
<1> USE DEF MatchmakingInv, CallInv
<1>1. ASSUME NEW v \in Users, MarkOpponent(u, v) PROVE UNCHANGED P!pairing
  <2>1. players' = players /\ job' = job
    BY <1>1 DEF MarkOpponent, matchVars, jobVars
  <2>2. \/ userMatch' = userMatch
        \/ /\ userMatch[v] = NoMatch
           /\ \E m \in MatchIds : Fresh(m) /\ userMatch' = [userMatch EXCEPT ![v] = m]
    BY <1>1 DEF MarkOpponent
  <2>3. QED
    BY <2>1, <2>2, PairingSame, MarkingHidden DEF Fresh
<1>2. CASE MarkSelf(u)
  <2>1. players' = players /\ job' = job
    BY <1>2 DEF MarkSelf, matchVars, jobVars
  <2>2. match[u] \in MatchIds /\ ~Made(match[u])
    BY <1>2 DEF MarkSelf, CallOf, Making, Unmade
  <2>3. \/ userMatch' = userMatch
        \/ userMatch[u] = NoMatch /\ userMatch' = [userMatch EXCEPT ![u] = match[u]]
    BY <1>2 DEF MarkSelf
  <2>4. QED
    BY <2>1, <2>2, <2>3, PairingSame, MarkingHidden
<1>3. CASE PutActiveMatch(u)
  <2>1. PICK m \in MatchIds : m = match[u] /\ ~Made(m)
    BY <1>3 DEF PutActiveMatch, CallOf, Making, Unmade
  <2>2. PICK v \in Users : v = opponent[u] /\ v # u
    BY <1>3 DEF PutActiveMatch, CallOf, Making
  <2>3. /\ userMatch' = userMatch /\ job' = job
        /\ players' = [players EXCEPT ![m] = <<u, v>>]
    BY <1>3, <2>1, <2>2 DEF PutActiveMatch, jobVars
  <2>4. {w \in Users : userMatch[w] = m} = {u, v}
    BY <1>3, <2>1, <2>2 DEF PutActiveMatch, MarkInv, MarkedWith
  <2>5. /\ players \in [MatchIds -> [Seats -> Users \cup {NoUser}]]
        /\ NoUser \notin Users /\ NoMatch \notin MatchIds
    BY ConstantsAssumption DEF TypeInv, TypeOK
  <2>6. Made(m)' /\ \A n \in MatchIds \ {m} : Made(n)' = Made(n)
    BY <2>3, <2>5 DEF Made
  <2>7. /\ GameOf(u) = NoMatch /\ GameOf(v) = NoMatch
        /\ GameOf(u)' = m /\ GameOf(v)' = m
        /\ \A w \in Users \ {u, v} : GameOf(w)' = GameOf(w)
    BY <2>1, <2>3, <2>4, <2>6 DEF GameOf
  <2>8. /\ StateOf(m) = "new" /\ StateOf(m)' = "open"
        /\ \A n \in MatchIds \ {m} : StateOf(n)' = StateOf(n)
    <3>1. \A k \in AllKinds : job[m][k] = 0
      BY <2>1, ConstantsAssumption DEF TypeInv, MadeInv, Made
    <3>2. QED
      BY <2>1, <2>3, <2>6, <3>1 DEF StateOf
  <2>9. P!Pair(m, u, v)
    BY <2>2, <2>7, <2>8 DEF P!Pair
  <2>10. QED
    BY <2>9 DEF P!Next
<1>4. CASE \/ CheckUserMatch(u) \/ CheckActiveMatch(u) \/ Scan(u) \/ PutTicket(u)
           \/ NoOpponentLeft(u) \/ ReadOpponentRating(u) \/ Unqueue(u) \/ PutConversation(u)
  <2>1. userMatch' = userMatch /\ players' = players /\ job' = job
    BY <1>4 DEF CheckUserMatch, CheckActiveMatch, Scan, PutTicket, NoOpponentLeft,
                ReadOpponentRating, Unqueue, PutConversation, settlementVars, tables,
                matchVars, jobVars
  <2>2. QED
    BY <2>1, PairingSame
<1>5. QED
  BY <1>1, <1>2, <1>3, <1>4 DEF CallStep

(* A function that starts to work on a match finishes it, one that frees a *)
(* player releases him.                                                    *)
LEMMA SettlementFinishes ==
  ASSUME MatchmakingInv, SettlementNext, Undisturbed, Undisturbed'
  PROVE  P!Next \/ UNCHANGED P!pairing
<1> USE DEF MatchmakingInv
<1>1. /\ job \in [MatchIds -> [AllKinds -> 0 .. Stopped]]
      /\ userMatch \in [Users -> MatchIds \cup {NoMatch}] /\ NoMatch \notin MatchIds
  BY ConstantsAssumption DEF TypeInv, TypeOK
<1>2. /\ players' = players /\ \A m : Made(m)' = Made(m)
  <2>1. players' = players
    BY DEF SettlementNext, Load, End, EndReturns, Abort, Expire, Step, Fail,
           Crash, matchVars
  <2>2. QED
    BY <2>1 DEF Made
<1>3. ASSUME NEW m \in MatchIds, NEW k \in Kinds, Step(m, k)
      PROVE  P!Next \/ UNCHANGED P!pairing
  <2>1. /\ k \in AllKinds /\ job[m][k] \in 1 .. 9 /\ job'[m][k] = job[m][k] + 1
        /\ \A n \in MatchIds, l \in AllKinds :
             n # m \/ l # k => job'[n][l] = job[n][l]
    BY <1>3, StepIsWrite
  <2>2. Made(m)
    BY <1>3, StepMarks
  <2>3. StateOf(m) = "over" /\ StateOf(m)' = "over"
    BY <1>2, <2>1, <2>2 DEF StateOf
  <2>4. \A n \in MatchIds : StateOf(n)' = StateOf(n)
    BY <1>2, <2>1, <2>3 DEF StateOf
  <2>5. CASE userMatch' = userMatch
    <3>1. \A w \in Users : GameOf(w)' = GameOf(w)
      BY <1>2, <2>5 DEF GameOf
    <3>2. QED
      BY <2>4, <3>1 DEF P!pairing
  <2>6. ASSUME NEW x \in Users, userMatch[x] = m,
               userMatch' = [userMatch EXCEPT ![x] = NoMatch]
        PROVE  P!Release(x)
    <3>1. GameOf(x) = m /\ GameOf(x)' = NoMatch
      BY <1>1, <1>2, <2>2, <2>6 DEF GameOf
    <3>2. \A w \in Users \ {x} : GameOf(w)' = GameOf(w)
      BY <1>1, <1>2, <2>6 DEF GameOf
    <3>3. m # NoMatch
      BY <1>1
    <3>4. [w \in Users |-> GameOf(w)]' = [[w \in Users |-> GameOf(w)] EXCEPT ![x] = NoMatch]
      BY <3>1, <3>2
    <3>5. UNCHANGED [n \in MatchIds |-> StateOf(n)]
      BY <2>4
    <3>6. [w \in Users |-> GameOf(w)][x] = m /\ [n \in MatchIds |-> StateOf(n)][m] = "over"
      BY <2>3, <3>1
    <3>7. QED
      BY <3>3, <3>4, <3>5, <3>6 DEF P!Release
  <2>7. QED
    BY <1>3, <2>5, <2>6, StepMarks DEF P!Next
<1>4. ASSUME NEW m \in MatchIds, End(m) \/ Abort(m) \/ Expire(m)
      PROVE  P!Next \/ UNCHANGED P!pairing
  <2>1. userMatch' = userMatch /\ \E k \in Kinds : job' = [job EXCEPT ![m][k] = 1]
    BY <1>4 DEF End, Abort, Expire, Start, tables
  <2>2. PICK k \in Kinds : job' = [job EXCEPT ![m][k] = 1]
    BY <2>1
  <2>3. k \in AllKinds
    BY ConstantsAssumption DEF AllKinds
  <2>4. job'[m][k] = 1 /\ \A n \in MatchIds \ {m} : job'[n] = job[n]
    BY <1>1, <2>2, <2>3
  <2>5. \A w \in Users : GameOf(w)' = GameOf(w)
    BY <1>2, <2>1 DEF GameOf
  <2>6. \A n \in MatchIds \ {m} : StateOf(n)' = StateOf(n)
    BY <1>2, <2>4 DEF StateOf
  <2>7. Made(m)
    BY <1>4, ConstantsAssumption DEF End, Abort, Expire, TypeInv, MadeInv, Made
  <2>8. StateOf(m) \in {"open", "over"} /\ StateOf(m)' = "over"
    BY <1>2, <2>3, <2>4, <2>7 DEF StateOf
  <2>9. CASE StateOf(m) = "open"
    <3>1. P!Finish(m)
      BY <2>5, <2>6, <2>8, <2>9 DEF P!Finish
    <3>2. QED
      BY <3>1 DEF P!Next
  <2>10. CASE StateOf(m) = "over"
    BY <2>5, <2>6, <2>8, <2>10 DEF P!pairing
  <2>11. QED
    BY <2>8, <2>9, <2>10
<1>5. ASSUME NEW m \in MatchIds, Load(m) \/ EndReturns(m) PROVE UNCHANGED P!pairing
  <2>1. userMatch' = userMatch /\ job' = job
    BY <1>5 DEF Load, EndReturns, tables, jobVars
  <2>2. QED
    BY <1>2, <2>1, PairingSame
<1>6. ASSUME Crash PROVE UNCHANGED P!pairing
  <2>1. userMatch' = userMatch /\ job' = job
    BY <1>6 DEF Crash, tables, jobVars
  <2>2. QED
    BY <1>2, <2>1, PairingSame
<1>7. ASSUME NEW m \in MatchIds, NEW k \in Kinds, Fail(m, k) PROVE FALSE
  BY <1>7, ConstantsAssumption DEF Fail, Undisturbed, TypeInv, TypeOK
<1>8. QED
  BY <1>3, <1>4, <1>5, <1>6, <1>7 DEF SettlementNext

LEMMA PairingStep ==
  MatchmakingInv /\ Undisturbed /\ Undisturbed' /\ [NextMatchmaking]_vars
    => [P!Next]_(P!pairing)
<1> SUFFICES ASSUME MatchmakingInv, Undisturbed, Undisturbed', [NextMatchmaking]_vars
             PROVE  P!Next \/ UNCHANGED P!pairing
  OBVIOUS
<1>1. CASE UNCHANGED settlementVars
  <2>1. userMatch' = userMatch /\ players' = players /\ job' = job
    BY <1>1 DEF settlementVars, tables, matchVars, jobVars
  <2>2. QED
    BY <2>1, PairingSame
<1>2. ASSUME NEW u \in Users, CallStep(u) PROVE P!Next \/ UNCHANGED P!pairing
  BY <1>2, CallsPair
<1>3. CASE SettlementNext
  BY <1>3, SettlementFinishes
<1>4. QED
  BY <1>1, <1>2, <1>3 DEF NextMatchmaking, Request, Cancel, FailCall, vars

(* Although a pair is marked in two steps, by callers that do not know of  *)
(* each other, and freed in two steps while new matches are made, users    *)
(* see pairs made at once, of users without a game, that last until the    *)
(* game is over: as long as no call of a settling function fails and no    *)
(* match is acted on twice (ImplementsPairing).                            *)
THEOREM MatchmakingImplementsPairing ==
  SpecMatchmaking /\ []Undisturbed => ImplementsPairing
<1>1. InitMatchmaking => P!Init
  <2> SUFFICES ASSUME InitMatchmaking PROVE P!Init
    OBVIOUS
  <2>1. \A u \in Users : GameOf(u) = NoMatch
    BY ConstantsAssumption DEF InitMatchmaking, Init, GameOf
  <2>2. \A m \in MatchIds : StateOf(m) = "new"
    BY DEF InitMatchmaking, Init, StateOf, Made, Seats
  <2>3. QED
    BY <2>1, <2>2 DEF P!Init
<1>2. QED
  BY <1>1, MatchmakingInit, MatchmakingKeeps, PairingStep, PTL
     DEF SpecMatchmaking, ImplementsPairing, P!Spec

(* Nobody is in a game that is not made yet. *)
NewIsEmpty == \A m \in MatchIds : StateOf(m) = "new" => \A u \in Users : GameOf(u) # m

LEMMA TwoPlayStep ==
  P!TwoPlay /\ NewIsEmpty /\ [P!Next]_(P!pairing) => P!TwoPlay' /\ NewIsEmpty'
<1> DEFINE game == [u \in Users |-> GameOf(u)]
           state == [m \in MatchIds |-> StateOf(m)]
           In(m) == {w \in Users : game[w] = m}
           Two == \A m \in MatchIds : state[m] = "open" =>
                    \E u, v \in Users : u # v /\ In(m) = {u, v}
           Empty == \A m \in MatchIds : state[m] = "new" => In(m) = {}
<1>1. (P!TwoPlay <=> Two) /\ (NewIsEmpty <=> Empty)
  BY DEF P!TwoPlay, NewIsEmpty
<1>2. (P!TwoPlay' <=> Two') /\ (NewIsEmpty' <=> Empty')
  BY DEF P!TwoPlay, NewIsEmpty
<1>3. DOMAIN game = Users /\ DOMAIN state = MatchIds /\ game' = [u \in Users |-> game'[u]]
  OBVIOUS
<1>4. ASSUME Two, Empty, NEW m \in MatchIds, NEW u \in Users, NEW v \in Users, P!Pair(m, u, v)
      PROVE  Two' /\ Empty'
  <2>1. /\ state[m] = "new" /\ u # v /\ game[u] = NoMatch /\ game[v] = NoMatch
        /\ game' = [game EXCEPT ![u] = m, ![v] = m]
        /\ state' = [state EXCEPT ![m] = "open"]
    BY <1>4 DEF P!Pair
  <2> HIDE DEF game, state
  <2>2. In(m)' = {u, v} /\ state'[m] = "open"
    BY <1>3, <1>4, <2>1
  <2>3. \A n \in MatchIds \ {m} : In(n)' = In(n) /\ state'[n] = state[n]
    BY <1>3, <2>1, ConstantsAssumption
  <2>4. ASSUME NEW n \in MatchIds, state'[n] = "open"
        PROVE  \E x, y \in Users : x # y /\ In(n)' = {x, y}
    <3>1. CASE n = m
      BY <2>1, <2>2, <3>1
    <3>2. CASE n # m
      <4>1. PICK x \in Users, y \in Users : x # y /\ In(n) = {x, y}
        BY <1>4, <2>3, <2>4, <3>2
      <4>2. In(n)' = {x, y}
        BY <2>3, <3>2, <4>1
      <4>3. QED
        BY <4>1, <4>2
    <3>3. QED
      BY <3>1, <3>2
  <2>5. ASSUME NEW n \in MatchIds, state'[n] = "new" PROVE In(n)' = {}
    BY <1>4, <2>2, <2>3, <2>5
  <2>6. QED
    BY <2>4, <2>5
<1>5. ASSUME Two, Empty, NEW m \in MatchIds, P!Finish(m) PROVE Two' /\ Empty'
  <2>1. game' = game /\ state' = [state EXCEPT ![m] = "over"]
    BY <1>5 DEF P!Finish
  <2> HIDE DEF game, state
  <2>2. QED
    BY <1>3, <1>5, <2>1
<1>6. ASSUME Two, Empty, NEW u \in Users, P!Release(u) PROVE Two' /\ Empty'
  <2>1. /\ game[u] # NoMatch /\ state[game[u]] = "over"
        /\ game' = [game EXCEPT ![u] = NoMatch] /\ state' = state
    BY <1>6 DEF P!Release
  <2> HIDE DEF game, state
  <2>2. \A n \in MatchIds : state[n] # "over" => In(n)' = In(n)
    BY <1>3, <2>1, ConstantsAssumption
  <2>3. QED
    BY <1>6, <2>1, <2>2
<1>7. ASSUME Two, Empty, UNCHANGED P!pairing PROVE Two' /\ Empty'
  <2>1. game' = game /\ state' = state
    BY <1>7 DEF P!pairing
  <2> HIDE DEF game, state
  <2>2. QED
    BY <1>7, <2>1
<1>8. QED
  BY <1>1, <1>2, <1>4, <1>5, <1>6, <1>7 DEF P!Next

(* What Pairing gives the users: an open game has its two players.         *)
THEOREM OpenGamesAreForTwo == SpecMatchmaking /\ []Undisturbed => []P!TwoPlay
<1>1. P!Init => P!TwoPlay /\ NewIsEmpty
  <2> SUFFICES ASSUME P!Init PROVE P!TwoPlay /\ NewIsEmpty
    OBVIOUS
  <2>1. /\ \A u \in Users : GameOf(u) = NoMatch
        /\ \A m \in MatchIds : StateOf(m) = "new"
    BY DEF P!Init
  <2>2. QED
    BY <2>1, ConstantsAssumption DEF P!TwoPlay, NewIsEmpty
<1>2. QED
  BY <1>1, MatchmakingImplementsPairing, TwoPlayStep, PTL DEF ImplementsPairing, P!Spec

(***************************************************************************)
(* The functions that settle matches, among the calls that make them: what *)
(* Settlement proves with matches made in one step.                        *)
(***************************************************************************)

SettledInv == LockInv /\ OnceInv /\ RecordInv /\ CareInv

(* While a call makes a match only its two players can be marked with it,  *)
(* and the ratings a call holds count recorded matches.                    *)
ReadOf(u) ==
  /\ at[u] \in Unmade => MarkedWith(match[u]) \subseteq {u, opponent[u]}
  /\ \A n \in own[u] \cup theirs[u] : records[n] > 0

ReadInv == \A u \in Users : ReadOf(u)

LEMMA SettledSame ==
  ASSUME SettledInv,
         UNCHANGED <<userMatch, active, records, results, rating, players, base,
                     phase, loads, stale, crashes, job, failures>>
  PROVE  SettledInv'
<1>1. \A m : Made(m)' = Made(m) /\ MarkedWith(m)' = MarkedWith(m)
  BY DEF Made, MarkedWith
<1>2. LockInv'
  BY <1>1 DEF SettledInv, LockInv, LockOf, Undropped
<1>3. OnceInv'
  BY <1>1 DEF SettledInv, OnceInv, OnceOf
<1>4. RecordInv'
  BY DEF SettledInv, RecordInv
<1>5. CareInv'
  BY DEF SettledInv, CareInv, CareOf, WillFree
<1>6. QED
  BY <1>2, <1>3, <1>4, <1>5 DEF SettledInv

(* A mark with a match that is not made is none of theirs. *)
LEMMA SettledMark ==
  ASSUME TypeInv, SettledInv, NEW v \in Users, NEW m \in MatchIds, ~Made(m),
         userMatch' = [userMatch EXCEPT ![v] = m],
         UNCHANGED <<active, records, results, rating, players, base,
                     phase, loads, stale, crashes, job, failures>>
  PROVE  SettledInv'
<1>1. userMatch \in [Users -> MatchIds \cup {NoMatch}]
  BY DEF TypeInv, TypeOK
<1>2. \A n : Made(n)' = Made(n)
  BY DEF Made
<1>3. ASSUME NEW n \in MatchIds, Made(n)
      PROVE  /\ players[n][1] \in Users /\ players[n][2] \in Users
             /\ \A w \in Users : userMatch'[w] = n => userMatch[w] = n
  BY <1>1, <1>3 DEF TypeInv, MadeInv
<1>4. LockInv'
  <2> SUFFICES ASSUME NEW n \in MatchIds, Made(n) PROVE LockOf(n)'
    BY <1>2 DEF LockInv
  <2>1. LockOf(n)
    BY DEF SettledInv, LockInv
  <2>2. QED
    BY <1>3, <2>1 DEF LockOf, Undropped, MarkedWith
<1>5. OnceInv'
  BY <1>2 DEF SettledInv, OnceInv, OnceOf
<1>6. RecordInv'
  BY DEF SettledInv, RecordInv
<1>7. CareInv'
  <2> SUFFICES ASSUME failures + crashes = 0, NEW n \in MatchIds, NEW i \in Seats,
                      loads[n] > 0, userMatch'[players[n][i]] = n
               PROVE  phase[n] = "live" \/ WillFree(n, i)
    BY DEF CareInv, CareOf, WillFree
  <2>1. Made(n)
    BY ConstantsAssumption DEF TypeInv, MadeInv, Made
  <2>2. userMatch[players[n][i]] = n
    BY <1>3, <2>1 DEF Seats
  <2>3. QED
    BY <2>2 DEF SettledInv, CareInv, CareOf
<1>8. QED
  BY <1>4, <1>5, <1>6, <1>7 DEF SettledInv

(* The match is made: of players who may have lost their marks by now, and *)
(* with ratings that may be old, but not of matches without a record.      *)
LEMMA SettledPut ==
  ASSUME MatchmakingInv, SettledInv, ReadInv, NEW u \in Users, PutActiveMatch(u)
  PROVE  SettledInv'
<1> USE DEF AllKinds
<1>1. PICK m \in MatchIds : m = match[u] /\ ~Made(m)
  BY DEF PutActiveMatch, MatchmakingInv, CallInv, CallOf, Making, Unmade
<1>2. PICK v \in Users : v = opponent[u] /\ v # u
  BY DEF PutActiveMatch, MatchmakingInv, CallInv, CallOf, Making
<1>3. /\ active' = active \cup {m}
      /\ players' = [players EXCEPT ![m] = <<u, v>>]
      /\ base' = [base EXCEPT ![m] = <<own[u], theirs[u]>>]
      /\ UNCHANGED <<userMatch, records, results, rating, phase, loads, stale,
                     crashes, job, failures>>
  BY <1>1, <1>2 DEF PutActiveMatch, serverVars, jobVars
<1>4. /\ players \in [MatchIds -> [Seats -> Users \cup {NoUser}]] /\ NoUser \notin Users
      /\ base \in [MatchIds -> [Seats -> SUBSET MatchIds]]
      /\ userMatch \in [Users -> MatchIds \cup {NoMatch}]
      /\ TypeInv
  BY ConstantsAssumption DEF MatchmakingInv, TypeInv, TypeOK
<1>5. /\ players'[m][1] = u /\ players'[m][2] = v /\ Made(m)'
      /\ \A n \in MatchIds \ {m} : players'[n] = players[n] /\ Made(n)' = Made(n)
  BY <1>3, <1>4 DEF Made
<1>6. MarkedWith(m) \subseteq {u, v}
  BY <1>1, <1>2 DEF ReadInv, ReadOf, PutActiveMatch, Unmade
<1>7. phase[m] = "idle" /\ loads[m] = 0 /\ \A k \in AllKinds : job[m][k] = 0
  BY <1>1, <1>4, ConstantsAssumption DEF TypeInv, MadeInv, Made
<1>8. LockInv'
  <2>1. LockOf(m)'
    BY <1>3, <1>5, <1>6, <1>7 DEF LockOf, MarkedWith, Undropped
  <2>2. ASSUME NEW n \in MatchIds, n # m, Made(n) PROVE LockOf(n)'
    BY <1>3, <1>5, <2>2 DEF SettledInv, LockInv, LockOf, MarkedWith, Undropped
  <2>3. QED
    BY <1>5, <2>1, <2>2 DEF LockInv
<1>9. OnceInv'
  <2> SUFFICES ASSUME crashes = 0, NEW n \in MatchIds PROVE OnceOf(n)'
    BY <1>3 DEF OnceInv
  <2>1. OnceOf(n)
    BY DEF SettledInv, OnceInv
  <2>2. CASE n = m
    <3>1. records[m] = 0
      BY <1>1, <2>1, <2>2 DEF OnceOf
    <3>2. QED
      BY <1>3, <1>5, <1>7, <2>2, <3>1 DEF OnceOf
  <2>3. CASE n # m
    BY <1>3, <1>5, <2>1, <2>3 DEF OnceOf
  <2>4. QED
    BY <2>2, <2>3
<1>10. RecordInv'
  <2>1. ASSUME NEW n \in MatchIds, NEW l \in MatchIds, NEW i \in Seats, n \in base'[l][i]
        PROVE  records[n] > 0
    <3>1. n \in base[l][i] \/ n \in own[u] \cup theirs[u]
      BY <1>3, <1>4, <2>1 DEF Seats
    <3>2. QED
      BY <3>1 DEF SettledInv, RecordInv, ReadInv, ReadOf
  <2>2. QED
    BY <1>3, <2>1 DEF SettledInv, RecordInv
<1>11. CareInv'
  <2> SUFFICES ASSUME failures + crashes = 0, NEW n \in MatchIds, NEW i \in Seats,
                      loads[n] > 0, userMatch[players'[n][i]] = n
               PROVE  phase[n] = "live" \/ WillFree(n, i)
    BY <1>3 DEF CareInv, CareOf, WillFree
  <2>1. n # m
    BY <1>7
  <2>2. players'[n] = players[n]
    BY <1>5, <2>1
  <2>3. QED
    BY <2>2 DEF SettledInv, CareInv, CareOf
<1>12. QED
  BY <1>8, <1>9, <1>10, <1>11 DEF SettledInv

LEMMA CallSettles ==
  ASSUME MatchmakingInv, SettledInv, ReadInv, NEW u \in Users, CallStep(u)
  PROVE  SettledInv'
<1> USE DEF MatchmakingInv, CallInv
<1>1. ASSUME NEW v \in Users, MarkOpponent(u, v) PROVE SettledInv'
  <2>1. UNCHANGED <<active, records, results, rating, players, base,
                    phase, loads, stale, crashes, job, failures>>
    BY <1>1 DEF MarkOpponent, matchVars, serverVars, jobVars
  <2>2. \/ userMatch' = userMatch
        \/ \E m \in MatchIds : Fresh(m) /\ userMatch' = [userMatch EXCEPT ![v] = m]
    BY <1>1 DEF MarkOpponent
  <2>3. QED
    BY <2>1, <2>2, SettledSame, SettledMark DEF Fresh
<1>2. CASE MarkSelf(u)
  <2>1. UNCHANGED <<active, records, results, rating, players, base,
                    phase, loads, stale, crashes, job, failures>>
    BY <1>2 DEF MarkSelf, matchVars, serverVars, jobVars
  <2>2. match[u] \in MatchIds /\ ~Made(match[u])
    BY <1>2 DEF MarkSelf, CallOf, Making, Unmade
  <2>3. userMatch' = userMatch \/ userMatch' = [userMatch EXCEPT ![u] = match[u]]
    BY <1>2 DEF MarkSelf
  <2>4. QED
    BY <2>1, <2>2, <2>3, SettledSame, SettledMark
<1>3. CASE \/ CheckUserMatch(u) \/ CheckActiveMatch(u) \/ Scan(u) \/ PutTicket(u)
           \/ NoOpponentLeft(u) \/ ReadOpponentRating(u) \/ Unqueue(u) \/ PutConversation(u)
  <2>1. UNCHANGED <<userMatch, active, records, results, rating, players, base,
                    phase, loads, stale, crashes, job, failures>>
    BY <1>3 DEF CheckUserMatch, CheckActiveMatch, Scan, PutTicket, NoOpponentLeft,
                ReadOpponentRating, Unqueue, PutConversation, settlementVars, tables,
                matchVars, serverVars, jobVars
  <2>2. QED
    BY <2>1, SettledSame
<1>4. QED
  BY <1>1, <1>2, <1>3, SettledPut DEF CallStep

(* What a step of the call of u leaves of the other calls. *)
OthersRest(u) ==
  \A w \in Users \ {u} : /\ at'[w] = at[w] /\ match'[w] = match[w]
                         /\ opponent'[w] = opponent[w]
                         /\ own'[w] = own[w] /\ theirs'[w] = theirs[w]

LEMMA OneMoves ==
  ASSUME CallTypes, NEW u \in Users,
         CallStep(u) \/ (\E r \in Requests : Request(u, r)) \/ FailCall(u) \/ Cancel(u)
  PROVE  OthersRest(u)
<1> USE DEF CallTypes, OthersRest, Goto
<1>1. ASSUME NEW r \in Requests, Request(u, r) PROVE OthersRest(u)
  BY <1>1 DEF Request
<1>2. CASE Answer(u)
  BY <1>2 DEF Answer
<1>3. CASE NextOpponent(u)
  BY <1>3 DEF NextOpponent
<1>4. CASE CheckUserMatch(u) \/ CheckActiveMatch(u) \/ Scan(u) \/ PutTicket(u)
  BY <1>2, <1>4 DEF CheckUserMatch, CheckActiveMatch, Scan, PutTicket
<1>5. ASSUME NEW v \in Users, MarkOpponent(u, v) PROVE OthersRest(u)
  BY <1>5 DEF MarkOpponent
<1>6. CASE MarkSelf(u) \/ NoOpponentLeft(u)
  BY <1>2, <1>3, <1>6 DEF MarkSelf, NoOpponentLeft
<1>7. CASE ReadOpponentRating(u) \/ PutActiveMatch(u) \/ Unqueue(u) \/ PutConversation(u)
  BY <1>2, <1>7 DEF ReadOpponentRating, PutActiveMatch, Unqueue, PutConversation
<1>8. CASE FailCall(u)
  BY <1>2, <1>3, <1>8 DEF FailCall
<1>9. CASE Cancel(u)
  BY <1>9 DEF Cancel, callVars
<1>10. QED
  BY <1>1, <1>4, <1>5, <1>6, <1>7, <1>8, <1>9 DEF CallStep

(* The own step of a call that marks nobody: it keeps the match it makes   *)
(* or leaves it, and the ratings it holds are read or forgotten.           *)
OwnStep(u) ==
  /\ at'[u] \in Unmade
       => at[u] \in Unmade /\ match'[u] = match[u] /\ opponent'[u] = opponent[u]
  /\ own'[u] \cup theirs'[u] \subseteq
       own[u] \cup theirs[u] \cup UNION {rating[w] : w \in Users}

LEMMA OwnMoves ==
  ASSUME MatchmakingInv, NEW u \in Users,
         \/ CheckUserMatch(u) \/ CheckActiveMatch(u) \/ Scan(u) \/ PutTicket(u)
         \/ NoOpponentLeft(u) \/ ReadOpponentRating(u) \/ PutActiveMatch(u)
         \/ Unqueue(u) \/ PutConversation(u)
         \/ (\E r \in Requests : Request(u, r)) \/ FailCall(u) \/ Cancel(u)
         \/ MarkSelf(u) /\ NextOpponent(u)
  PROVE  OwnStep(u)
<1> USE DEF OwnStep, Goto, Unmade
<1>0. CallTypes /\ (at[u] \in Making => opponent[u] \in Users)
  BY DEF MatchmakingInv, CallInv, CallOf
<1>1. ASSUME NEW r \in Requests, Request(u, r) PROVE OwnStep(u)
  <2>1. at'[u] = "check" /\ own'[u] = rating[u] /\ theirs'[u] = theirs[u]
    BY <1>0, <1>1 DEF Request, CallTypes
  <2>2. QED
    BY <2>1
<1>2. CASE Answer(u)
  <2>1. at'[u] = "idle" /\ own'[u] = {} /\ theirs'[u] = {}
    BY <1>0, <1>2 DEF Answer, CallTypes
  <2>2. QED
    BY <2>1
<1>3. CASE NextOpponent(u)
  <2>1. at'[u] = "markOpponent" /\ own'[u] = own[u] /\ theirs'[u] = {}
    BY <1>0, <1>3 DEF NextOpponent, CallTypes
  <2>2. QED
    BY <2>1
<1>4. CASE CheckUserMatch(u) \/ CheckActiveMatch(u) \/ Scan(u) \/ PutTicket(u)
           \/ NoOpponentLeft(u) \/ PutConversation(u)
  <2>1. CASE ~ Answer(u)
    <3>1. at'[u] \in {"checkRow", "scan", "queue", "markOpponent"}
          /\ UNCHANGED <<own, theirs>>
      BY <1>0, <1>4, <2>1 DEF CheckUserMatch, CheckActiveMatch, Scan, PutTicket,
                              NoOpponentLeft, PutConversation, CallTypes
    <3>2. QED
      BY <3>1
  <2>2. QED
    BY <1>2, <2>1
<1>5. CASE ReadOpponentRating(u)
  <2>1. /\ at[u] = "rate" /\ opponent[u] \in Users /\ match' = match /\ opponent' = opponent
        /\ own' = own /\ theirs'[u] = rating[opponent[u]]
    BY <1>0, <1>5 DEF ReadOpponentRating, CallTypes, Making
  <2>2. QED
    BY <2>1
<1>6. CASE PutActiveMatch(u) \/ Unqueue(u)
  <2>1. at'[u] \in {"unqueue", "talk"} /\ UNCHANGED <<own, theirs>>
    BY <1>0, <1>6 DEF PutActiveMatch, Unqueue, CallTypes
  <2>2. QED
    BY <2>1
<1>7. CASE FailCall(u)
  <2>1. CASE ~ Answer(u) /\ ~ NextOpponent(u)
    <3>1. at'[u] \in {"markOpponent", "unqueue"} /\ UNCHANGED <<own, theirs>>
      BY <1>0, <1>7, <2>1 DEF FailCall, CallTypes
    <3>2. QED
      BY <3>1
  <2>2. QED
    BY <1>2, <1>3, <2>1
<1>8. CASE Cancel(u)
  BY <1>8 DEF Cancel, callVars
<1>9. QED
  BY <1>1, <1>3, <1>4, <1>5, <1>6, <1>7, <1>8

(* A call that holds other ratings holds recorded matches still. *)
LEMMA HeldIsRecorded ==
  ASSUME MatchmakingInv, SettledInv, ReadInv, NEW u \in Users,
         own'[u] \cup theirs'[u] \subseteq
           own[u] \cup theirs[u] \cup UNION {rating[w] : w \in Users},
         NEW n \in own'[u] \cup theirs'[u]
  PROVE  records[n] > 0
<1>1. n \in own[u] \cup theirs[u] \/ \E w \in Users : n \in rating[w]
  OBVIOUS
<1>2. \A w \in Users : rating[w] \subseteq MatchIds
  BY DEF MatchmakingInv, TypeInv, TypeOK
<1>3. QED
  BY <1>1, <1>2 DEF SettledInv, RecordInv, ReadInv, ReadOf

(* A step of a call that marks nobody, and one that marks a user.          *)
LEMMA ReadRests ==
  ASSUME MatchmakingInv, SettledInv, ReadInv, NEW u \in Users,
         OthersRest(u), OwnStep(u), UNCHANGED <<userMatch, records>>
  PROVE  ReadInv'
<1>1. ASSUME NEW w \in Users, match'[w] = match[w]
      PROVE  MarkedWith(match[w])' = MarkedWith(match[w])
  BY <1>1 DEF MarkedWith
<1>2. ASSUME NEW w \in Users \ {u} PROVE ReadOf(w)'
  BY <1>1, <1>2 DEF ReadInv, ReadOf, OthersRest
<1>3. ReadOf(u)'
  <2>1. \A n \in own'[u] \cup theirs'[u] : records[n] > 0
    BY HeldIsRecorded DEF OwnStep
  <2>2. at'[u] \in Unmade => MarkedWith(match[u])' \subseteq {u, opponent'[u]}
    BY <1>1 DEF ReadInv, ReadOf, OwnStep
  <2>3. QED
    BY <2>1, <2>2 DEF ReadOf
<1>4. QED
  BY <1>2, <1>3 DEF ReadInv

LEMMA ReadMarks ==
  ASSUME MatchmakingInv, SettledInv, ReadInv, NEW u \in Users, NEW v \in Users,
         OthersRest(u), NEW m \in MatchIds, match'[u] = m,
         \A w \in Users \ {u} : at[w] \in Unmade => match[w] # m,
         userMatch' = [userMatch EXCEPT ![v] = m],
         MarkedWith(m) \cup {v} \subseteq {u, opponent'[u]},
         UNCHANGED <<records, own, theirs>>
  PROVE  ReadInv'
<1>1. userMatch \in [Users -> MatchIds \cup {NoMatch}]
  BY DEF MatchmakingInv, TypeInv, TypeOK
<1>2. MarkedWith(match[u])' \subseteq MarkedWith(m) \cup {v}
  BY <1>1 DEF MarkedWith
<1>3. ASSUME NEW w \in Users \ {u}, at[w] \in Unmade
      PROVE  MarkedWith(match[w])' \subseteq MarkedWith(match[w])
  <2>1. match'[w] = match[w] /\ match[w] # m
    BY <1>3 DEF OthersRest
  <2>2. QED
    BY <1>1, <2>1 DEF MarkedWith
<1>4. QED
  BY <1>2, <1>3 DEF ReadInv, ReadOf, OthersRest

LEMMA CallReadKept ==
  ASSUME MatchmakingInv, SettledInv, ReadInv, NEW u \in Users,
         CallStep(u) \/ (\E r \in Requests : Request(u, r)) \/ FailCall(u) \/ Cancel(u)
  PROVE  ReadInv'
<1> USE DEF MatchmakingInv, CallInv
<1>1. OthersRest(u)
  BY OneMoves
<1>2. ASSUME NEW v \in Users, MarkOpponent(u, v), userMatch[v] = NoMatch PROVE ReadInv'
  <2>1. PICK m \in MatchIds : /\ Fresh(m)
                              /\ userMatch' = [userMatch EXCEPT ![v] = m]
                              /\ match' = [match EXCEPT ![u] = m]
    BY <1>2 DEF MarkOpponent
  <2>2. /\ match'[u] = m /\ opponent'[u] = v /\ MarkedWith(m) = {}
        /\ \A w \in Users : match[w] # m
        /\ UNCHANGED <<records, own, theirs>>
    BY <1>2, <2>1 DEF MarkOpponent, CallTypes, Fresh, MarkedWith
  <2>3. QED
    BY <1>1, <2>1, <2>2, ReadMarks
<1>3. ASSUME NEW v \in Users, MarkOpponent(u, v), userMatch[v] # NoMatch PROVE ReadInv'
  <2>1. UNCHANGED <<userMatch, records, at, match, opponent, own, theirs>>
    BY <1>3 DEF MarkOpponent
  <2>2. OwnStep(u)
    BY <2>1 DEF OwnStep
  <2>3. QED
    BY <1>1, <2>1, <2>2, ReadRests
<1>4. CASE MarkSelf(u) /\ userMatch[u] = NoMatch
  <2>1. PICK m \in MatchIds : m = match[u]
    BY <1>4 DEF MarkSelf, CallOf, Making
  <2>2. /\ userMatch' = [userMatch EXCEPT ![u] = m]
        /\ UNCHANGED <<records, own, theirs, match, opponent>>
    BY <1>4, <2>1 DEF MarkSelf
  <2>3. \A w \in Users \ {u} : at[w] \in Unmade => match[w] # m
    BY <1>4, <2>1 DEF MarkSelf, CallOf, Making, Unmade
  <2>4. MarkedWith(m) \subseteq {u, opponent[u]}
    BY <1>4, <2>1 DEF MarkSelf, ReadInv, ReadOf, Unmade
  <2>5. QED
    BY <1>1, <2>1, <2>2, <2>3, <2>4, ReadMarks
<1>5. CASE MarkSelf(u) /\ userMatch[u] # NoMatch
  <2>1. NextOpponent(u) /\ UNCHANGED <<userMatch, records>>
    BY <1>5 DEF MarkSelf
  <2>2. QED
    BY <1>1, <1>5, <2>1, OwnMoves, ReadRests
<1>6. CASE \/ CheckUserMatch(u) \/ CheckActiveMatch(u) \/ Scan(u) \/ PutTicket(u)
           \/ NoOpponentLeft(u) \/ ReadOpponentRating(u) \/ PutActiveMatch(u)
           \/ Unqueue(u) \/ PutConversation(u)
           \/ (\E r \in Requests : Request(u, r)) \/ FailCall(u) \/ Cancel(u)
  <2>1. UNCHANGED <<userMatch, records>>
    BY <1>6 DEF CheckUserMatch, CheckActiveMatch, Scan, PutTicket, NoOpponentLeft,
                ReadOpponentRating, PutActiveMatch, Unqueue, PutConversation, Request,
                FailCall, Cancel, settlementVars, tables
  <2>2. QED
    BY <1>1, <1>6, <2>1, OwnMoves, ReadRests
<1>7. QED
  BY <1>2, <1>3, <1>4, <1>5, <1>6 DEF CallStep

(* A function takes marks off and records matches, whatever is read. *)
LEMMA ReadSettles ==
  ASSUME MatchmakingInv, ReadInv, SettlementNext, UNCHANGED callVars
  PROVE  ReadInv'
<1>1. /\ userMatch \in [Users -> MatchIds \cup {NoMatch}] /\ NoMatch \notin MatchIds
      /\ records \in [MatchIds -> Nat] /\ TypeInv
      /\ own \in [Users -> SUBSET MatchIds] /\ theirs \in [Users -> SUBSET MatchIds]
  BY ConstantsAssumption DEF MatchmakingInv, TypeInv, TypeOK, CallInv, CallTypes
<1>2. /\ \A u \in Users : userMatch'[u] = userMatch[u] \/ userMatch'[u] = NoMatch
      /\ \A n \in MatchIds : records[n] > 0 => records'[n] > 0
  <2>1. ASSUME NEW m \in MatchIds, NEW k \in Kinds, Step(m, k)
        PROVE  /\ \A u \in Users : userMatch'[u] = userMatch[u] \/ userMatch'[u] = NoMatch
               /\ \A n \in MatchIds : records[n] > 0 => records'[n] > 0
    BY <1>1, <2>1, Effects
  <2>2. CASE ~ \E m \in MatchIds, k \in Kinds : Step(m, k)
    BY <1>1, <2>2, OtherSteps DEF tables
  <2>3. QED
    BY <2>1, <2>2
<1>3. UNCHANGED <<at, match, opponent, own, theirs>>
  BY DEF callVars
<1>4. ASSUME NEW u \in Users PROVE ReadOf(u)'
  <2>1. ReadOf(u) /\ (at[u] \in Unmade => match[u] \in MatchIds)
    BY DEF ReadInv, MatchmakingInv, CallInv, CallOf, Making, Unmade
  <2>2. at[u] \in Unmade => MarkedWith(match[u])' \subseteq MarkedWith(match[u])
    BY <1>1, <1>2, <1>3, <2>1 DEF MarkedWith
  <2>3. QED
    BY <1>1, <1>2, <1>3, <2>1, <2>2 DEF ReadOf
<1>5. QED
  BY <1>4 DEF ReadInv

(* The invariant of the composition. *)
SettlingInv == MatchmakingInv /\ SettledInv /\ ReadInv

LEMMA SettlingInit == InitMatchmaking => SettlingInv
<1> SUFFICES ASSUME InitMatchmaking PROVE SettlingInv
  OBVIOUS
<1>1. MatchmakingInv
  BY MatchmakingInit
<1>2. LockInv /\ OnceInv
  BY DEF InitMatchmaking, Init, LockInv, OnceInv, OnceOf, Made, Seats, AllKinds
<1>3. RecordInv /\ CareInv
  BY DEF InitMatchmaking, Init, RecordInv, CareInv, CareOf, Seats, AllKinds
<1>4. ReadInv
  BY DEF InitMatchmaking, ReadInv, ReadOf, Unmade
<1>5. QED
  BY <1>1, <1>2, <1>3, <1>4 DEF SettlingInv, SettledInv

LEMMA SettlingKeeps == SettlingInv /\ [NextMatchmaking]_vars => SettlingInv'
<1> SUFFICES ASSUME SettlingInv, [NextMatchmaking]_vars PROVE SettlingInv'
  OBVIOUS
<1> USE DEF SettlingInv
<1>1. MatchmakingInv'
  BY MatchmakingKeeps
<1>2. ASSUME UNCHANGED settlementVars PROVE SettledInv'
  BY <1>2, SettledSame DEF settlementVars, tables, matchVars, serverVars, jobVars
<1>3. ASSUME NEW u \in Users,
             CallStep(u) \/ (\E r \in Requests : Request(u, r)) \/ FailCall(u) \/ Cancel(u)
      PROVE  SettlingInv'
  <2>1. CallStep(u) \/ UNCHANGED settlementVars
    BY <1>3 DEF Request, FailCall, Cancel
  <2>2. SettledInv'
    BY <1>2, <2>1, CallSettles
  <2>3. QED
    BY <1>1, <1>3, <2>2, CallReadKept
<1>4. CASE SettlementNext /\ UNCHANGED <<ticket, callVars, calls, lost>>
  <2>1. TypeInv /\ LockInv /\ OnceInv /\ RecordInv /\ CareInv
    BY DEF MatchmakingInv, SettledInv
  <2>2. SettledInv'
    BY <1>4, <2>1, LockStep, OnceStep, RecordStep, CareStep DEF SettledInv
  <2>3. QED
    BY <1>1, <1>4, <2>2, ReadSettles
<1>5. CASE UNCHANGED vars
  <2>1. UNCHANGED <<settlementVars, callVars>>
    BY <1>5 DEF vars
  <2>2. ReadInv'
    BY <2>1 DEF settlementVars, tables, callVars, ReadInv, ReadOf, MarkedWith
  <2>3. QED
    BY <1>1, <1>2, <2>1, <2>2
<1>6. QED
  BY <1>3, <1>4, <1>5 DEF NextMatchmaking

(* Also when matches are made by calls that interleave and fail, endGame   *)
(* locks nobody out of matchmaking (EndNeverLocksOut).                     *)
THEOREM MatchedNeverLockedOut == SpecMatchmaking => []EndNeverLocksOut
<1>1. SettlingInv => EndNeverLocksOut
  BY DEF SettlingInv, SettledInv, LockInv, LockOf, EndNeverLocksOut, Undropped
<1>2. QED
  BY SettlingInit, SettlingKeeps, <1>1, PTL DEF SpecMatchmaking

(* What ratings count is recorded, although a call reads them long before  *)
(* the match it makes is stored (CountedIsRecorded).                       *)
THEOREM MatchedCountsRecorded == SpecMatchmaking => []CountedIsRecorded
<1>1. SettlingInv => CountedIsRecorded
  BY DEF SettlingInv, SettledInv, RecordInv, CountedIsRecorded
<1>2. QED
  BY SettlingInit, SettlingKeeps, <1>1, PTL DEF SpecMatchmaking

(* A mark that a handler has dealt with is never left to nobody            *)
(* (MarkedIsCared), whichever calls mark its players again meanwhile.      *)
THEOREM MatchedAreCared == SpecMatchmaking => []MarkedIsCared
<1>1. SettlingInv => MarkedIsCared
  BY DEF SettlingInv, SettledInv, CareInv, CareOf, MarkedIsCared
<1>2. QED
  BY SettlingInit, SettlingKeeps, <1>1, PTL DEF SpecMatchmaking

(* No match that a call makes is recorded twice (RecordedOnce).            *)
THEOREM MatchedRecordOnce == SpecMatchmaking => []RecordedOnce
<1>1. SettlingInv => RecordedOnce
  BY DEF SettlingInv, SettledInv, OnceInv, OnceOf, RecordedOnce
<1>2. QED
  BY SettlingInit, SettlingKeeps, <1>1, PTL DEF SpecMatchmaking
=============================================================================
