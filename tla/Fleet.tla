-------------------------------- MODULE Fleet --------------------------------
(***************************************************************************)
(* The game servers as ECS tasks, and how a client finds one of them       *)
(* (internal/aws/compute/fargate.go): for a match that is made             *)
(* (cmd/lambda/matchmaking), for a match whose server may have gone        *)
(* (cmd/lambda/matchRestore), and for a user who asks for a match and has  *)
(* one (again matchmaking, which does not store what it finds).  Every     *)
(* action is one call of a function to ECS, DynamoDB or a game server.     *)
(***************************************************************************)
EXTENDS Naturals, FiniteSets

CONSTANTS
  Tasks,         \* tasks, each with the public address of its own
  NoTask,
  AtFirst,       \* the tasks that run at first
  Matches,
  Clients,       \* each makes one call at a time, again and again
  Plays,         \* Plays[c]: the match of the client
  Capacity,      \* MaxMatches of a server
  MaxTries,      \* tries of a function to find a server (5)
  MaxTroubles    \* bound: crashes, scale-ins and calls for new matches

ASSUME TaskAssumption == IsFiniteSet(Tasks) /\ NoTask \notin Tasks /\ AtFirst \subseteq Tasks
ASSUME PlaysAssumption == Plays \in [Clients -> Matches]
ASSUME LimitsAssumption == Capacity \in Nat /\ MaxTries \in Nat \ {0} /\ MaxTroubles \in Nat

VARIABLES
  tasks,       \* "none", "pending", "running", "dead" (but listed) or "stopped"
  desired,     \* the desired count of the service
  server,      \* the server of each match's row in ActiveMatches; NoTask: no row
  ended,       \* matches that have ended; a row they have is a remnant
  serving,     \* pairs of a task and a match it has loaded
  call,        \* what each client's call is doing
  troubles

varsFleet == <<tasks, desired, server, ended, serving, call, troubles>>
rowsOfMatches == <<server, ended, serving>>
fleet == <<tasks, desired>>

NoCall == [at |-> "idle", kind |-> "restore", was |-> NoTask, ask |-> {},
           tries |-> 0, count |-> 0, ip |-> NoTask]

(* ListTasks with DesiredStatus "RUNNING" gives the pending ones, too.     *)
Listed == {t \in Tasks : tasks[t] \in {"pending", "running", "dead"}}
Alive(t) == t # NoTask /\ tasks[t] = "running"

InitFleet ==
  /\ tasks = [t \in Tasks |-> IF t \in AtFirst THEN "running" ELSE "none"]
  /\ desired = Cardinality(Listed)
  /\ server \in [Matches -> Listed \cup {NoTask}]
  /\ ended = {}
  /\ serving = {p \in Tasks \X Matches : server[p[2]] = p[1]}
  /\ \A t \in Tasks : Cardinality({m \in Matches : <<t, m>> \in serving}) <= Capacity
  /\ call = [c \in Clients |-> NoCall]
  /\ troubles = 0
-----------------------------------------------------------------------------
(* A function that fails, or has nothing to do, leaves its client where it *)
(* was: free to call again.                                                *)
CallAt(c, place) == call[c].at = place
CallGoes(c, next) == call' = [call EXCEPT ![c].at = next]
CallFails(c) == call' = [call EXCEPT ![c] = NoCall]
Answer(c, t) == call' = [call EXCEPT ![c] = [NoCall EXCEPT !.at = "ok", !.ip = t]]

(* Of the calls, one that asks for a new match counts as a trouble. *)
Call(c) ==
  /\ CallAt(c, "idle")
  /\ \/ call' = [call EXCEPT ![c] = [NoCall EXCEPT !.at = "check"]]
        /\ UNCHANGED troubles
     \/ /\ server[Plays[c]] # NoTask /\ Plays[c] \notin ended
        /\ call' = [call EXCEPT ![c] = [NoCall EXCEPT !.at = "check", !.kind = "rejoin",
                                                      !.was = server[Plays[c]]]]
        /\ UNCHANGED troubles
     \/ /\ server[Plays[c]] = NoTask /\ Plays[c] \notin ended
        /\ troubles < MaxTroubles /\ troubles' = troubles + 1
        /\ call' = [call EXCEPT ![c] = [NoCall EXCEPT !.at = "offer", !.kind = "new"]]
  /\ UNCHANGED <<fleet, rowsOfMatches>>

(* CheckAndStartNewTask: the list and the count are two calls. *)
NextOfCheck(c) == IF call[c].kind = "restore" THEN "row" ELSE "find"

(* Mutant: an empty fleet is left alone. *)
CheckNothing(c) ==
  /\ CallAt(c, "check")
  /\ CallGoes(c, NextOfCheck(c))
  /\ UNCHANGED <<fleet, rowsOfMatches, troubles>>

CheckTasks(c) ==
  /\ CallAt(c, "check")
  /\ CallGoes(c, IF Listed = {} THEN "scale" ELSE NextOfCheck(c))
  /\ UNCHANGED <<fleet, rowsOfMatches, troubles>>

ScaleToOne(c) ==
  /\ CallAt(c, "scale")
  /\ desired' = 1
  /\ CallGoes(c, NextOfCheck(c))
  /\ UNCHANGED <<tasks, rowsOfMatches, troubles>>

(* matchRestore: without a row, or with a row that names no players, there *)
(* is nothing to restore.                                                  *)
GetRow(c) ==
  /\ CallAt(c, "row")
  /\ IF server[Plays[c]] = NoTask \/ Plays[c] \in ended THEN CallFails(c)
     ELSE call' = [call EXCEPT ![c].at = "find", ![c].was = server[Plays[c]]]
  /\ UNCHANGED <<fleet, rowsOfMatches, troubles>>

(* A try that finds nothing: sleep and try again, if there are tries left. *)
TryAgain(c, next) ==
  IF call[c].tries + 1 < MaxTries
  THEN call' = [call EXCEPT ![c].tries = @ + 1, ![c].ask = {}, ![c].count = 0, ![c].at = next]
  ELSE CallFails(c)

(* The tasks are sorted by the time they have started, which a pending one *)
(* has not: with two or more of them the comparison panics.                *)
SortPanics == Cardinality(Listed) > 1 /\ \E t \in Listed : tasks[t] = "pending"

Chosen(c, t) ==
  IF call[c].kind = "rejoin" THEN Answer(c, t)
  ELSE call' = [call EXCEPT ![c].ip = t, ![c].ask = {}, ![c].tries = 0,
                  ![c].at = IF call[c].kind = "restore" THEN "update" ELSE "create"]

(* A pending task that is alone has no public address, or does not answer: *)
(* either way the try fails, as if it were not there.                      *)
Addresses == {t \in Listed : tasks[t] # "pending"}
AskServers(c) == call' = [call EXCEPT ![c].at = "ask", ![c].ask = Addresses]

(* Mutant: the server of the row is not preferred. *)
FindAny(c) ==
  /\ CallAt(c, "find")
  /\ IF SortPanics THEN CallFails(c)
     ELSE IF Addresses = {} THEN TryAgain(c, "find")
     ELSE AskServers(c)
  /\ UNCHANGED <<fleet, rowsOfMatches, troubles>>

(* CheckAndGetNewServerIp up to the first request to a server. *)
Find(c) ==
  /\ CallAt(c, "find")
  /\ IF SortPanics THEN CallFails(c)
     ELSE IF call[c].was \in Addresses THEN Chosen(c, call[c].was)
     ELSE IF Addresses = {} THEN TryAgain(c, "find")
     ELSE AskServers(c)
  /\ UNCHANGED <<fleet, rowsOfMatches, troubles>>

(* GetAvailableServerIp up to the first request to a server.  StartNewTask *)
(* is for a list without a pending task.                                   *)
Offer(c) ==
  /\ CallAt(c, "offer")
  /\ IF SortPanics THEN CallFails(c)
     ELSE IF Listed = {} THEN CallGoes(c, "start")
     ELSE IF Addresses = {} THEN TryAgain(c, "offer")
     ELSE AskServers(c)
  /\ UNCHANGED <<fleet, rowsOfMatches, troubles>>

(* GetServerStatus: the address does not answer, or the server accepts, or *)
(* it is full.  The latest server is asked first; here it is any, as the   *)
(* times are left out.                                                     *)
CanAccept(t) == Cardinality({m \in Matches : <<t, m>> \in serving}) < Capacity
Again(c) == IF call[c].kind = "new" THEN "offer" ELSE "find"

GetServerStatus(c) ==
  /\ CallAt(c, "ask")
  /\ \E t \in call[c].ask :
       IF ~Alive(t) THEN TryAgain(c, Again(c))
       ELSE IF CanAccept(t) THEN Chosen(c, t)
       ELSE IF call[c].ask # {t} THEN call' = [call EXCEPT ![c].ask = @ \ {t}]
       ELSE IF call[c].kind = "new" THEN CallGoes(c, "start")
       ELSE TryAgain(c, "find")
  /\ UNCHANGED <<fleet, rowsOfMatches, troubles>>

(* StartNewTask: the list and the count are two calls. *)
StartNewTask(c) ==
  /\ \/ CallAt(c, "start")
        /\ call' = [call EXCEPT ![c].at = "raise", ![c].ask = {},
                                ![c].count = Cardinality(Listed)]
        /\ UNCHANGED desired
     \/ CallAt(c, "raise")
        /\ desired' = call[c].count + 1
        /\ TryAgain(c, "offer")
  /\ UNCHANGED <<tasks, rowsOfMatches, troubles>>

(* matchRestore: the row of the match is overwritten, whatever it is now;  *)
(* UpdateItem makes a row if there is none.                                *)
UpdateActiveMatch(c) ==
  /\ CallAt(c, "update")
  /\ server' = [server EXCEPT ![Plays[c]] = call[c].ip]
  /\ Answer(c, call[c].ip)
  /\ UNCHANGED <<fleet, ended, serving, troubles>>

CreateMatch(c) ==
  /\ CallAt(c, "create")
  /\ IF server[Plays[c]] = NoTask /\ Plays[c] \notin ended
     THEN server' = [server EXCEPT ![Plays[c]] = call[c].ip] ELSE UNCHANGED server
  /\ Answer(c, call[c].ip)
  /\ UNCHANGED <<fleet, ended, serving, troubles>>

(* Mutant: the address is taken for a server that runs. *)
ConnectAnyway(c) ==
  /\ CallAt(c, "ok")
  /\ IF server[Plays[c]] # NoTask /\ Plays[c] \notin ended
     THEN serving' = serving \cup {<<call[c].ip, Plays[c]>>} ELSE UNCHANGED serving
  /\ call' = [call EXCEPT ![c] = NoCall]
  /\ UNCHANGED <<fleet, server, ended, troubles>>

(* The client connects to the address of the answer, and the server loads  *)
(* the match from its row; it does not compare the row with its address.   *)
Connect(c) ==
  /\ CallAt(c, "ok")
  /\ IF Alive(call[c].ip) /\ server[Plays[c]] # NoTask /\ Plays[c] \notin ended
     THEN serving' = serving \cup {<<call[c].ip, Plays[c]>>} ELSE UNCHANGED serving
  /\ call' = [call EXCEPT ![c] = NoCall]
  /\ UNCHANGED <<fleet, server, ended, troubles>>
-----------------------------------------------------------------------------
(* A match ends on a server, or is aborted since nobody came; ECS starts   *)
(* and stops tasks, and a task may die without a word.                     *)

MatchGone(m) ==
  /\ server[m] # NoTask /\ m \notin ended
  /\ (\E t \in Tasks : <<t, m>> \in serving) \/ \A c \in Clients : Plays[c] # m
  /\ server' = [server EXCEPT ![m] = NoTask]
  /\ ended' = ended \cup {m}
  /\ serving' = {p \in serving : p[2] # m}
  /\ UNCHANGED <<fleet, call, troubles>>

PlaceTask(t) ==
  /\ Cardinality(Listed) < desired /\ tasks[t] = "none"
  /\ tasks' = [tasks EXCEPT ![t] = "pending"]
  /\ UNCHANGED <<desired, rowsOfMatches, call, troubles>>

RunTask(t) ==
  /\ tasks[t] = "pending"
  /\ tasks' = [tasks EXCEPT ![t] = "running"]
  /\ UNCHANGED <<desired, rowsOfMatches, call, troubles>>

(* Scale-in spares the protected tasks: those that serve matches. *)
StopTask(t) ==
  /\ Cardinality(Listed) > desired /\ t \in Listed
  /\ \A p \in serving : p[1] # t
  /\ tasks' = [tasks EXCEPT ![t] = "stopped"]
  /\ UNCHANGED <<desired, rowsOfMatches, call, troubles>>

Die(t) ==
  /\ tasks[t] = "running" /\ troubles < MaxTroubles
  /\ tasks' = [tasks EXCEPT ![t] = "dead"]
  /\ serving' = {p \in serving : p[1] # t}
  /\ troubles' = troubles + 1
  /\ UNCHANGED <<desired, server, ended, call>>

(* ECS notices: a dead task is not listed any more. *)
NoticeDead(t) ==
  /\ tasks[t] = "dead"
  /\ tasks' = [tasks EXCEPT ![t] = "stopped"]
  /\ UNCHANGED <<desired, rowsOfMatches, call, troubles>>

(* An address comes back once nothing refers to it. *)
Recycle(t) ==
  /\ tasks[t] = "stopped"
  /\ \A m \in Matches : server[m] = t => m \in ended
  /\ \A c \in Clients : t \notin call[c].ask \cup {call[c].was, call[c].ip}
  /\ tasks' = [tasks EXCEPT ![t] = "none"]
  /\ UNCHANGED <<desired, rowsOfMatches, call, troubles>>

(* The scaling policy takes a task off (templates/compute.yaml). *)
ScaleIn ==
  /\ desired > 0 /\ troubles < MaxTroubles
  /\ desired' = desired - 1
  /\ troubles' = troubles + 1
  /\ UNCHANGED <<tasks, rowsOfMatches, call>>

CallStep(c) ==
  \/ CheckTasks(c) \/ ScaleToOne(c) \/ GetRow(c) \/ Find(c) \/ Offer(c)
  \/ GetServerStatus(c) \/ StartNewTask(c) \/ UpdateActiveMatch(c) \/ CreateMatch(c)
  \/ Connect(c)

Platform ==
  \/ \E t \in Tasks : PlaceTask(t) \/ RunTask(t) \/ NoticeDead(t) \/ Recycle(t)

NextFleet ==
  \/ \E c \in Clients : Call(c) \/ CallStep(c)
  \/ Platform
  \/ \E t \in Tasks : StopTask(t) \/ Die(t)
  \/ \E m \in Matches : MatchGone(m)
  \/ ScaleIn

SpecFleet == InitFleet /\ [][NextFleet]_varsFleet

(* A match with a row and no server: nobody can play it. *)
Served(m) == \E t \in Tasks : <<t, m>> \in serving
Lost(m) == server[m] # NoTask /\ m \notin ended /\ ~Served(m)

(* ECS goes on; a function that runs goes on; a client whose match is lost *)
(* calls again and again; and no match goes on for ever.           *)
CallAgain(c) == Lost(Plays[c]) /\ Call(c)
FairFleet ==
  /\ WF_varsFleet(Platform)
  /\ \A c \in Clients : WF_varsFleet(CallStep(c)) /\ WF_varsFleet(CallAgain(c))
  /\ \A m \in Matches : WF_varsFleet(MatchGone(m))
-----------------------------------------------------------------------------
CallPlaces == {"idle", "check", "scale", "row", "find", "ask", "offer", "start", "raise",
               "update", "create", "ok"}

TypeOKFleet ==
  /\ tasks \in [Tasks -> {"none", "pending", "running", "dead", "stopped"}]
  /\ desired \in Nat
  /\ server \in [Matches -> Tasks \cup {NoTask}]
  /\ ended \subseteq Matches
  /\ serving \subseteq {t \in Tasks : Alive(t)} \X (Matches \ ended)
  /\ call \in [Clients -> [at : CallPlaces, kind : {"restore", "rejoin", "new"},
                           was : Tasks \cup {NoTask}, ask : SUBSET Tasks,
                           tries : Nat, count : Nat, ip : Tasks \cup {NoTask}]]
  /\ troubles \in 0..MaxTroubles

(* A restore takes a match away from a server only if that server is gone: *)
(* a row that says what the function has read is never changed while its   *)
(* server is listed, alive or not.                                         *)
ServerIsKept ==
  [][\A m \in Matches : server[m] # NoTask /\ server'[m] \notin {server[m], NoTask}
       => \E c \in Clients : Plays[c] = m /\ CallAt(c, "update")
                             /\ (call[c].was = server[m] => server[m] \notin Listed)]_varsFleet

(* A match whose server has died is on a running server again, or over, if *)
(* its clients keep calling: even if no server was left, or all were full. *)
ServedAgain == \A m \in Matches : Lost(m) ~> ~Lost(m)
=============================================================================
