---------------------------- MODULE Notification ----------------------------
(***************************************************************************)
(* How a user who waits in the queue learns of its match: the user opens a *)
(* websocket connection (connect, disconnect) and says that it waits       *)
(* (queuing), while the call of another user makes the match and notifies  *)
(* it (cmd/lambda/matchmaking).  Both may be at any point when the other   *)
(* one is at work.  Every action is one call of a function to DynamoDB or  *)
(* to the connections of API Gateway.                                      *)
(***************************************************************************)
EXTENDS Naturals

CONSTANTS
  Conns,        \* connections the user opens, one at a time
  NoConn,
  MaxErrors     \* how many calls to a service fail

ASSUME NoConnAssumption == NoConn \notin Conns
ASSUME ErrorsAssumption == MaxErrors \in Nat

VARIABLES
  conn,         \* each connection: "none", "opening", "open" or "closed"
  connections,  \* rows of Connections
  indexed,      \* what the index UserIdIndex says of them
  queuing,      \* the queuing function of each connection
  match,        \* "none", "marked" (UserMatches), "made" (ActiveMatches), "over"
  matcher,      \* the call that makes the match
  told,         \* connections the match was posted to
  missed,       \* connections that had their answer when the matcher looked for
                \* the user in an index that did not know them yet
  errors

varsNotification ==
  <<conn, connections, indexed, queuing, match, matcher, told, missed, errors>>

InitNotification ==
  /\ conn = [c \in Conns |-> "none"]
  /\ connections = {}
  /\ indexed = {}
  /\ queuing = [c \in Conns |-> "idle"]
  /\ match = "none"
  /\ matcher = [at |-> "idle", conn |-> NoConn]
  /\ told = {}
  /\ missed = {}
  /\ errors = 0
-----------------------------------------------------------------------------
(* Connections *)

Dial(c) ==
  /\ conn[c] = "none"
  /\ \A d \in Conns : conn[d] \in {"none", "closed"}
  /\ conn' = [conn EXCEPT ![c] = "opening"]
  /\ UNCHANGED <<connections, indexed, queuing, match, matcher, told, missed, errors>>

(* connect: the connection is open once the function has returned. *)
PutConnection(c) ==
  /\ conn[c] = "opening"
  /\ connections' = connections \cup {c}
  /\ conn' = [conn EXCEPT ![c] = "open"]
  /\ UNCHANGED <<indexed, queuing, match, matcher, told, missed, errors>>

(* The index follows the table. *)
Index(c) ==
  /\ indexed' = (indexed \ {c}) \cup (connections \cap {c})
  /\ UNCHANGED <<conn, connections, queuing, match, matcher, told, missed, errors>>

(* The user or the network closes the connection. *)
Hang(c) ==
  /\ conn[c] \in {"opening", "open"}
  /\ conn' = [conn EXCEPT ![c] = "closed"]
  /\ UNCHANGED <<connections, indexed, queuing, match, matcher, told, missed, errors>>

(* Mutant: the rows of the user are deleted instead of the connection's.   *)
DisconnectDeletesAll(c) ==
  /\ conn[c] = "closed"
  /\ connections' = {}
  /\ UNCHANGED <<conn, indexed, queuing, match, matcher, told, missed, errors>>

(* disconnect, which API Gateway invokes at best once. *)
DisconnectDeletes(c) ==
  /\ conn[c] = "closed"
  /\ connections' = connections \ {c}
  /\ UNCHANGED <<conn, indexed, queuing, match, matcher, told, missed, errors>>
-----------------------------------------------------------------------------
(* queuing: answers with the match if there is one already.  It reads the  *)
(* row of the connection, not the index, and may be asked again.           *)

Reach(c, next) == queuing' = [queuing EXCEPT ![c] = next]

Wait(c) ==
  /\ queuing[c] \in {"idle", "ok", "error"} /\ conn[c] = "open"
  /\ Reach(c, "get")
  /\ missed' = missed \ {c}
  /\ UNCHANGED <<conn, connections, indexed, match, matcher, told, errors>>

GetConnection(c) ==
  /\ queuing[c] = "get"
  /\ Reach(c, IF c \in connections THEN "mark" ELSE "error")
  /\ UNCHANGED <<conn, connections, indexed, match, matcher, told, missed, errors>>

(* CheckForActiveMatch: the mark of the user, then the row it names. *)
GetUserMatch(c) ==
  /\ queuing[c] = "mark"
  /\ Reach(c, IF match = "none" THEN "ok" ELSE "row")
  /\ UNCHANGED <<conn, connections, indexed, match, matcher, told, missed, errors>>

GetActiveMatch(c) ==
  /\ queuing[c] = "row"
  /\ Reach(c, IF match = "made" THEN "post" ELSE "ok")
  /\ UNCHANGED <<conn, connections, indexed, match, matcher, told, missed, errors>>

PostToQueuing(c) ==
  /\ queuing[c] = "post"
  /\ Reach(c, IF conn[c] = "open" THEN "ok" ELSE "error")
  /\ told' = IF conn[c] = "open" THEN told \cup {c} ELSE told
  /\ UNCHANGED <<conn, connections, indexed, match, matcher, missed, errors>>

QueuingFails(c) ==
  /\ errors < MaxErrors
  /\ queuing[c] \in {"get", "mark", "row", "post"}
  /\ Reach(c, "error")
  /\ errors' = errors + 1
  /\ UNCHANGED <<conn, connections, indexed, match, matcher, told, missed>>
-----------------------------------------------------------------------------
(* The call that chose the user for its opponent. *)

MatcherAt(place) == matcher.at = place
MatcherGoes(next) == matcher' = [matcher EXCEPT !.at = next]

PutOpponentMatch ==
  /\ MatcherAt("idle")
  /\ match' = "marked"
  /\ MatcherGoes("row")
  /\ UNCHANGED <<conn, connections, indexed, queuing, told, missed, errors>>

PutActiveMatch ==
  /\ MatcherAt("row")
  /\ match' = "made"
  /\ MatcherGoes("find")
  /\ UNCHANGED <<conn, connections, indexed, queuing, told, missed, errors>>

(* The error of this write is not looked at. *)
PutActiveMatchFails ==
  /\ MatcherAt("row")
  /\ errors < MaxErrors
  /\ errors' = errors + 1
  /\ MatcherGoes("find")
  /\ UNCHANGED <<conn, connections, indexed, queuing, match, told, missed>>

(* notifyQueueingUser: one row of the index, or none: that is no error,    *)
(* even if the table has a row that has not reached the index.             *)
GetConnectionByUserId ==
  /\ MatcherAt("find")
  /\ \/ indexed = {} /\ MatcherGoes("ok")
     \/ \E c \in indexed : matcher' = [at |-> "post", conn |-> c]
  /\ missed' = {c \in connections \ indexed : queuing[c] = "ok"}
  /\ UNCHANGED <<conn, connections, indexed, queuing, match, told, errors>>

PostToConnection ==
  /\ MatcherAt("post")
  /\ IF conn[matcher.conn] = "open"
     THEN /\ told' = told \cup {matcher.conn}
          /\ MatcherGoes("close")
     ELSE /\ MatcherGoes("error")
          /\ UNCHANGED told
  /\ UNCHANGED <<conn, connections, indexed, queuing, match, missed, errors>>

DeleteConnection ==
  /\ MatcherAt("close")
  /\ IF conn[matcher.conn] = "open"
     THEN /\ conn' = [conn EXCEPT ![matcher.conn] = "closed"]
          /\ MatcherGoes("ok")
     ELSE /\ MatcherGoes("error")
          /\ UNCHANGED conn
  /\ UNCHANGED <<connections, indexed, queuing, match, told, missed, errors>>

NotifyFails ==
  /\ errors < MaxErrors
  /\ matcher.at \in {"find", "post", "close"}
  /\ MatcherGoes("error")
  /\ errors' = errors + 1
  /\ UNCHANGED <<conn, connections, indexed, queuing, match, told, missed>>

(* The match is settled: played, or aborted since nobody came. *)
MatchEnds ==
  /\ match = "made"
  /\ match' = "over"
  /\ UNCHANGED <<conn, connections, indexed, queuing, matcher, told, missed, errors>>

QueuingStep(c) ==
  \/ Wait(c) \/ GetConnection(c) \/ GetUserMatch(c) \/ GetActiveMatch(c)
  \/ PostToQueuing(c) \/ QueuingFails(c)

CreateStep == PutOpponentMatch \/ PutActiveMatch \/ PutActiveMatchFails

NotifyStep == GetConnectionByUserId \/ PostToConnection \/ DeleteConnection \/ NotifyFails

NextNotification ==
  \/ \E c \in Conns :
       \/ Dial(c) \/ PutConnection(c) \/ Index(c) \/ Hang(c) \/ DisconnectDeletes(c)
       \/ QueuingStep(c)
  \/ CreateStep \/ NotifyStep
  \/ MatchEnds

SpecNotification == InitNotification /\ [][NextNotification]_varsNotification
-----------------------------------------------------------------------------
TypeOKNotification ==
  /\ conn \in [Conns -> {"none", "opening", "open", "closed"}]
  /\ connections \subseteq Conns /\ indexed \subseteq Conns /\ told \subseteq Conns
  /\ missed \subseteq Conns
  /\ queuing \in [Conns -> {"idle", "get", "mark", "row", "post", "ok", "error"}]
  /\ match \in {"none", "marked", "made", "over"}
  /\ matcher \in [at : {"idle", "row", "find", "post", "close", "ok", "error"},
                  conn : Conns \cup {NoConn}]
  /\ errors \in 0..MaxErrors

(* The wake-up of a waiting user: when the queuing function has answered a *)
(* connection that is open and the notification has ended without an error *)
(* (matchmaking notifyQueueingUser), a match that is there was posted to   *)
(* the user, by one of the two.  The one way to lose it is that the row of *)
(* the connection had not reached the index when the matcher looked, after *)
(* the answer; asking again makes up for that.                             *)
WaiterIsTold == \A c \in Conns :
  (queuing[c] = "ok" /\ conn[c] = "open" /\ matcher.at = "ok" /\ match = "made"
     /\ c \notin missed)
    => told # {}
=============================================================================
