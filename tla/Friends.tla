------------------------------ MODULE Friends ------------------------------
(***************************************************************************)
(* Friend requests, friendships and the push messages about requests       *)
(* (cmd/lambda/friendRequest*, friendship*, applicationEndpointPut).       *)
(* Every action is one call of a function to DynamoDB or SNS; a failed     *)
(* call ends its function.  A client waits for the answer to its request   *)
(* before it repeats it, and accepts or rejects a request that was shown   *)
(* to it at some time.                                                     *)
(***************************************************************************)
EXTENDS Naturals, FiniteSets

CONSTANTS
  Users,
  Senders,       \* the users who send requests
  Accepts,       \* the calls of friendRequestAccept; each has its own conversation
  Devices,       \* device tokens
  NoOne,         \* no row in Friendships
  MaxFaults      \* how many calls to a service fail

ASSUME UsersAssumption == \E u, v \in Users : u # v
ASSUME SendersAssumption == Senders \subseteq Users
ASSUME NoOneAssumption == NoOne \notin Accepts
ASSUME FaultsAssumption == MaxFaults \in Nat

(* The keys of both tables: (sender, receiver) and (user, friend). *)
Pairs == {p \in Users \X Users : p[1] # p[2]}
Back(p) == <<p[2], p[1]>>

VARIABLES
  requests,      \* rows of FriendRequests
  friend,        \* rows of Friendships: their conversation, or NoOne
  endpoints,     \* rows of ApplicationEndpoints: pairs of a user and a token
  disabled,      \* tokens SNS cannot deliver to any more
  adding,        \* friendRequestAdd of each sender
  accepting,     \* each call of friendRequestAccept
  faults,
  asked, rejected, removed  \* pairs whose request was put, was rejected, whose row was removed

varsFriends == <<requests, friend, endpoints, disabled, adding, accepting, faults,
                 asked, rejected, removed>>
tables == <<requests, friend, endpoints>>
history == <<asked, rejected, removed>>

InitFriends ==
  /\ requests = {}
  /\ friend = [p \in Pairs |-> NoOne]
  /\ endpoints \in SUBSET (Users \X Devices)
  /\ disabled = {}
  /\ adding = [u \in Senders |-> [at |-> "idle", to |-> u, left |-> {}]]
  /\ accepting = [c \in Accepts |-> [at |-> "idle", pair |-> CHOOSE p \in Pairs : TRUE]]
  /\ faults = 0
  /\ asked = {} /\ rejected = {} /\ removed = {}
-----------------------------------------------------------------------------
(* friendRequestAdd *)

Adding(u, place) == adding[u].at = place
AddPair(u) == <<u, adding[u].to>>
AddGoesTo(u, place) == adding' = [adding EXCEPT ![u].at = place]
AddGoesWith(u, place, to, left) ==
  adding' = [adding EXCEPT ![u] = [at |-> place, to |-> to, left |-> left]]

(* A client asks for the first time, or once more after an error. *)
Add(u) ==
  /\ \/ /\ Adding(u, "idle")
        /\ \E v \in Users \ {u} : AddGoesWith(u, "get", v, {})
     \/ Adding(u, "error") /\ AddGoesTo(u, "get")
  /\ UNCHANGED <<tables, disabled, accepting, faults, history>>

GetFriendship(u) ==
  /\ Adding(u, "get")
  /\ AddGoesTo(u, IF friend[AddPair(u)] # NoOne THEN "conflict" ELSE "put")
  /\ UNCHANGED <<tables, disabled, accepting, faults, history>>

(* Mutant: sender and receiver are swapped. *)
PutRequestBack(u) ==
  /\ Adding(u, "put")
  /\ requests' = requests \cup {Back(AddPair(u))}
  /\ asked' = asked \cup {AddPair(u)}
  /\ rejected' = rejected \ {AddPair(u)}
  /\ AddGoesTo(u, "fetch")
  /\ UNCHANGED <<friend, endpoints, disabled, accepting, faults, removed>>

PutFriendRequest(u) ==
  /\ Adding(u, "put")
  /\ requests' = requests \cup {AddPair(u)}
  /\ asked' = asked \cup {AddPair(u)}
  /\ rejected' = rejected \ {AddPair(u)}
  /\ AddGoesTo(u, "fetch")
  /\ UNCHANGED <<friend, endpoints, disabled, accepting, faults, removed>>

FetchApplicationEndpoints(u) ==
  /\ Adding(u, "fetch")
  /\ AddGoesWith(u, "push", adding[u].to, {d \in Devices : <<adding[u].to, d>> \in endpoints})
  /\ UNCHANGED <<tables, disabled, accepting, faults, history>>

SendPushNotification(u) ==
  /\ Adding(u, "push")
  /\ IF adding[u].left = {} THEN AddGoesTo(u, "ok")
     ELSE \E d \in adding[u].left :
            IF d \in disabled THEN AddGoesWith(u, "prune", adding[u].to, {d})
            ELSE AddGoesWith(u, "push", adding[u].to, adding[u].left \ {d})
  /\ UNCHANGED <<tables, disabled, accepting, faults, history>>

(* Mutant: the endpoint stays. *)
KeepEndpoint(u) ==
  /\ Adding(u, "prune")
  /\ AddGoesWith(u, "error", adding[u].to, {})
  /\ UNCHANGED <<tables, disabled, accepting, faults, history>>

(* The first failed push deletes its endpoint and ends the function: the   *)
(* other devices get nothing this time.  An error here is not looked at.   *)
DeleteApplicationEndpoint(u) ==
  /\ Adding(u, "prune")
  /\ endpoints' = endpoints \ {<<adding[u].to, d>> : d \in adding[u].left}
  /\ AddGoesWith(u, "error", adding[u].to, {})
  /\ UNCHANGED <<requests, friend, disabled, accepting, faults, history>>

AddFails(u) ==
  /\ faults < MaxFaults
  /\ adding[u].at \in {"get", "put", "fetch", "push", "prune"}
  /\ AddGoesWith(u, "error", adding[u].to, {})
  /\ faults' = faults + 1
  /\ UNCHANGED <<tables, disabled, accepting, history>>
-----------------------------------------------------------------------------
(* friendRequestAccept: there is no look at the request itself. *)

Accept(c) ==
  /\ accepting[c].at = "idle"
  /\ \E p \in asked : accepting' = [accepting EXCEPT ![c] = [at |-> "receiver", pair |-> p]]
  /\ UNCHANGED <<tables, disabled, adding, faults, history>>

PutFriendship(c, place, p, next) ==
  /\ accepting[c].at = place
  /\ friend' = [friend EXCEPT ![p] = c]
  /\ accepting' = [accepting EXCEPT ![c].at = next]
  /\ UNCHANGED <<requests, endpoints, disabled, adding, faults, history>>

(* Mutant: the request is deleted before the second row is put. *)
PutReceiverOnly(c) == PutFriendship(c, "receiver", Back(accepting[c].pair), "request")

PutReceiver(c) == PutFriendship(c, "receiver", Back(accepting[c].pair), "sender")
PutSender(c) == PutFriendship(c, "sender", accepting[c].pair, "request")

DeleteFriendRequest(c) ==
  /\ accepting[c].at = "request"
  /\ requests' = requests \ {accepting[c].pair}
  /\ accepting' = [accepting EXCEPT ![c].at = "ok"]
  /\ UNCHANGED <<friend, endpoints, disabled, adding, faults, history>>

AcceptFails(c) ==
  /\ faults < MaxFaults
  /\ accepting[c].at \in {"receiver", "sender", "request"}
  /\ accepting' = [accepting EXCEPT ![c].at = "error"]
  /\ faults' = faults + 1
  /\ UNCHANGED <<tables, disabled, adding, history>>
-----------------------------------------------------------------------------
(* The functions of one call. *)

Reject(p) ==
  /\ p \in asked
  /\ requests' = requests \ {p}
  /\ rejected' = rejected \cup {p}
  /\ UNCHANGED <<friend, endpoints, disabled, adding, accepting, faults, asked, removed>>

(* Only the row of the user who removes the friend is deleted. *)
DeleteFriendship(p) ==
  /\ friend[p] # NoOne
  /\ friend' = [friend EXCEPT ![p] = NoOne]
  /\ removed' = removed \cup {p}
  /\ UNCHANGED <<requests, endpoints, disabled, adding, accepting, faults, asked, rejected>>

PutApplicationEndpoint(u, d) ==
  /\ d \notin disabled
  /\ endpoints' = endpoints \cup {<<u, d>>}
  /\ UNCHANGED <<requests, friend, disabled, adding, accepting, faults, history>>

(* An app is uninstalled: its token is never good again. *)
Disable(d) ==
  /\ disabled' = disabled \cup {d}
  /\ UNCHANGED <<tables, adding, accepting, faults, history>>

AddStep(u) ==
  \/ GetFriendship(u) \/ PutFriendRequest(u) \/ FetchApplicationEndpoints(u)
  \/ SendPushNotification(u) \/ DeleteApplicationEndpoint(u)

AcceptStep(c) == PutReceiver(c) \/ PutSender(c) \/ DeleteFriendRequest(c)

NextFriends ==
  \/ \E u \in Senders : Add(u) \/ AddStep(u) \/ AddFails(u)
  \/ \E c \in Accepts : Accept(c) \/ AcceptStep(c) \/ AcceptFails(c)
  \/ \E p \in Pairs : Reject(p) \/ DeleteFriendship(p)
  \/ \E u \in Users, d \in Devices : PutApplicationEndpoint(u, d)
  \/ \E d \in Devices : Disable(d)

SpecFriends == InitFriends /\ [][NextFriends]_varsFriends

(* Functions that run go on; a client repeats a request that failed. *)
Repeat(u) == Adding(u, "error") /\ Add(u)
FairFriends == \A u \in Senders : WF_varsFriends(AddStep(u)) /\ WF_varsFriends(Repeat(u))
-----------------------------------------------------------------------------
TypeOKFriends ==
  /\ requests \subseteq asked
  /\ asked \subseteq Pairs /\ rejected \subseteq Pairs /\ removed \subseteq Pairs
  /\ friend \in [Pairs -> Accepts \cup {NoOne}]
  /\ endpoints \subseteq Users \X Devices
  /\ disabled \subseteq Devices
  /\ adding \in [Senders -> [at : {"idle", "get", "put", "fetch", "push", "prune",
                                 "conflict", "ok", "error"},
                           to : Users, left : SUBSET Devices]]
  /\ accepting \in [Accepts -> [at : {"idle", "receiver", "sender", "request", "ok",
                                      "error"}, pair : Pairs]]
  /\ faults \in 0..MaxFaults

(* A request does not get lost: it is there until it is rejected or both   *)
(* users have each other for a friend, whichever call of whichever         *)
(* acceptance failed.  Whoever removed a friend since is not counted.      *)
Has(p) == friend[p] # NoOne \/ p \in removed
RequestIsAnswered == \A p \in asked :
  p \in requests \cup rejected \/ (Has(p) /\ Has(Back(p)))

(* A user who repeats a friend request gets it through: a failed push      *)
(* takes its device off the list, so that it fails no other request.       *)
AddGetsThrough == \A u \in Senders : Adding(u, "get") ~> adding[u].at \in {"ok", "conflict"}
=============================================================================
