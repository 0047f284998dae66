--------------------------- MODULE FriendsProofs ---------------------------
(***************************************************************************)
(* Proofs about Friends for any users, devices, calls and failures.        *)
(***************************************************************************)
EXTENDS Friends, TLAPS

(* A pair and its reverse are keys of both tables. *)
LEMMA BackIsPair ==
  ASSUME NEW p \in Pairs
  PROVE  Back(p) \in Pairs /\ Back(p) # p
BY DEF Pairs, Back

(* A request that is under way is for somebody else; see Add. *)
FriendsInv ==
  /\ TypeOKFriends
  /\ \A u \in Senders : adding[u].at # "idle" => adding[u].to # u

(* An acceptance goes on to the next row only when it has put the one      *)
(* before, which stays unless its user removes the friend.                 *)
AcceptInv ==
  \A c \in Accepts :
    /\ accepting[c].at \in {"sender", "request"} => Has(Back(accepting[c].pair))
    /\ accepting[c].at = "request" => Has(accepting[c].pair)

LEMMA FriendsInit == InitFriends => FriendsInv
<1> SUFFICES ASSUME InitFriends PROVE FriendsInv
  OBVIOUS
<1> USE UsersAssumption, SendersAssumption, FaultsAssumption DEF InitFriends
<1>1. (CHOOSE p \in Pairs : TRUE) \in Pairs
  <2>1. PICK u \in Users, v \in Users : u # v
    OBVIOUS
  <2>2. <<u, v>> \in Pairs
    BY <2>1 DEF Pairs
  <2>3. QED
    BY <2>2
<1>2. accepting \in [Accepts -> [at : {"idle", "receiver", "sender", "request", "ok",
                                       "error"}, pair : Pairs]]
  BY <1>1
<1>3. adding \in [Senders -> [at : {"idle", "get", "put", "fetch", "push", "prune",
                                 "conflict", "ok", "error"},
                           to : Users, left : SUBSET Devices]]
  OBVIOUS
<1>4. QED
  BY <1>2, <1>3 DEF FriendsInv, TypeOKFriends

(* The state of a call of friendRequestAdd, and what a step of it does to  *)
(* that state: the sender's record is replaced by another one.             *)
AddRecords == [at : {"idle", "get", "put", "fetch", "push", "prune", "conflict", "ok", "error"},
               to : Users, left : SUBSET Devices]

LEMMA AddRecordStep ==
  ASSUME FriendsInv, NEW u \in Senders, Add(u) \/ AddStep(u) \/ AddFails(u)
  PROVE  \E r \in AddRecords : /\ adding' = [adding EXCEPT ![u] = r]
                              /\ r.to # u
<1> DEFINE a == adding[u]
<1>1. /\ adding \in [Senders -> AddRecords] /\ a \in AddRecords
      /\ a.at # "idle" => a.to # u
      /\ a = [at |-> a.at, to |-> a.to, left |-> a.left]
  BY DEF FriendsInv, TypeOKFriends, AddRecords
<1> USE DEF Adding, AddGoesTo, AddGoesWith
<1>2. CASE Add(u)
  <2>1. CASE Adding(u, "idle")
    <3>1. PICK v \in Users \ {u} :
            adding' = [adding EXCEPT ![u] = [at |-> "get", to |-> v, left |-> {}]]
      BY <1>2, <2>1 DEF Add
    <3>2. [at |-> "get", to |-> v, left |-> {}] \in AddRecords
      BY DEF AddRecords
    <3>3. QED
      BY <3>1, <3>2
  <2>2. CASE Adding(u, "error")
    <3>1. adding' = [adding EXCEPT ![u] = [at |-> "get", to |-> a.to, left |-> a.left]]
      BY <1>1, <1>2, <2>2 DEF Add, FriendsInv, TypeOKFriends
    <3>2. [at |-> "get", to |-> a.to, left |-> a.left] \in AddRecords /\ a.to # u
      BY <1>1, <2>2 DEF AddRecords
    <3>3. QED
      BY <3>1, <3>2
  <2>3. QED
    BY <1>2, <2>1, <2>2 DEF Add
<1>3. CASE AddStep(u) \/ AddFails(u)
  <2>1. PICK next \in {"put", "fetch", "push", "prune", "conflict", "ok", "error"},
             left \in SUBSET Devices :
          adding' = [adding EXCEPT ![u] = [at |-> next, to |-> a.to, left |-> left]]
    <3>1. CASE GetFriendship(u) \/ PutFriendRequest(u)
      BY <1>1, <3>1 DEF GetFriendship, PutFriendRequest, FriendsInv, TypeOKFriends, AddRecords
    <3>2. CASE FetchApplicationEndpoints(u)
      <4> DEFINE l == {d \in Devices : <<adding[u].to, d>> \in endpoints}
      <4>1. adding' = [adding EXCEPT ![u] = [at |-> "push", to |-> a.to, left |-> l]]
        BY <1>1, <3>2 DEF FetchApplicationEndpoints
      <4>2. l \in SUBSET Devices
        OBVIOUS
      <4>3. QED
        BY <4>1, <4>2
    <3>3. CASE SendPushNotification(u)
      <4>1. CASE a.left = {}
        BY <1>1, <3>3, <4>1 DEF SendPushNotification, AddRecords
      <4>2. CASE a.left # {}
        <5>1. PICK d \in a.left :
                IF d \in disabled THEN AddGoesWith(u, "prune", a.to, {d})
                ELSE AddGoesWith(u, "push", a.to, a.left \ {d})
          BY <3>3, <4>2 DEF SendPushNotification
        <5>2. {d} \in SUBSET Devices /\ a.left \ {d} \in SUBSET Devices
          BY <1>1 DEF AddRecords
        <5>3. CASE d \in disabled
          BY <5>1, <5>2, <5>3
        <5>4. CASE d \notin disabled
          BY <5>1, <5>2, <5>4
        <5>5. QED
          BY <5>3, <5>4
      <4>3. QED
        BY <4>1, <4>2
    <3>4. CASE DeleteApplicationEndpoint(u)
      BY <1>1, <3>4 DEF DeleteApplicationEndpoint
    <3>5. CASE AddFails(u)
      BY <1>1, <3>5 DEF AddFails
    <3>6. QED
      BY <1>3, <3>1, <3>2, <3>3, <3>4, <3>5 DEF AddStep
  <2>2. a.at # "idle"
    BY <1>3 DEF AddStep, GetFriendship, PutFriendRequest, FetchApplicationEndpoints,
       SendPushNotification, DeleteApplicationEndpoint, AddFails
  <2>3. [at |-> next, to |-> a.to, left |-> left] \in AddRecords
    BY <1>1, <2>1 DEF AddRecords
  <2>4. QED
    BY <1>1, <2>1, <2>2, <2>3
<1>4. QED
  BY <1>2, <1>3

(* friendRequestAdd keeps the types: its pair is one of Pairs. *)
LEMMA AddIsTyped ==
  ASSUME FriendsInv, NEW u \in Senders, Add(u) \/ AddStep(u) \/ AddFails(u)
  PROVE  FriendsInv'
<1>1. /\ adding' \in [Senders -> AddRecords]
      /\ \A v \in Senders : adding'[v].at # "idle" => adding'[v].to # v
  <2>1. PICK r \in AddRecords : adding' = [adding EXCEPT ![u] = r] /\ r.to # u
    BY AddRecordStep
  <2>2. QED
    BY <2>1 DEF FriendsInv, TypeOKFriends, AddRecords
<1>2. /\ requests' \subseteq asked' /\ asked' \subseteq Pairs /\ rejected' \subseteq Pairs
      /\ endpoints' \subseteq Users \X Devices
      /\ faults' \in 0..MaxFaults
      /\ friend' = friend /\ removed' = removed /\ accepting' = accepting
      /\ disabled' = disabled
  <2> USE DEF FriendsInv, TypeOKFriends, tables, history
  <2>1. CASE Add(u)
    BY <2>1 DEF Add
  <2>2. CASE GetFriendship(u) \/ FetchApplicationEndpoints(u) \/ SendPushNotification(u)
    BY <2>2 DEF GetFriendship, FetchApplicationEndpoints, SendPushNotification
  <2>3. CASE PutFriendRequest(u)
    <3>1. AddPair(u) \in Pairs
      BY <2>3, SendersAssumption DEF PutFriendRequest, AddPair, Pairs, Adding
    <3>2. QED
      BY <2>3, <3>1 DEF PutFriendRequest
  <2>4. CASE DeleteApplicationEndpoint(u)
    BY <2>4 DEF DeleteApplicationEndpoint
  <2>5. CASE AddFails(u)
    BY <2>5, FaultsAssumption DEF AddFails
  <2>6. QED
    BY <2>1, <2>2, <2>3, <2>4, <2>5 DEF AddStep
<1>3. QED
  BY <1>1, <1>2 DEF FriendsInv, TypeOKFriends, AddRecords

LEMMA AcceptIsTyped ==
  ASSUME FriendsInv, NEW c \in Accepts, Accept(c) \/ AcceptStep(c) \/ AcceptFails(c)
  PROVE  FriendsInv'
<1> USE FaultsAssumption DEF FriendsInv, TypeOKFriends, tables, history
<1>1. CASE Accept(c)
  BY <1>1 DEF Accept
<1>2. CASE PutReceiver(c) \/ PutSender(c)
  BY <1>2, BackIsPair DEF PutReceiver, PutSender, PutFriendship
<1>3. CASE DeleteFriendRequest(c)
  BY <1>3 DEF DeleteFriendRequest
<1>4. CASE AcceptFails(c)
  BY <1>4 DEF AcceptFails
<1>5. QED
  BY <1>1, <1>2, <1>3, <1>4 DEF AcceptStep

LEMMA FriendsStep == FriendsInv /\ [NextFriends]_varsFriends => FriendsInv'
<1> SUFFICES ASSUME FriendsInv, [NextFriends]_varsFriends PROVE FriendsInv'
  OBVIOUS
<1>1. ASSUME NEW p \in Pairs, Reject(p) \/ DeleteFriendship(p) PROVE FriendsInv'
  BY <1>1 DEF Reject, DeleteFriendship, FriendsInv, TypeOKFriends
<1>2. ASSUME NEW u \in Users, NEW d \in Devices, PutApplicationEndpoint(u, d)
      PROVE  FriendsInv'
  BY <1>2 DEF PutApplicationEndpoint, FriendsInv, TypeOKFriends, history
<1>3. ASSUME NEW d \in Devices, Disable(d) PROVE FriendsInv'
  BY <1>3 DEF Disable, FriendsInv, TypeOKFriends, tables, history
<1>4. CASE UNCHANGED varsFriends
  BY <1>4 DEF varsFriends, FriendsInv, TypeOKFriends
<1>5. QED
  BY <1>1, <1>2, <1>3, <1>4, AddIsTyped, AcceptIsTyped DEF NextFriends

(* Every state has its type, and no function works on a request of a user  *)
(* to itself.                                                              *)
THEOREM FriendsTypeCorrect == SpecFriends => []TypeOKFriends
<1>1. FriendsInv => TypeOKFriends
  BY DEF FriendsInv
<1>2. QED
  BY FriendsInit, FriendsStep, <1>1, PTL DEF SpecFriends
-----------------------------------------------------------------------------
(* A row of Friendships goes only when its user removes it. *)
LEMMA FriendsStay ==
  ASSUME FriendsInv, [NextFriends]_varsFriends, NEW p \in Pairs, Has(p)
  PROVE  Has(p)'
<1> USE DEF Has
<1>1. ASSUME NEW u \in Senders, Add(u) \/ AddStep(u) \/ AddFails(u) PROVE Has(p)'
  BY <1>1 DEF Add, AddStep, AddFails, GetFriendship, PutFriendRequest,
     FetchApplicationEndpoints, SendPushNotification, DeleteApplicationEndpoint,
     tables, history
<1>2. ASSUME NEW c \in Accepts, Accept(c) \/ AcceptStep(c) \/ AcceptFails(c) PROVE Has(p)'
  <2>1. CASE Accept(c) \/ AcceptFails(c) \/ DeleteFriendRequest(c)
    BY <2>1 DEF Accept, AcceptFails, DeleteFriendRequest, tables, history
  <2>2. CASE PutReceiver(c) \/ PutSender(c)
    BY <2>2, NoOneAssumption DEF PutReceiver, PutSender, PutFriendship, history,
       FriendsInv, TypeOKFriends
  <2>3. QED
    BY <1>2, <2>1, <2>2 DEF AcceptStep
<1>3. ASSUME NEW q \in Pairs, Reject(q) \/ DeleteFriendship(q) PROVE Has(p)'
  BY <1>3 DEF Reject, DeleteFriendship, FriendsInv, TypeOKFriends
<1>4. ASSUME NEW u \in Users, NEW d \in Devices, PutApplicationEndpoint(u, d) PROVE Has(p)'
  BY <1>4 DEF PutApplicationEndpoint, history
<1>5. ASSUME NEW d \in Devices, Disable(d) PROVE Has(p)'
  BY <1>5 DEF Disable, tables, history
<1>6. CASE UNCHANGED varsFriends
  BY <1>6 DEF varsFriends
<1>7. QED
  BY <1>1, <1>2, <1>3, <1>4, <1>5, <1>6 DEF NextFriends

(* Only the acceptances themselves move on, one row at a time. *)
LEMMA AcceptStepKeeps ==
  ASSUME FriendsInv, AcceptInv, [NextFriends]_varsFriends
  PROVE  AcceptInv'
<1> SUFFICES ASSUME NEW c \in Accepts
             PROVE  /\ accepting'[c].at \in {"sender", "request"}
                         => Has(Back(accepting[c].pair))'
                    /\ accepting'[c].at = "request" => Has(accepting[c].pair)'
  BY DEF AcceptInv, Back
<1>0. PICK p \in Pairs : p = accepting[c].pair
  BY DEF FriendsInv, TypeOKFriends
<1>1. Back(p) \in Pairs
  BY BackIsPair
<1>2. (Has(p) => Has(p)') /\ (Has(Back(p)) => Has(Back(p))')
  BY <1>1, FriendsStay
<1>3. CASE accepting'[c] = accepting[c]
  BY <1>0, <1>2, <1>3 DEF AcceptInv, Back, Has
<1>4. CASE accepting'[c].at \notin {"sender", "request"}
  BY <1>4
<1>5. CASE PutReceiver(c)
  <2>1. accepting'[c].at = "sender" /\ accepting'[c].pair = p /\ friend'[Back(p)] = c
    BY <1>0, <1>1, <1>5 DEF PutReceiver, PutFriendship, FriendsInv, TypeOKFriends
  <2>2. QED
    BY <2>1, NoOneAssumption DEF Has, Back
<1>6. CASE PutSender(c)
  <2>1. /\ accepting'[c].at = "request" /\ accepting'[c].pair = p /\ friend'[p] = c
        /\ accepting[c].at = "sender"
    BY <1>0, <1>1, <1>6 DEF PutSender, PutFriendship, FriendsInv, TypeOKFriends
  <2>2. QED
    BY <2>1, <1>0, <1>2, NoOneAssumption DEF Has, Back, AcceptInv
<1>7. QED
  <2>1. ASSUME NEW u \in Senders, Add(u) \/ AddStep(u) \/ AddFails(u)
        PROVE  accepting' = accepting
    BY <2>1 DEF Add, AddStep, AddFails, GetFriendship, PutFriendRequest,
       FetchApplicationEndpoints, SendPushNotification, DeleteApplicationEndpoint
  <2>2. ASSUME NEW k \in Accepts, Accept(k) \/ AcceptStep(k) \/ AcceptFails(k), k # c
        PROVE  accepting'[c] = accepting[c]
    BY <2>2 DEF Accept, AcceptStep, AcceptFails, PutReceiver, PutSender, PutFriendship,
       DeleteFriendRequest, FriendsInv, TypeOKFriends
  <2>3. ASSUME Accept(c) \/ DeleteFriendRequest(c) \/ AcceptFails(c)
        PROVE  accepting'[c].at \notin {"sender", "request"}
    BY <2>3 DEF Accept, AcceptFails, DeleteFriendRequest, FriendsInv, TypeOKFriends
  <2>4. ASSUME NEW q \in Pairs, Reject(q) \/ DeleteFriendship(q) PROVE accepting' = accepting
    BY <2>4 DEF Reject, DeleteFriendship
  <2>5. ASSUME NEW u \in Users, NEW d \in Devices, PutApplicationEndpoint(u, d)
        PROVE  accepting' = accepting
    BY <2>5 DEF PutApplicationEndpoint
  <2>6. ASSUME NEW d \in Devices, Disable(d) PROVE accepting' = accepting
    BY <2>6 DEF Disable
  <2>7. ASSUME UNCHANGED varsFriends PROVE accepting' = accepting
    BY <2>7 DEF varsFriends
  <2>8. QED
    BY <2>1, <2>2, <2>3, <2>4, <2>5, <2>6, <2>7, <1>3, <1>4, <1>5, <1>6
       DEF NextFriends, AcceptStep

(* A request leaves its table when it is rejected or when both rows of the *)
(* friendship have been put.                                               *)
LEMMA AnsweredStep ==
  ASSUME FriendsInv, AcceptInv, RequestIsAnswered, [NextFriends]_varsFriends
  PROVE  RequestIsAnswered'
<1> SUFFICES ASSUME NEW p \in asked'
             PROVE  \/ p \in requests' \cup rejected'
                    \/ Has(p)' /\ Has(Back(p))'
  BY DEF RequestIsAnswered, Back, Has
<1>1. p \in Pairs /\ Back(p) \in Pairs
  BY FriendsStep, BackIsPair DEF FriendsInv, TypeOKFriends
<1>2. (Has(p) => Has(p)') /\ (Has(Back(p)) => Has(Back(p))')
  BY <1>1, FriendsStay
<1>3. CASE asked' = asked /\ requests' = requests /\ rejected' = rejected
  BY <1>2, <1>3 DEF RequestIsAnswered
<1>4. ASSUME NEW u \in Senders, PutFriendRequest(u)
      PROVE  \/ p \in requests' \cup rejected'
             \/ Has(p)' /\ Has(Back(p))'
  BY <1>2, <1>4 DEF PutFriendRequest, RequestIsAnswered
<1>5. ASSUME NEW q \in Pairs, Reject(q)
      PROVE  \/ p \in requests' \cup rejected'
             \/ Has(p)' /\ Has(Back(p))'
  BY <1>2, <1>5 DEF Reject, RequestIsAnswered
<1>6. ASSUME NEW c \in Accepts, DeleteFriendRequest(c)
      PROVE  \/ p \in requests' \cup rejected'
             \/ Has(p)' /\ Has(Back(p))'
  BY <1>2, <1>6 DEF DeleteFriendRequest, RequestIsAnswered, AcceptInv, history
<1>7. QED
  <2>1. ASSUME NEW u \in Senders, Add(u) \/ GetFriendship(u) \/ AddFails(u)
               \/ FetchApplicationEndpoints(u) \/ SendPushNotification(u)
               \/ DeleteApplicationEndpoint(u)
        PROVE  asked' = asked /\ requests' = requests /\ rejected' = rejected
    BY <2>1 DEF Add, AddFails, GetFriendship, FetchApplicationEndpoints,
       SendPushNotification, DeleteApplicationEndpoint, tables, history
  <2>2. ASSUME NEW c \in Accepts, Accept(c) \/ PutReceiver(c) \/ PutSender(c) \/ AcceptFails(c)
        PROVE  asked' = asked /\ requests' = requests /\ rejected' = rejected
    BY <2>2 DEF Accept, PutReceiver, PutSender, PutFriendship, AcceptFails, tables, history
  <2>3. ASSUME NEW q \in Pairs, DeleteFriendship(q)
        PROVE  asked' = asked /\ requests' = requests /\ rejected' = rejected
    BY <2>3 DEF DeleteFriendship
  <2>4. ASSUME NEW u \in Users, NEW d \in Devices, PutApplicationEndpoint(u, d)
        PROVE  asked' = asked /\ requests' = requests /\ rejected' = rejected
    BY <2>4 DEF PutApplicationEndpoint, history
  <2>5. ASSUME NEW d \in Devices, Disable(d)
        PROVE  asked' = asked /\ requests' = requests /\ rejected' = rejected
    BY <2>5 DEF Disable, tables, history
  <2>6. ASSUME UNCHANGED varsFriends
        PROVE  asked' = asked /\ requests' = requests /\ rejected' = rejected
    BY <2>6 DEF varsFriends
  <2>7. QED
    BY <2>1, <2>2, <2>3, <2>4, <2>5, <2>6, <1>3, <1>4, <1>5, <1>6
       DEF NextFriends, AddStep, AcceptStep

(* RequestIsAnswered for any users and acceptances, wherever calls fail. *)
THEOREM RequestsAreAnswered == SpecFriends => []RequestIsAnswered
<1>1. InitFriends => AcceptInv /\ RequestIsAnswered
  BY DEF InitFriends, AcceptInv, RequestIsAnswered
<1>2. QED
  BY FriendsInit, FriendsStep, AcceptStepKeeps, AnsweredStep, <1>1, PTL DEF SpecFriends
=============================================================================
