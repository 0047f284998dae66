-------------------------- MODULE SettlementProofs --------------------------
(***************************************************************************)
(* Proofs about Settlement for any users and matches, any functions at     *)
(* work and any numbers of loads, failures, crashes and retries.           *)
(*                                                                         *)
(* Each invariant is stated for one match, and kept by SettlementNext and  *)
(* by Make separately, since Matchmaking replaces the latter.              *)
(***************************************************************************)
EXTENDS Settlement, TLAPS

(* The functions' programs, position by position. *)
LEMMA Programs ==
  /\ DOMAIN Program.end = 1 .. 9
  /\ DOMAIN Program.abort = 1 .. 4 /\ DOMAIN Program.expire = 1 .. 4
  /\ Program.end[1] = "free1" /\ Program.end[2] = "free2"
  /\ Program.end[3] = "row" /\ Program.end[4] = "record"
  /\ Program.end[5] = "rate1" /\ Program.end[6] = "result1"
  /\ Program.end[7] = "rate2" /\ Program.end[8] = "result2"
  /\ Program.end[9] = "conversation"
  /\ Program.abort[1] = "row" /\ Program.abort[2] = "conversation"
  /\ Program.abort[3] = "free1" /\ Program.abort[4] = "free2"
  /\ Program.expire[1] = "row" /\ Program.expire[2] = "free1"
  /\ Program.expire[3] = "free2" /\ Program.expire[4] = "conversation"
BY DEF Program, EndWrites, AbortWrites, ExpireWrites

(* A match that is not made has nothing that could work on it. *)
MadeInv ==
  \A m \in MatchIds :
    \/ players[m][1] \in Users /\ players[m][2] \in Users
       /\ players[m][1] # players[m][2]
    \/ /\ ~Made(m)
       /\ m \notin active /\ phase[m] = "idle" /\ loads[m] = 0
       /\ \A k \in AllKinds : job[m][k] = 0

TypeInv == TypeOK /\ MadeInv

(* A function that runs works on a match that was made. *)
LEMMA RunningIsMade ==
  ASSUME TypeInv, NEW m \in MatchIds, NEW k \in Kinds, Running(m, k)
  PROVE  /\ players[m][1] \in Users /\ players[m][2] \in Users
         /\ job[m][k] + 1 \in 0 .. Stopped
<1> USE ConstantsAssumption, Programs
<1>1. k \in {"end", "abort", "expire"} /\ job[m][k] \in DOMAIN Program[k]
  BY DEF Running
<1>2. job[m][k] \in 1 .. 9
  BY <1>1
<1>3. QED
  BY <1>1, <1>2 DEF TypeInv, MadeInv, AllKinds, Stopped

(* Every write keeps the tables' types. *)
LEMMA WriteType ==
  ASSUME TypeInv, NEW m \in MatchIds, NEW op, Write(m, op),
         players[m][1] \in Users, players[m][2] \in Users
  PROVE  /\ userMatch' \in [Users -> MatchIds \cup {NoMatch}]
         /\ active' \subseteq active
         /\ conversations' \subseteq MatchIds
         /\ records' \in [MatchIds -> Nat]
         /\ results' \subseteq Users \X MatchIds
         /\ rating' \in [Users -> SUBSET MatchIds]
<1> USE DEF TypeInv, TypeOK
<1>1. CASE Free(m, 1) \/ Free(m, 2)
  BY <1>1 DEF Free
<1>2. CASE DropRow(m) \/ DropConversation(m)
  BY <1>2 DEF DropRow, DropConversation
<1>3. CASE Record(m)
  BY <1>3 DEF Record
<1>4. ASSUME NEW i \in Seats, Rate(m, i) PROVE rating' \in [Users -> SUBSET MatchIds]
  BY <1>4 DEF Rate, Seats
<1>5. CASE Rate(m, 1) \/ Rate(m, 2)
  BY <1>4, <1>5 DEF Rate, Seats
<1>6. CASE Result(m, 1) \/ Result(m, 2)
  BY <1>6 DEF Result
<1>7. QED
  BY <1>1, <1>2, <1>3, <1>5, <1>6 DEF Write

(* The steps of the server and of the functions keep the types.            *)
LEMMA TypeStep ==
  ASSUME TypeInv, SettlementNext
  PROVE  TypeInv'
<1> USE ConstantsAssumption DEF TypeInv, TypeOK, AllKinds, Phases
<1>1. ASSUME NEW m \in MatchIds, Load(m) PROVE TypeInv'
  <2>1. TypeOK'
    BY <1>1 DEF Load, tables, matchVars, jobVars
  <2>2. MadeInv'
    BY <1>1 DEF Load, tables, matchVars, jobVars, MadeInv, Made
  <2>3. QED
    BY <2>1, <2>2
<1>2. ASSUME NEW m \in MatchIds, NEW k \in Kinds, Start(m, k)
      PROVE  job' \in [MatchIds -> [AllKinds -> 0 .. Stopped]]
  BY <1>2 DEF Start, Stopped
<1>3. ASSUME NEW m \in MatchIds, End(m) PROVE TypeInv'
  <2>1. "end" \in Kinds
    BY <1>3 DEF End, Start
  <2>2. job' \in [MatchIds -> [AllKinds -> 0 .. Stopped]]
    BY <1>2, <1>3, <2>1 DEF End
  <2>3. TypeOK'
    BY <1>3, <2>2 DEF End, tables, matchVars
  <2>4. MadeInv'
    BY <1>3 DEF End, Start, tables, matchVars, MadeInv, Made
  <2>5. QED
    BY <2>3, <2>4
<1>4. ASSUME NEW m \in MatchIds, EndReturns(m) PROVE TypeInv'
  BY <1>4 DEF EndReturns, tables, matchVars, jobVars, MadeInv, Made
<1>5. ASSUME NEW m \in MatchIds, Abort(m) PROVE TypeInv'
  <2>1. "abort" \in Kinds
    BY <1>5 DEF Abort, Start
  <2>2. job' \in [MatchIds -> [AllKinds -> 0 .. Stopped]]
    BY <1>2, <1>5, <2>1 DEF Abort
  <2>6. tries' \in [MatchIds -> 0 .. MaxRetries]
    BY <1>5 DEF Abort
  <2>3. TypeOK'
    BY <1>5, <2>2, <2>6 DEF Abort, tables, matchVars
  <2>4. MadeInv'
    BY <1>5 DEF Abort, Start, tables, matchVars, MadeInv, Made
  <2>5. QED
    BY <2>3, <2>4
<1>6. ASSUME NEW m \in MatchIds, Expire(m) PROVE TypeInv'
  <2>1. "expire" \in Kinds
    BY <1>6 DEF Expire, Start
  <2>2. job' \in [MatchIds -> [AllKinds -> 0 .. Stopped]]
    BY <1>2, <1>6, <2>1 DEF Expire
  <2>6. loads' \in [MatchIds -> 0 .. MaxLoads]
    BY <1>6 DEF Expire
  <2>3. TypeOK'
    BY <1>6, <2>2, <2>6 DEF Expire, tables, matchVars
  <2>4. MadeInv'
    BY <1>6 DEF Expire, Start, tables, matchVars, MadeInv, Made
  <2>5. QED
    BY <2>3, <2>4
<1>7. ASSUME NEW m \in MatchIds, NEW k \in Kinds, Step(m, k) PROVE TypeInv'
  <2>1. Running(m, k)
    BY <1>7 DEF Step
  <2>2. /\ players[m][1] \in Users /\ players[m][2] \in Users
        /\ job[m][k] + 1 \in 0 .. Stopped
    BY <2>1, RunningIsMade
  <2>3. PICK op : Write(m, op)
    BY <1>7 DEF Step
  <2>4. /\ userMatch' \in [Users -> MatchIds \cup {NoMatch}]
        /\ active' \subseteq active
        /\ conversations' \subseteq MatchIds
        /\ records' \in [MatchIds -> Nat]
        /\ results' \subseteq Users \X MatchIds
        /\ rating' \in [Users -> SUBSET MatchIds]
    BY <2>2, <2>3, WriteType
  <2>5. TypeOK'
    BY <1>7, <2>2, <2>4 DEF Step, matchVars, serverVars
  <2>6. MadeInv'
    BY <1>7, <2>2, <2>4 DEF Step, matchVars, serverVars, MadeInv, Made
  <2>7. QED
    BY <2>5, <2>6
<1>8. ASSUME NEW m \in MatchIds, NEW k \in Kinds, Fail(m, k) PROVE TypeInv'
  <2>1. Running(m, k) /\ UNCHANGED <<tables, matchVars, serverVars>>
    BY <1>8 DEF Fail
  <2>2. players[m][1] \in Users /\ players[m][2] \in Users
    BY <2>1, RunningIsMade
  <2>9. failures' \in 0 .. MaxFailures
    BY <1>8 DEF Fail
  <2>3. job' \in [MatchIds -> [AllKinds -> 0 .. Stopped]]
    <3>1. Start(m, k) \/ job' = [job EXCEPT ![m][k] = Stopped]
      BY <1>8 DEF Fail
    <3>2. ASSUME job' = [job EXCEPT ![m][k] = Stopped]
          PROVE  job' \in [MatchIds -> [AllKinds -> 0 .. Stopped]]
      BY <3>2 DEF Stopped
    <3>3. QED
      BY <1>2, <3>1, <3>2
  <2>4. tries' \in [MatchIds -> 0 .. MaxRetries]
    <3>1. \/ tries[m] < MaxRetries /\ tries' = [tries EXCEPT ![m] = tries[m] + 1]
          \/ tries' = tries
      BY <1>8 DEF Fail
    <3>2. CASE tries[m] < MaxRetries /\ tries' = [tries EXCEPT ![m] = tries[m] + 1]
      <4>1. tries \in [MatchIds -> 0 .. MaxRetries] /\ MaxRetries \in Nat
        OBVIOUS
      <4>2. tries[m] + 1 \in 0 .. MaxRetries
        BY <3>2, <4>1
      <4>3. QED
        BY <3>2, <4>1, <4>2
    <3>3. QED
      BY <3>1, <3>2
  <2>5. TypeOK'
    BY <2>1, <2>3, <2>4, <2>9 DEF tables, matchVars, serverVars
  <2>6. \A n \in MatchIds : n # m => job'[n] = job[n]
    BY <1>8 DEF Fail, Start
  <2>7. MadeInv'
    <3>1. /\ players' = players /\ active' = active /\ phase' = phase
          /\ loads' = loads
      BY <2>1 DEF tables, matchVars, serverVars
    <3>2. players[m][1] # players[m][2]
      BY <2>2, ConstantsAssumption DEF MadeInv, Made
    <3>3. ASSUME NEW n \in MatchIds
          PROVE  \/ players[n][1] \in Users /\ players[n][2] \in Users
                    /\ players[n][1] # players[n][2]
                 \/ /\ ~Made(n)
                    /\ n \notin active /\ phase[n] = "idle" /\ loads[n] = 0
                    /\ \A l \in AllKinds : job'[n][l] = 0
      BY <2>2, <2>6, <3>2 DEF MadeInv
    <3>4. QED
      BY <3>1, <3>3 DEF MadeInv, Made
  <2>8. QED
    BY <2>5, <2>7
<1>9. ASSUME Crash PROVE TypeInv'
  BY <1>9 DEF Crash, tables, matchVars, jobVars, MadeInv, Made
<1>10. QED
  BY <1>1, <1>3, <1>4, <1>5, <1>6, <1>7, <1>8, <1>9 DEF SettlementNext

(* So does making a match. *)
LEMMA TypeMake ==
  ASSUME TypeInv, NEW m \in MatchIds, NEW u \in Users, NEW v \in Users,
         Make(m, u, v)
  PROVE  TypeInv'
<1> USE ConstantsAssumption DEF TypeInv, TypeOK, Make, serverVars, jobVars
<1>7. <<u, v>> \in [Seats -> Users \cup {NoUser}]
      /\ <<rating[u], rating[v]>> \in [Seats -> SUBSET MatchIds]
  BY DEF Seats
<1>1. /\ players' \in [MatchIds -> [Seats -> Users \cup {NoUser}]]
      /\ base' \in [MatchIds -> [Seats -> SUBSET MatchIds]]
  BY <1>7
<1>8. userMatch' \in [Users -> MatchIds \cup {NoMatch}]
  OBVIOUS
<1>2. TypeOK'
  BY <1>1, <1>8
<1>3. \A n \in MatchIds : n # m => players'[n] = players[n] /\ (n \in active' <=> n \in active)
  OBVIOUS
<1>4. players'[m][1] = u /\ players'[m][2] = v
  OBVIOUS
<1>5. MadeInv'
  BY <1>3, <1>4 DEF MadeInv, Made
<1>6. QED
  BY <1>2, <1>5

(* Every reachable state has the type TypeOK gives it, and functions work  *)
(* on matches that were made.                                              *)
THEOREM TypeInvariant == Spec => []TypeInv
<1>1. Init => TypeInv
  BY ConstantsAssumption
     DEF Init, TypeInv, TypeOK, MadeInv, Made, Seats, Phases, AllKinds, Stopped
<1>2. ASSUME TypeInv, [Next]_settlementVars PROVE TypeInv'
  <2>1. ASSUME NEW m \in MatchIds, NEW u \in Users, NEW v \in Users, Make(m, u, v)
        PROVE TypeInv'
    BY <1>2, <2>1, TypeMake
  <2>2. CASE SettlementNext
    BY <1>2, <2>2, TypeStep
  <2>3. CASE UNCHANGED settlementVars
    BY <1>2, <2>3 DEF settlementVars, tables, matchVars, serverVars, jobVars,
                      TypeInv, TypeOK, MadeInv, Made
  <2>4. QED
    BY <1>2, <2>1, <2>2, <2>3 DEF Next
<1>3. QED
  BY <1>1, <1>2, PTL DEF Spec

THEOREM TypeCorrect == Spec => []TypeOK
<1>1. TypeInv => TypeOK
  BY DEF TypeInv
<1>2. QED
  BY <1>1, TypeInvariant, PTL

(***************************************************************************)
(* What a step of a function, and any other step, does to the tables.      *)
(***************************************************************************)

LEMMA Positions ==
  ASSUME NEW k \in Kinds, NEW j \in DOMAIN Program[k]
  PROVE  /\ Program[k][j] = "free1" => <<k, j>> \in {<<"end", 1>>, <<"abort", 3>>, <<"expire", 2>>}
         /\ Program[k][j] = "free2" => <<k, j>> \in {<<"end", 2>>, <<"abort", 4>>, <<"expire", 3>>}
         /\ Program[k][j] = "row" => <<k, j>> \in {<<"end", 3>>, <<"abort", 1>>, <<"expire", 1>>}
         /\ Program[k][j] = "record" => k = "end" /\ j = 4
         /\ Program[k][j] \in {"rate1", "rate2", "result1", "result2"} => k = "end" /\ j \in 5 .. 8
<1>1. CASE k = "end"
  <2>1. j \in 1 .. 9
    BY <1>1, Programs
  <2>2. j = 1 \/ j = 2 \/ j = 3 \/ j = 4 \/ j = 5 \/ j = 6 \/ j = 7 \/ j = 8 \/ j = 9
    BY <2>1
  <2>3. QED
    BY <1>1, <2>2, Programs
<1>2. CASE k = "abort" \/ k = "expire"
  <2>1. j \in 1 .. 4
    BY <1>2, Programs
  <2>2. j = 1 \/ j = 2 \/ j = 3 \/ j = 4
    BY <2>1
  <2>3. QED
    BY <1>2, <2>2, Programs
<1>3. QED
  BY <1>1, <1>2, ConstantsAssumption

(* The write of a step, and where the job is after it. *)
LEMMA StepIsWrite ==
  ASSUME TypeInv, NEW m \in MatchIds, NEW k \in Kinds, Step(m, k)
  PROVE  /\ k \in AllKinds /\ job[m][k] \in DOMAIN Program[k]
         /\ job[m][k] \in 1 .. 9
         /\ Write(m, Program[k][job[m][k]])
         /\ job'[m][k] = job[m][k] + 1
         /\ \A n \in MatchIds, l \in AllKinds :
              n # m \/ l # k => job'[n][l] = job[n][l]
         /\ UNCHANGED <<matchVars, serverVars>>
         /\ players[m][1] \in Users /\ players[m][2] \in Users
<1>1. k \in AllKinds
  BY ConstantsAssumption DEF AllKinds
<1>2. Running(m, k) /\ job' = [job EXCEPT ![m][k] = @ + 1]
  BY DEF Step
<1>3. job \in [MatchIds -> [AllKinds -> 0 .. Stopped]]
  BY DEF TypeInv, TypeOK
<1>4. job[m][k] \in 1 .. 9
  BY <1>1, <1>2, Programs DEF Running, AllKinds
<1>5. players[m][1] \in Users /\ players[m][2] \in Users
  BY <1>2, RunningIsMade
<1>6. job'[m][k] = job[m][k] + 1
      /\ \A n \in MatchIds, l \in AllKinds : n # m \/ l # k => job'[n][l] = job[n][l]
  BY <1>1, <1>2, <1>3
<1>7. QED
  BY <1>1, <1>2, <1>4, <1>5, <1>6 DEF Step, Running

(* Who changes what: marks are only taken off, rows only dropped, and only *)
(* endGame records, rates and stores results.                              *)
LEMMA Effects ==
  ASSUME TypeInv, NEW m \in MatchIds, NEW k \in Kinds, Step(m, k)
  PROVE  /\ \/ userMatch' = userMatch
            \/ /\ userMatch' = [userMatch EXCEPT ![players[m][1]] = NoMatch]
               /\ <<k, job[m][k]>> \in {<<"end", 1>>, <<"abort", 3>>, <<"expire", 2>>}
            \/ /\ userMatch' = [userMatch EXCEPT ![players[m][2]] = NoMatch]
               /\ <<k, job[m][k]>> \in {<<"end", 2>>, <<"abort", 4>>, <<"expire", 3>>}
         /\ \/ active' = active
            \/ /\ active' = active \ {m}
               /\ <<k, job[m][k]>> \in {<<"end", 3>>, <<"abort", 1>>, <<"expire", 1>>}
         /\ \/ records' = records
            \/ /\ records' = [records EXCEPT ![m] = @ + 1]
               /\ k = "end" /\ job[m][k] = 4
         /\ \/ rating' = rating /\ results' = results
            \/ /\ k = "end" /\ job[m][k] \in 5 .. 8
               /\ \E i \in Seats :
                    \/ /\ rating' = [rating EXCEPT ![players[m][i]] = base[m][i] \cup {m}]
                       /\ results' = results
                    \/ rating' = rating /\ results' = results \cup {<<players[m][i], m>>}
<1> DEFINE op == Program[k][job[m][k]]
<1>1. job[m][k] \in DOMAIN Program[k] /\ Write(m, op)
  BY StepIsWrite
<1> HIDE DEF op
<1>2. /\ op = "free1" => <<k, job[m][k]>> \in {<<"end", 1>>, <<"abort", 3>>, <<"expire", 2>>}
      /\ op = "free2" => <<k, job[m][k]>> \in {<<"end", 2>>, <<"abort", 4>>, <<"expire", 3>>}
      /\ op = "row" => <<k, job[m][k]>> \in {<<"end", 3>>, <<"abort", 1>>, <<"expire", 1>>}
      /\ op = "record" => k = "end" /\ job[m][k] = 4
      /\ op \in {"rate1", "rate2", "result1", "result2"} => k = "end" /\ job[m][k] \in 5 .. 8
  BY <1>1, Positions DEF op
<1>3. CASE op = "free1" /\ Free(m, 1)
  BY <1>2, <1>3 DEF Free
<1>4. CASE op = "free2" /\ Free(m, 2)
  BY <1>2, <1>4 DEF Free
<1>5. CASE op = "row" /\ DropRow(m)
  BY <1>2, <1>5 DEF DropRow
<1>6. CASE op = "conversation" /\ DropConversation(m)
  BY <1>6 DEF DropConversation
<1>7. CASE op = "record" /\ Record(m)
  BY <1>2, <1>7 DEF Record
<1>8. CASE (op = "rate1" /\ Rate(m, 1)) \/ (op = "rate2" /\ Rate(m, 2))
  BY <1>2, <1>8 DEF Rate, Seats
<1>9. CASE (op = "result1" /\ Result(m, 1)) \/ (op = "result2" /\ Result(m, 2))
  BY <1>2, <1>9 DEF Result, Seats
<1>10. \/ op = "free1" /\ Free(m, 1)
       \/ op = "free2" /\ Free(m, 2)
       \/ op = "row" /\ DropRow(m)
       \/ op = "conversation" /\ DropConversation(m)
       \/ op = "record" /\ Record(m)
       \/ (op = "rate1" /\ Rate(m, 1)) \/ (op = "rate2" /\ Rate(m, 2))
       \/ (op = "result1" /\ Result(m, 1)) \/ (op = "result2" /\ Result(m, 2))
  BY <1>1 DEF Write
<1>11. QED
  BY <1>3, <1>4, <1>5, <1>6, <1>7, <1>8, <1>9, <1>10

(* Every other step leaves the tables alone, and starts or stops jobs. *)
LEMMA OtherSteps ==
  ASSUME TypeInv, SettlementNext,
         ~ \E m \in MatchIds, k \in Kinds : Step(m, k)
  PROVE  /\ UNCHANGED <<tables, matchVars>>
         /\ \A m \in MatchIds, k \in AllKinds : job'[m][k] \in {job[m][k], 1, Stopped}
<1> USE DEF AllKinds
<1>1. job \in [MatchIds -> [AllKinds -> 0 .. Stopped]]
  BY DEF TypeInv, TypeOK
<1>2. ASSUME NEW m \in MatchIds, NEW k, Start(m, k) \/ job' = [job EXCEPT ![m][k] = Stopped]
      PROVE  \A n \in MatchIds, l \in AllKinds : job'[n][l] \in {job[n][l], 1, Stopped}
  BY <1>1, <1>2 DEF Start
<1>3. ASSUME NEW m \in MatchIds, Load(m) \/ EndReturns(m) \/ Crash
      PROVE  UNCHANGED <<tables, matchVars>> /\ job' = job
  BY <1>3 DEF Load, EndReturns, Crash, jobVars
<1>4. ASSUME NEW m \in MatchIds, End(m) \/ Abort(m) \/ Expire(m)
      PROVE  /\ UNCHANGED <<tables, matchVars>>
             /\ \E k \in Kinds : Start(m, k)
  BY <1>4 DEF End, Abort, Expire, Start
<1>5. ASSUME NEW m \in MatchIds, NEW k \in Kinds, Fail(m, k)
      PROVE  /\ UNCHANGED <<tables, matchVars>>
             /\ Start(m, k) \/ job' = [job EXCEPT ![m][k] = Stopped]
  BY <1>5 DEF Fail
<1>6. ASSUME Crash PROVE UNCHANGED <<tables, matchVars>> /\ job' = job
  BY <1>6 DEF Crash, jobVars
<1>7. QED
  BY <1>2, <1>3, <1>4, <1>5, <1>6 DEF SettlementNext

(* The positions of endGame and removeExpiredMatch whose write matters.    *)
LEMMA EffectsAt ==
  ASSUME TypeInv, NEW m \in MatchIds, NEW k \in Kinds, Step(m, k)
  PROVE  /\ k = "end" /\ job[m][k] = 1 => Free(m, 1)
         /\ k = "end" /\ job[m][k] = 2 => Free(m, 2)
         /\ k = "end" /\ job[m][k] = 3 => DropRow(m)
         /\ k = "end" /\ job[m][k] = 4 => Record(m)
         /\ k = "expire" /\ job[m][k] = 1 => DropRow(m)
<1>1. Write(m, Program[k][job[m][k]])
  BY StepIsWrite
<1>2. ASSUME Write(m, "free1") PROVE Free(m, 1)
  BY <1>2 DEF Write
<1>3. ASSUME Write(m, "free2") PROVE Free(m, 2)
  BY <1>3 DEF Write
<1>4. ASSUME Write(m, "row") PROVE DropRow(m)
  BY <1>4 DEF Write
<1>5. ASSUME Write(m, "record") PROVE Record(m)
  BY <1>5 DEF Write
<1>6. QED
  BY <1>1, <1>2, <1>3, <1>4, <1>5, Programs

(***************************************************************************)
(* What is counted is recorded.                                            *)
(***************************************************************************)

(* The ratings a match was made with count recorded matches too, and       *)
(* endGame has recorded its match when it comes to rate.                   *)
RecordInv ==
  /\ \A n \in MatchIds, u \in Users :
       n \in rating[u] \/ <<u, n>> \in results => records[n] > 0
  /\ \A n, m \in MatchIds, i \in Seats : n \in base[m][i] => records[n] > 0
  /\ \A m \in MatchIds : job[m].end \in 5 .. 10 => records[m] > 0

LEMMA RecordStep ==
  ASSUME TypeInv, RecordInv, SettlementNext
  PROVE  RecordInv'
<1> USE DEF AllKinds
<1>1. ASSUME NEW m \in MatchIds, NEW k \in Kinds, Step(m, k) PROVE RecordInv'
  <2>1. /\ records \in [MatchIds -> Nat] /\ rating \in [Users -> SUBSET MatchIds]
        /\ job \in [MatchIds -> [AllKinds -> 0 .. Stopped]]
    BY DEF TypeInv, TypeOK
  <2>2. /\ k \in AllKinds /\ job'[m][k] = job[m][k] + 1
        /\ \A n \in MatchIds, l \in AllKinds : n # m \/ l # k => job'[n][l] = job[n][l]
        /\ base' = base /\ players' = players
        /\ players[m][1] \in Users /\ players[m][2] \in Users
    BY <1>1, StepIsWrite DEF matchVars
  <2>3. records' = records \/ records' = [records EXCEPT ![m] = @ + 1]
    BY <1>1, Effects
  <2>4. \A n \in MatchIds : records[n] > 0 => records'[n] > 0
    BY <2>1, <2>3
  <2>5. ASSUME NEW n \in MatchIds, NEW u \in Users,
               n \in rating'[u] \/ <<u, n>> \in results'
        PROVE  records'[n] > 0
    <3>1. CASE rating' = rating /\ results' = results
      BY <2>4, <2>5, <3>1 DEF RecordInv
    <3>2. ASSUME NEW i \in Seats, k = "end", job[m][k] \in 5 .. 8,
                 \/ /\ rating' = [rating EXCEPT ![players[m][i]] = base[m][i] \cup {m}]
                    /\ results' = results
                 \/ rating' = rating /\ results' = results \cup {<<players[m][i], m>>}
          PROVE  records'[n] > 0
      <4>1. records[m] > 0
        BY <3>2 DEF RecordInv
      <4>2. \/ n = m \/ n \in rating[u] \/ <<u, n>> \in results
            \/ n \in base[m][i]
        BY <2>1, <2>5, <3>2
      <4>3. QED
        BY <2>4, <4>1, <4>2 DEF RecordInv
    <3>3. QED
      BY <1>1, <3>1, <3>2, Effects
  <2>6. ASSUME NEW n \in MatchIds, job'[n].end \in 5 .. 10 PROVE records'[n] > 0
    <3>1. CASE n = m /\ k = "end" /\ job[m].end = 4
      BY <1>1, <2>1, <3>1, EffectsAt DEF Record
    <3>2. CASE ~ (n = m /\ k = "end" /\ job[m].end = 4)
      <4>1. job[n].end \in 5 .. 10
        <5>1. CASE n = m /\ k = "end"
          <6>1. job[m].end \in 1 .. 9
            BY <1>1, <5>1, StepIsWrite
          <6>2. QED
            BY <2>2, <2>6, <3>2, <5>1, <6>1
        <5>2. CASE ~ (n = m /\ k = "end")
          BY <2>2, <2>6, <5>2
        <5>3. QED
          BY <5>1, <5>2
      <4>2. QED
        BY <2>4, <4>1 DEF RecordInv
    <3>3. QED
      BY <3>1, <3>2
  <2>7. QED
    BY <2>2, <2>4, <2>5, <2>6 DEF RecordInv
<1>2. CASE ~ \E m \in MatchIds, k \in Kinds : Step(m, k)
  <2>1. /\ UNCHANGED <<tables, matchVars>>
        /\ \A m \in MatchIds : job'[m].end \in {job[m].end, 1, Stopped}
    BY <1>2, OtherSteps
  <2>2. \A m \in MatchIds : job'[m].end \in 5 .. 10 => job[m].end \in 5 .. 10
    BY <2>1 DEF Stopped
  <2>3. QED
    BY <2>1, <2>2 DEF RecordInv, tables, matchVars
<1>3. QED
  BY <1>1, <1>2

LEMMA RecordMake ==
  ASSUME TypeInv, RecordInv, NEW m \in MatchIds, NEW u \in Users, NEW v \in Users,
         Make(m, u, v)
  PROVE  RecordInv'
<1>1. /\ records' = records /\ rating' = rating /\ results' = results /\ job' = job
      /\ base' = [base EXCEPT ![m] = <<rating[u], rating[v]>>]
  BY DEF Make, jobVars
<1>2. ASSUME NEW n \in MatchIds, NEW l \in MatchIds, NEW i \in Seats, n \in base'[l][i]
      PROVE  records[n] > 0
  <2>1. n \in base[l][i] \/ n \in rating[u] \/ n \in rating[v]
    BY <1>1, <1>2 DEF TypeInv, TypeOK, Seats
  <2>2. QED
    BY <2>1 DEF RecordInv
<1>3. QED
  BY <1>1, <1>2 DEF RecordInv

(* What a rating counts and a result list shows has a record to open, in   *)
(* every reachable state: wherever endGame stops, however often it runs.   *)
THEOREM RecordCorrect == Spec => []CountedIsRecorded
<1>1. Init => RecordInv
  BY DEF Init, RecordInv, Seats, AllKinds
<1>2. ASSUME TypeInv, RecordInv, [Next]_settlementVars PROVE RecordInv'
  <2>1. CASE UNCHANGED settlementVars
    BY <1>2, <2>1 DEF settlementVars, tables, matchVars, jobVars, RecordInv
  <2>2. QED
    BY <1>2, <2>1, RecordStep, RecordMake DEF Next
<1>3. RecordInv => CountedIsRecorded
  BY DEF RecordInv, CountedIsRecorded
<1>4. QED
  BY <1>1, <1>2, <1>3, TypeInvariant, PTL DEF Spec

(***************************************************************************)
(* No player of a match that is gone stays marked with it.                 *)
(***************************************************************************)

Undropped(m) == m \in active \/ job[m].abort # 0 \/ job[m].expire # 0

(* Only the players of a match are marked with it, endGame takes its marks *)
(* off one after the other, and its row goes last.                         *)
LockOf(m) ==
  /\ \A u \in Users : userMatch[u] = m => u = players[m][1] \/ u = players[m][2]
  /\ job[m].end \in 2 .. 10 => userMatch[players[m][1]] # m
  /\ job[m].end \in 3 .. 10 => userMatch[players[m][2]] # m
  /\ ~Undropped(m) => MarkedWith(m) = {}

LockInv == \A m \in MatchIds : Made(m) => LockOf(m)

(* Make is the only step that marks a user here: there are no marks but of *)
(* matches that are made.                                                  *)
OnlyMade == \A m \in MatchIds, u \in Users : userMatch[u] = m => Made(m)

LEMMA LockStep ==
  ASSUME TypeInv, LockInv, SettlementNext
  PROVE  LockInv'
<1> USE DEF AllKinds
<1> SUFFICES ASSUME NEW n \in MatchIds, Made(n)' PROVE LockOf(n)'
  BY DEF LockInv
<1>4. players' = players /\ Made(n)
  <2>1. players' = players
    BY DEF SettlementNext, Load, End, EndReturns, Abort, Expire, Step, Fail,
           Crash, matchVars
  <2>2. QED
    BY <2>1 DEF Made
<1>0. /\ LockOf(n)
      /\ userMatch \in [Users -> MatchIds \cup {NoMatch}] /\ active \subseteq MatchIds
      /\ NoMatch \notin MatchIds
      /\ job \in [MatchIds -> [AllKinds -> 0 .. Stopped]]
      /\ players[n][1] \in Users /\ players[n][2] \in Users
  BY <1>4, ConstantsAssumption DEF LockInv, Made, TypeInv, TypeOK, MadeInv
<1>1. ASSUME NEW m \in MatchIds, NEW k \in Kinds, Step(m, k) PROVE LockOf(n)'
  <2>1. /\ k \in AllKinds /\ job'[m][k] = job[m][k] + 1 /\ job[m][k] \in 1 .. 9
        /\ \A l \in AllKinds : n # m \/ l # k => job'[n][l] = job[n][l]
        /\ players' = players
        /\ players[m][1] \in Users /\ players[m][2] \in Users
    BY <1>1, StepIsWrite DEF matchVars
  <2>3. \A u \in Users : userMatch'[u] = userMatch[u] \/ userMatch'[u] = NoMatch
    BY <1>0, <1>1, <2>1, Effects
  <2>4. \A u \in Users : userMatch'[u] = n => userMatch[u] = n
    BY <1>0, <2>3
  <2>5. ASSUME job'[n].end \in 2 .. 10 PROVE userMatch'[players[n][1]] # n
    <3>1. CASE n = m /\ k = "end" /\ job[n].end = 1
      BY <1>0, <1>1, <2>1, <3>1, EffectsAt DEF Free
    <3>2. CASE ~ (n = m /\ k = "end" /\ job[n].end = 1)
      BY <1>0, <2>1, <2>4, <2>5, <3>2 DEF LockOf
    <3>3. QED
      BY <3>1, <3>2
  <2>6. ASSUME job'[n].end \in 3 .. 10 PROVE userMatch'[players[n][2]] # n
    <3>1. CASE n = m /\ k = "end" /\ job[n].end = 2
      BY <1>0, <1>1, <2>1, <3>1, EffectsAt DEF Free
    <3>2. CASE ~ (n = m /\ k = "end" /\ job[n].end = 2)
      BY <1>0, <2>1, <2>4, <2>6, <3>2 DEF LockOf
    <3>3. QED
      BY <3>1, <3>2
  <2>7. ASSUME ~Undropped(n)' PROVE MarkedWith(n)' = {}
    <3>1. job[n].abort = 0 /\ job[n].expire = 0
      BY <1>0, <2>1, <2>7 DEF Undropped
    <3>2. CASE n \notin active
      BY <1>0, <2>4, <3>1, <3>2 DEF Undropped, LockOf, MarkedWith
    <3>3. CASE n \in active
      <4>1. n = m /\ k = "end" /\ job[n].end = 3
        <5>1. active' = active \ {m}
              /\ <<k, job[m][k]>> \in {<<"end", 3>>, <<"abort", 1>>, <<"expire", 1>>}
          BY <1>1, <2>7, <3>3, Effects DEF Undropped
        <5>2. n = m
          BY <2>7, <3>3, <5>1 DEF Undropped
        <5>3. QED
          BY <3>1, <5>1, <5>2
      <4>2. userMatch[players[n][1]] # n /\ userMatch[players[n][2]] # n
        BY <1>0, <2>1, <4>1 DEF LockOf, Made, MadeInv
      <4>3. \A u \in Users : userMatch[u] # n
        BY <1>0, <4>2 DEF LockOf
      <4>4. QED
        BY <2>4, <4>3 DEF MarkedWith
    <3>4. QED
      BY <3>2, <3>3
  <2>8. QED
    BY <1>0, <1>4, <2>4, <2>5, <2>6, <2>7 DEF LockOf
<1>2. CASE ~ \E m \in MatchIds, k \in Kinds : Step(m, k)
  <2>1. /\ UNCHANGED <<tables, matchVars>>
        /\ \A l \in AllKinds : job'[n][l] \in {job[n][l], 1, Stopped}
    BY <1>2, OtherSteps
  <2>2. /\ userMatch' = userMatch /\ active' = active /\ players' = players
        /\ \A l \in AllKinds : job'[n][l] = 0 => job[n][l] = 0
        /\ job'[n].end \in 2 .. 10 => job'[n].end = job[n].end
    BY <2>1 DEF tables, matchVars, Stopped
  <2>3. Undropped(n) => Undropped(n)'
    BY <2>2 DEF Undropped
  <2>4. QED
    BY <1>0, <2>2, <2>3 DEF LockOf, MarkedWith
<1>3. QED
  BY <1>1, <1>2

LEMMA OnlyMadeStep ==
  ASSUME TypeInv, OnlyMade, SettlementNext
  PROVE  OnlyMade'
<1>1. players' = players
  BY DEF SettlementNext, Load, End, EndReturns, Abort, Expire, Step, Fail,
         Crash, matchVars
<1>2. userMatch \in [Users -> MatchIds \cup {NoMatch}] /\ NoMatch \notin MatchIds
  BY ConstantsAssumption DEF TypeInv, TypeOK
<1>3. \A u \in Users : userMatch'[u] = userMatch[u] \/ userMatch'[u] = NoMatch
  <2>1. ASSUME NEW m \in MatchIds, NEW k \in Kinds, Step(m, k)
        PROVE  \A u \in Users : userMatch'[u] = userMatch[u] \/ userMatch'[u] = NoMatch
    BY <1>2, <2>1, Effects
  <2>2. CASE ~ \E m \in MatchIds, k \in Kinds : Step(m, k)
    BY <2>2, OtherSteps DEF tables
  <2>3. QED
    BY <2>1, <2>2
<1>4. QED
  BY <1>1, <1>2, <1>3 DEF OnlyMade, Made

LEMMA LockMake ==
  ASSUME TypeInv, LockInv, OnlyMade, NEW m \in MatchIds, NEW u \in Users, NEW v \in Users,
         Make(m, u, v)
  PROVE  LockInv' /\ OnlyMade'
<1> USE DEF AllKinds
<1>0. /\ userMatch \in [Users -> MatchIds \cup {NoMatch}]
      /\ NoMatch \notin MatchIds /\ NoUser \notin Users
      /\ players \in [MatchIds -> [Seats -> Users \cup {NoUser}]]
      /\ job' = job
  BY ConstantsAssumption DEF TypeInv, TypeOK, Make, jobVars
<1>1. /\ userMatch[u] = NoMatch /\ userMatch[v] = NoMatch /\ u # v
      /\ userMatch' = [userMatch EXCEPT ![u] = m, ![v] = m]
      /\ players' = [players EXCEPT ![m] = <<u, v>>]
      /\ active' = active \cup {m}
      /\ ~Made(m)
  BY ConstantsAssumption DEF Make, Made
<1>2. players'[m][1] = u /\ players'[m][2] = v
  BY <1>0, <1>1
<1>3. \A w \in Users : userMatch[w] # m
  BY <1>1 DEF OnlyMade
<1>4. LockOf(m)'
  <2>1. job[m].end = 0
    BY <1>1, ConstantsAssumption DEF TypeInv, MadeInv, Made
  <2>2. \A w \in Users : userMatch'[w] = m => w = u \/ w = v
    BY <1>0, <1>1, <1>3
  <2>3. m \in active'
    BY <1>1
  <2>4. QED
    BY <1>0, <1>2, <2>1, <2>2, <2>3 DEF LockOf, Undropped
<1>5. ASSUME NEW n \in MatchIds, n # m, Made(n)' PROVE LockOf(n)'
  <2>1. players'[n] = players[n] /\ (n \in active' <=> n \in active)
    BY <1>0, <1>1, <1>5
  <2>2. Made(n) /\ LockOf(n)
    BY <1>5, <2>1 DEF Made, LockInv
  <2>3. \A w \in Users : userMatch'[w] = n => userMatch[w] = n
    BY <1>0, <1>1, <1>5
  <2>4. players[n][1] \in Users /\ players[n][2] \in Users
    BY <2>2 DEF TypeInv, MadeInv
  <2>5. QED
    BY <1>0, <2>1, <2>2, <2>3, <2>4 DEF LockOf, MarkedWith, Undropped
<1>6. OnlyMade'
  <2>1. ASSUME NEW n \in MatchIds, NEW w \in Users, userMatch'[w] = n PROVE Made(n)'
    <3>1. CASE n = m
      BY <1>0, <1>2, <3>1 DEF Made
    <3>2. CASE n # m
      BY <1>0, <1>1, <2>1, <3>2 DEF OnlyMade, Made
    <3>3. QED
      BY <3>1, <3>2
  <2>2. QED
    BY <2>1 DEF OnlyMade
<1>7. QED
  BY <1>4, <1>5, <1>6 DEF LockInv

(* Wherever endGame fails and however often it is called, a match only it  *)
(* worked on has freed its players when its row is gone.                   *)
THEOREM LockCorrect == Spec => []EndNeverLocksOut
<1>1. Init => LockInv /\ OnlyMade
  BY ConstantsAssumption DEF Init, LockInv, OnlyMade, Made, Seats
<1>2. ASSUME TypeInv, LockInv /\ OnlyMade, [Next]_settlementVars
      PROVE  (LockInv /\ OnlyMade)'
  <2>1. CASE UNCHANGED settlementVars
    BY <1>2, <2>1 DEF settlementVars, tables, matchVars, jobVars, LockInv, OnlyMade,
                      LockOf, Made, MarkedWith, Undropped
  <2>2. QED
    BY <1>2, <2>1, LockStep, OnlyMadeStep, LockMake DEF Next
<1>3. LockInv => EndNeverLocksOut
  BY DEF LockInv, LockOf, EndNeverLocksOut, Undropped
<1>4. QED
  BY <1>1, <1>2, <1>3, TypeInvariant, PTL DEF Spec

(***************************************************************************)
(* No match is recorded twice, as long as the server does not crash.       *)
(***************************************************************************)

(* The match is not forgotten while endGame works on it, and endGame       *)
(* records it after it dropped the row without which it is not loaded.     *)
OnceOf(m) ==
  /\ job[m].end \in 1 .. 9 => phase[m] = "ending"
  /\ job[m].end \in 4 .. 10 => m \notin active
  /\ ~Made(m) => records[m] = 0
  /\ \/ records[m] = 0
     \/ /\ records[m] = 1 /\ m \notin active
        /\ phase[m] # "live" /\ job[m].end \notin 1 .. 4
     \/ m \in stale

OnceInv == crashes = 0 => \A m \in MatchIds : OnceOf(m)

LEMMA OnceStep ==
  ASSUME TypeInv, OnceInv, SettlementNext
  PROVE  OnceInv'
<1> USE DEF AllKinds
<1>1. crashes' = 0 => crashes = 0
  <2>1. crashes \in Nat
    BY ConstantsAssumption DEF TypeInv, TypeOK
  <2>2. crashes' = crashes \/ crashes' = crashes + 1
    BY DEF SettlementNext, Load, End, EndReturns, Abort, Expire, Step, Fail,
           Crash, serverVars
  <2>3. QED
    BY <2>1, <2>2
<1> SUFFICES ASSUME crashes' = 0, NEW n \in MatchIds PROVE OnceOf(n)'
  BY DEF OnceInv
<1>2. /\ crashes = 0 /\ OnceOf(n) /\ records \in [MatchIds -> Nat]
      /\ active \subseteq MatchIds /\ phase \in [MatchIds -> Phases]
      /\ job \in [MatchIds -> [AllKinds -> 0 .. Stopped]]
  BY <1>1 DEF OnceInv, TypeInv, TypeOK
<1>12. Made(n)' = Made(n)
  <2>1. players' = players
    BY DEF SettlementNext, Load, End, EndReturns, Abort, Expire, Step, Fail,
           Crash, matchVars
  <2>2. QED
    BY <2>1 DEF Made
<1>13. n \in stale => n \in stale'
  BY DEF SettlementNext, Load, End, EndReturns, Abort, Expire, Step, Fail,
         Crash, serverVars
<1>3. ASSUME NEW m \in MatchIds, NEW k \in Kinds, Step(m, k) PROVE OnceOf(n)'
  <2>1. /\ k \in AllKinds /\ job'[m][k] = job[m][k] + 1 /\ job[m][k] \in 1 .. 9
        /\ \A l \in AllKinds : n # m \/ l # k => job'[n][l] = job[n][l]
        /\ phase' = phase
    BY <1>3, StepIsWrite DEF serverVars
  <2>2. active' = active \/ active' = active \ {m}
    BY <1>3, Effects
  <2>3. /\ n # m \/ k # "end" => job'[n].end = job[n].end
        /\ n = m /\ k = "end" => job[n].end \in 1 .. 9 /\ job'[n].end = job[n].end + 1
    BY <2>1
  <2>4. \/ records' = records
        \/ records' = [records EXCEPT ![m] = @ + 1] /\ k = "end" /\ job[m].end = 4
    BY <1>3, Effects
  <2>5. n = m /\ k = "end" /\ job[n].end = 3 => n \notin active'
    BY <1>3, EffectsAt DEF DropRow
  <2>6. job'[n].end \in 1 .. 9 => phase'[n] = "ending"
    BY <1>2, <2>1, <2>3 DEF OnceOf
  <2>7. job'[n].end \in 4 .. 10 => n \notin active'
    BY <1>2, <2>2, <2>3, <2>5 DEF OnceOf
  <2>8. \/ records'[n] = 0
        \/ /\ records'[n] = 1 /\ n \notin active'
           /\ phase'[n] # "live" /\ job'[n].end \notin 1 .. 4
        \/ n \in stale'
    <3>4. CASE n \in stale
      BY <1>13, <3>4
    <3>1. CASE n \notin stale /\ n = m /\ k = "end" /\ job[n].end = 4
      <4>1. records[n] = 0 /\ phase[n] = "ending" /\ n \notin active
        BY <1>2, <3>1 DEF OnceOf
      <4>2. records'[n] = 1
        BY <1>2, <1>3, <3>1, <4>1, EffectsAt DEF Record
      <4>3. job'[n].end = 5
        BY <2>1, <3>1
      <4>4. QED
        BY <2>1, <2>2, <4>1, <4>2, <4>3
    <3>2. CASE n \notin stale /\ ~ (n = m /\ k = "end" /\ job[n].end = 4)
      <4>1. records'[n] = records[n]
        BY <1>2, <2>4, <3>2
      <4>2. job'[n].end \in 1 .. 4 => job[n].end \in 1 .. 4
        BY <2>3, <3>2
      <4>3. QED
        BY <1>2, <2>1, <2>2, <3>2, <4>1, <4>2 DEF OnceOf
    <3>3. QED
      BY <3>1, <3>2, <3>4
  <2>9. ~Made(n)' => records'[n] = 0
    <3>1. Made(m)
      BY <1>3, StepIsWrite, ConstantsAssumption DEF Made
    <3>2. QED
      BY <1>2, <1>12, <1>13, <2>4, <3>1 DEF OnceOf
  <2>10. QED
    BY <2>6, <2>7, <2>8, <2>9 DEF OnceOf
<1>4. ASSUME NEW m \in MatchIds, Load(m) PROVE OnceOf(n)'
  <2>1. job[m].end \notin 1 .. 9
    <3>1. phase[m] = "idle"
      BY <1>4 DEF Load
    <3>2. QED
      BY <1>2, <3>1 DEF OnceInv, OnceOf
  <2>2. QED
    BY <1>2, <1>12, <1>13, <1>4, <2>1 DEF Load, OnceOf, tables, jobVars
<1>5. ASSUME NEW m \in MatchIds, End(m) PROVE OnceOf(n)'
  <2>1. phase[m] = "live" /\ "end" \in Kinds
    BY <1>5 DEF End, Start
  <2>2. records[m] = 0 \/ m \in stale
    BY <1>2, <2>1 DEF OnceInv, OnceOf
  <2>3. /\ records' = records /\ active' = active
        /\ phase' = [phase EXCEPT ![m] = "ending"] /\ job' = [job EXCEPT ![m]["end"] = 1]
    BY <1>5 DEF End, Start, tables
  <2>4. CASE n = m
    BY <1>2, <1>12, <1>13, <2>2, <2>3, <2>4 DEF OnceOf
  <2>5. CASE n # m
    BY <1>2, <1>12, <1>13, <2>3, <2>5 DEF OnceOf
  <2>6. QED
    BY <2>4, <2>5
<1>6. ASSUME NEW m \in MatchIds, EndReturns(m) PROVE OnceOf(n)'
  <2>1. /\ records' = records /\ active' = active /\ job' = job
        /\ phase' = [phase EXCEPT ![m] = "idle"] /\ ~Running(m, "end")
    BY <1>6 DEF EndReturns, tables, jobVars
  <2>2. job[m].end \notin 1 .. 9
    BY <2>1, Programs DEF Running
  <2>3. QED
    BY <1>2, <1>12, <1>13, <2>1, <2>2 DEF OnceOf
<1>7. ASSUME NEW m \in MatchIds, Abort(m) PROVE OnceOf(n)'
  <2>1. /\ records' = records /\ active' = active /\ phase[m] = "live"
        /\ phase' = [phase EXCEPT ![m] = "idle"] /\ job' = [job EXCEPT ![m]["abort"] = 1]
    BY <1>7 DEF Abort, Start, tables
  <2>2. job'[n].end = job[n].end
    BY <1>2, <2>1
  <2>3. job[m].end \notin 1 .. 9
    BY <1>2, <2>1 DEF OnceInv, OnceOf
  <2>4. QED
    BY <1>2, <1>12, <1>13, <2>1, <2>2, <2>3 DEF OnceOf
<1>8. ASSUME NEW m \in MatchIds, Expire(m) PROVE OnceOf(n)'
  <2>1. /\ records' = records /\ active' = active /\ phase' = phase
        /\ job' = [job EXCEPT ![m]["expire"] = 1]
    BY <1>8 DEF Expire, Start, tables, serverVars
  <2>2. job'[n].end = job[n].end
    BY <1>2, <2>1
  <2>3. QED
    BY <1>2, <1>12, <1>13, <2>1, <2>2 DEF OnceOf
<1>9. ASSUME NEW m \in MatchIds, NEW k \in Kinds, Fail(m, k) PROVE OnceOf(n)'
  <2>1. /\ records' = records /\ active' = active /\ phase' = phase
    BY <1>9 DEF Fail, tables, serverVars
  <2>2. k = "end" => job' = [job EXCEPT ![m]["end"] = Stopped]
    BY <1>9 DEF Fail
  <2>3. k # "end" => job' = [job EXCEPT ![m][k] = 1] \/ job' = [job EXCEPT ![m][k] = Stopped]
    BY <1>9 DEF Fail, Start
  <2>4. job'[n].end = job[n].end \/ job'[n].end = 11
    BY <1>2, <2>2, <2>3, ConstantsAssumption DEF Stopped
  <2>5. QED
    BY <1>2, <1>12, <1>13, <2>1, <2>4 DEF OnceOf
<1>10. ~Crash
  BY <1>1, <1>2, ConstantsAssumption DEF Crash
<1>11. QED
  BY <1>3, <1>4, <1>5, <1>6, <1>7, <1>8, <1>9, <1>10 DEF SettlementNext

LEMMA OnceMake ==
  ASSUME TypeInv, OnceInv, NEW m \in MatchIds, NEW u \in Users, NEW v \in Users,
         Make(m, u, v)
  PROVE  OnceInv'
<1> USE DEF AllKinds
<1>1. /\ records' = records /\ active' = active \cup {m} /\ job' = job
      /\ phase' = phase /\ crashes' = crashes /\ stale' = stale
  BY DEF Make, serverVars, jobVars
<1>2. job[m].end = 0 /\ ~Made(m)
  BY ConstantsAssumption DEF Make, TypeInv, MadeInv, Made
<1>3. \A n \in MatchIds : n # m => players'[n] = players[n]
  BY DEF Make, TypeInv, TypeOK
<1>4. ASSUME crashes = 0, NEW n \in MatchIds PROVE OnceOf(n)'
  <2>1. OnceOf(n)
    BY <1>4 DEF OnceInv
  <2>2. CASE n = m
    BY <1>1, <1>2, <2>1, <2>2 DEF OnceOf
  <2>3. CASE n # m
    <3>1. (n \in active' <=> n \in active) /\ Made(n)' = Made(n)
      BY <1>1, <1>3, <2>3 DEF Made
    <3>2. QED
      BY <1>1, <2>1, <3>1 DEF OnceOf
  <2>4. QED
    BY <2>2, <2>3
<1>5. QED
  BY <1>1, <1>4 DEF OnceInv

(* A match is recorded at most once although a failed endGame lets it be   *)
(* loaded, played and ended again: true of any number of loads, failures   *)
(* and retries, as long as the server does not crash.                      *)
THEOREM OnceCorrect == Spec => []RecordedOnce
<1>1. Init => OnceInv
  BY DEF Init, OnceInv, OnceOf, AllKinds
<1>2. ASSUME TypeInv, OnceInv, [Next]_settlementVars PROVE OnceInv'
  <2>1. CASE UNCHANGED settlementVars
    BY <1>2, <2>1 DEF settlementVars, tables, matchVars, serverVars, jobVars,
                      OnceInv, OnceOf, Made
  <2>2. QED
    BY <1>2, <2>1, OnceStep, OnceMake DEF Next
<1>3. OnceInv => RecordedOnce
  BY DEF OnceInv, OnceOf, RecordedOnce
<1>4. QED
  BY <1>1, <1>2, <1>3, TypeInvariant, PTL DEF Spec

(***************************************************************************)
(* The players of a live match stay marked with it.                        *)
(***************************************************************************)

(* The function that works on a match has not come to free player i.       *)
Pending(m, i) == /\ job[m].end <= i
                 /\ job[m].abort <= 2 + i
                 /\ job[m].expire <= 1 + i

(* One function works on a match, once, and on its way no player is marked *)
(* with another match before the function has freed him.                   *)
StayOf(m) ==
  /\ \A k \in AllKinds : job[m][k] # Stopped
  /\ phase[m] = "live" => loads[m] # 0 /\ \A k \in AllKinds : job[m][k] = 0
  /\ loads[m] = 0 => \A k \in AllKinds : job[m][k] = 0
  /\ \A k, l \in AllKinds : k = l \/ job[m][k] = 0 \/ job[m][l] = 0
  /\ Made(m) => \A i \in Seats : Pending(m, i) => userMatch[players[m][i]] = m

StayInv == Undisturbed => \A m \in MatchIds : StayOf(m)

(* A state after a disturbance is disturbed. *)
LEMMA UndisturbedBefore ==
  ASSUME TypeInv, SettlementNext, Undisturbed'
  PROVE  Undisturbed
<1>1. failures \in Nat /\ loads \in [MatchIds -> Nat]
  BY ConstantsAssumption DEF TypeInv, TypeOK
<1>2. failures' = failures \/ failures' = failures + 1
  BY DEF SettlementNext, Load, End, EndReturns, Abort, Expire, Step, Fail,
         Crash, jobVars
<1>3. \/ loads' = loads
      \/ \E m \in MatchIds : loads' = [loads EXCEPT ![m] = @ + 1]
  BY DEF SettlementNext, Load, End, EndReturns, Abort, Expire, Step, Fail,
         Crash, serverVars
<1>4. ASSUME NEW n \in MatchIds PROVE loads[n] <= 1
  <2>1. loads'[n] <= 1
    BY DEF Undisturbed
  <2>2. loads[n] \in Nat /\ (loads'[n] = loads[n] \/ loads'[n] = loads[n] + 1)
    BY <1>1, <1>3
  <2>3. QED
    BY <2>1, <2>2
<1>5. failures = 0
  BY <1>1, <1>2 DEF Undisturbed
<1>6. QED
  BY <1>4, <1>5 DEF Undisturbed

LEMMA StayStep ==
  ASSUME TypeInv, StayInv, SettlementNext
  PROVE  StayInv'
<1> USE DEF AllKinds
<1> SUFFICES ASSUME Undisturbed', NEW n \in MatchIds PROVE StayOf(n)'
  BY DEF StayInv
<1>1. /\ \A m \in MatchIds : StayOf(m)
      /\ \A m \in MatchIds : loads[m] \in {0, 1}
  <2>1. Undisturbed
    BY UndisturbedBefore
  <2>2. loads \in [MatchIds -> Nat]
    BY ConstantsAssumption DEF TypeInv, TypeOK
  <2>3. QED
    BY <2>1, <2>2 DEF StayInv, Undisturbed
<1>2. /\ active \subseteq MatchIds /\ phase \in [MatchIds -> Phases]
      /\ loads \in [MatchIds -> Nat]
      /\ userMatch \in [Users -> MatchIds \cup {NoMatch}] /\ NoMatch \notin MatchIds
      /\ job \in [MatchIds -> [AllKinds -> 0 .. Stopped]] /\ Stopped = 11
      /\ \A m \in MatchIds : Made(m) => /\ players[m][1] \in Users
                                        /\ players[m][2] \in Users
                                        /\ players[m][1] # players[m][2]
  BY ConstantsAssumption DEF TypeInv, TypeOK, MadeInv, Stopped
<1>3. players' = players /\ Made(n)' = Made(n)
  <2>1. players' = players
    BY DEF SettlementNext, Load, End, EndReturns, Abort, Expire, Step, Fail,
           Crash, matchVars
  <2>2. QED
    BY <2>1 DEF Made
<1>4. StayOf(n)
  BY <1>1
<1>5. ASSUME NEW m \in MatchIds, NEW k \in Kinds, Step(m, k) PROVE StayOf(n)'
  <2>1. /\ k \in AllKinds /\ job'[m][k] = job[m][k] + 1 /\ job[m][k] \in 1 .. 9
        /\ \A l \in AllKinds : n # m \/ l # k => job'[n][l] = job[n][l]
        /\ phase' = phase /\ loads' = loads
        /\ players[m][1] \in Users /\ players[m][2] \in Users
    BY <1>5, StepIsWrite DEF serverVars
  <2>4. \A l \in AllKinds : job'[n][l] = 0 <=> job[n][l] = 0
    BY <2>1
  <2>5. \A l \in AllKinds : job'[n][l] # Stopped
    BY <1>2, <1>4, <2>1 DEF StayOf
  <2>7. ASSUME Made(n), NEW i \in Seats, Pending(n, i)'
        PROVE  userMatch'[players[n][i]] = n
    <3>1. \A l \in AllKinds : job[n][l] <= job'[n][l]
      BY <1>2, <2>1
    <3>2. Pending(n, i)
      BY <1>2, <2>1, <2>7, <3>1 DEF Pending, Seats
    <3>3. userMatch[players[n][i]] = n
      BY <1>4, <2>7, <3>2 DEF StayOf
    <3>4. ASSUME NEW j \in Seats,
                 userMatch' = [userMatch EXCEPT ![players[m][j]] = NoMatch],
                 <<k, job[m][k]>> \in {<<"end", j>>, <<"abort", 2 + j>>, <<"expire", 1 + j>>}
          PROVE  players[m][j] # players[n][i]
      <4>1. ~Pending(m, j)'
        BY <2>1, <3>4 DEF Pending, Seats
      <4>2. Pending(m, j)
        <5>1. /\ k = "end" => job[m].end = j
              /\ k = "abort" => job[m].abort = 2 + j
              /\ k = "expire" => job[m].expire = 1 + j
          BY <3>4
        <5>2. \A l \in AllKinds : l # k => job[m][l] = 0
          BY <1>1, <2>1 DEF StayOf
        <5>3. k \in {"end", "abort", "expire"}
          BY <2>1
        <5>4. QED
          BY <5>1, <5>2, <5>3 DEF Pending, Seats
      <4>3. userMatch[players[m][j]] = m
        BY <1>1, <1>5, <4>2, StepIsWrite, ConstantsAssumption DEF StayOf, Made
      <4>4. CASE n = m
        BY <1>2, <2>7, <4>1, <4>4 DEF Seats
      <4>5. CASE n # m
        BY <3>3, <4>3, <4>5
      <4>6. QED
        BY <4>4, <4>5
    <3>5. \/ userMatch' = userMatch
          \/ \E j \in Seats :
               /\ userMatch' = [userMatch EXCEPT ![players[m][j]] = NoMatch]
               /\ <<k, job[m][k]>> \in {<<"end", j>>, <<"abort", 2 + j>>, <<"expire", 1 + j>>}
      BY <1>5, Effects DEF Seats
    <3>6. players[n][i] \in Users
      BY <1>2, <2>7 DEF Seats
    <3>7. QED
      BY <1>2, <3>3, <3>4, <3>5, <3>6
  <2>8. /\ phase[n] = "live" => loads[n] # 0 /\ \A l \in AllKinds : job'[n][l] = 0
        /\ loads[n] = 0 => \A l \in AllKinds : job'[n][l] = 0
        /\ \A j, l \in AllKinds : j = l \/ job'[n][j] = 0 \/ job'[n][l] = 0
    BY <1>4, <2>4 DEF StayOf
  <2>9. Made(n) => \A i \in Seats : Pending(n, i)' => userMatch'[players[n][i]] = n
    BY <2>7
  <2>10. QED
    BY <1>3, <2>1, <2>5, <2>8, <2>9 DEF StayOf
<1>6. ASSUME NEW m \in MatchIds, Load(m) PROVE StayOf(n)'
  <2>1. /\ UNCHANGED <<userMatch, active, job>>
        /\ phase' = [phase EXCEPT ![m] = "live"] /\ loads' = [loads EXCEPT ![m] = @ + 1]
    BY <1>6 DEF Load, tables, jobVars
  <2>2. loads[m] = 0 /\ loads'[m] = 1
    BY <1>1, <1>2, <2>1 DEF Undisturbed
  <2>3. CASE n = m
    BY <1>2, <1>3, <1>4, <2>1, <2>2, <2>3 DEF StayOf, Pending
  <2>4. CASE n # m
    BY <1>2, <1>3, <1>4, <2>1, <2>4 DEF StayOf, Pending
  <2>5. QED
    BY <2>3, <2>4
<1>7. ASSUME NEW m \in MatchIds, End(m) PROVE StayOf(n)'
  <2>1. /\ UNCHANGED <<userMatch, active, loads>> /\ phase[m] = "live"
        /\ phase' = [phase EXCEPT ![m] = "ending"] /\ job' = [job EXCEPT ![m]["end"] = 1]
    BY <1>7 DEF End, Start, tables
  <2>2. CASE n = m
    <3>1. /\ job'[n].end = 1 /\ job'[n].abort = 0 /\ job'[n].expire = job[n].expire
          /\ phase'[n] = "ending" /\ loads[n] # 0
          /\ \A k \in AllKinds : job[n][k] = 0
      BY <1>2, <1>4, <2>1, <2>2 DEF StayOf
    <3>2. \A i \in Seats : Pending(n, i)' => Pending(n, i)
      BY <3>1 DEF Pending, Seats
    <3>3. QED
      BY <1>2, <1>3, <1>4, <2>1, <3>1, <3>2 DEF StayOf
  <2>3. CASE n # m
    BY <1>2, <1>3, <1>4, <2>1, <2>3 DEF StayOf, Pending
  <2>4. QED
    BY <2>2, <2>3
<1>8. ASSUME NEW m \in MatchIds, EndReturns(m) PROVE StayOf(n)'
  <2>1. /\ UNCHANGED <<userMatch, active, loads, job>>
        /\ phase' = [phase EXCEPT ![m] = "idle"]
    BY <1>8 DEF EndReturns, tables, jobVars
  <2>2. QED
    BY <1>2, <1>3, <1>4, <2>1 DEF StayOf, Pending
<1>9. ASSUME NEW m \in MatchIds, Abort(m) PROVE StayOf(n)'
  <2>1. /\ UNCHANGED <<userMatch, active, loads>> /\ phase[m] = "live"
        /\ phase' = [phase EXCEPT ![m] = "idle"] /\ job' = [job EXCEPT ![m]["abort"] = 1]
    BY <1>9 DEF Abort, Start, tables
  <2>2. CASE n = m
    <3>1. /\ job'[n].abort = 1 /\ job'[n].end = 0 /\ job'[n].expire = job[n].expire
          /\ phase'[n] = "idle" /\ loads[n] # 0
          /\ \A k \in AllKinds : job[n][k] = 0
      BY <1>2, <1>4, <2>1, <2>2 DEF StayOf
    <3>2. \A i \in Seats : Pending(n, i)' => Pending(n, i)
      BY <3>1 DEF Pending, Seats
    <3>3. QED
      BY <1>2, <1>3, <1>4, <2>1, <3>1, <3>2 DEF StayOf
  <2>3. CASE n # m
    BY <1>2, <1>3, <1>4, <2>1, <2>3 DEF StayOf, Pending
  <2>4. QED
    BY <2>2, <2>3
<1>10. ASSUME NEW m \in MatchIds, Expire(m) PROVE StayOf(n)'
  <2>1. /\ UNCHANGED <<userMatch, active, phase>>
        /\ loads' = [loads EXCEPT ![m] = @ + 1]
        /\ job' = [job EXCEPT ![m]["expire"] = 1]
    BY <1>10 DEF Expire, Start, tables
  <2>2. loads[m] = 0 /\ loads'[m] = 1
    BY <1>1, <1>2, <2>1 DEF Undisturbed
  <2>3. CASE n = m
    <3>1. phase[n] # "live" /\ \A k \in AllKinds : job[n][k] = 0
      BY <1>4, <2>2, <2>3 DEF StayOf
    <3>2. job'[n].expire = 1 /\ job'[n].end = 0 /\ job'[n].abort = 0
      BY <1>2, <2>1, <2>3, <3>1
    <3>3. \A i \in Seats : Pending(n, i)' => Pending(n, i)
      BY <3>1, <3>2 DEF Pending, Seats
    <3>4. QED
      BY <1>2, <1>3, <1>4, <2>1, <2>2, <2>3, <3>1, <3>2, <3>3 DEF StayOf
  <2>4. CASE n # m
    BY <1>2, <1>3, <1>4, <2>1, <2>4 DEF StayOf, Pending
  <2>5. QED
    BY <2>3, <2>4
<1>11. ASSUME NEW m \in MatchIds, NEW k \in Kinds, Fail(m, k) PROVE FALSE
  BY <1>11, ConstantsAssumption DEF Fail, Undisturbed, TypeInv, TypeOK
<1>12. ASSUME Crash PROVE StayOf(n)'
  <2>1. /\ UNCHANGED <<userMatch, active, loads, job>> /\ phase'[n] = "idle"
    BY <1>12 DEF Crash, tables, jobVars
  <2>2. QED
    BY <1>2, <1>3, <1>4, <2>1 DEF StayOf, Pending
<1>13. QED
  BY <1>5, <1>6, <1>7, <1>8, <1>9, <1>10, <1>11, <1>12 DEF SettlementNext

LEMMA StayMake ==
  ASSUME TypeInv, StayInv, NEW m \in MatchIds, NEW u \in Users, NEW v \in Users,
         Make(m, u, v)
  PROVE  StayInv'
<1> USE DEF AllKinds
<1>1. /\ job' = job /\ loads' = loads /\ phase' = phase /\ failures' = failures
      /\ active' = active \cup {m}
      /\ userMatch' = [userMatch EXCEPT ![u] = m, ![v] = m]
      /\ players' = [players EXCEPT ![m] = <<u, v>>]
      /\ userMatch[u] = NoMatch /\ userMatch[v] = NoMatch /\ u # v
  BY DEF Make, serverVars, jobVars
<1>2. /\ userMatch \in [Users -> MatchIds \cup {NoMatch}] /\ NoMatch \notin MatchIds
      /\ players \in [MatchIds -> [Seats -> Users \cup {NoUser}]]
  BY ConstantsAssumption DEF TypeInv, TypeOK
<1>3. /\ phase[m] = "idle" /\ loads[m] = 0
      /\ job[m].end = 0 /\ job[m].abort = 0 /\ job[m].expire = 0
  BY ConstantsAssumption DEF Make, TypeInv, MadeInv, Made
<1> SUFFICES ASSUME Undisturbed, NEW n \in MatchIds PROVE StayOf(n)'
  BY <1>1 DEF StayInv, Undisturbed
<1>4. StayOf(n)
  BY DEF StayInv
<1>5. CASE n = m
  <2>1. players'[n][1] = u /\ players'[n][2] = v
    BY <1>1, <1>2, <1>5
  <2>2. \A i \in Seats : userMatch'[players'[n][i]] = n
    BY <1>1, <1>2, <1>5, <2>1 DEF Seats
  <2>3. \A k \in AllKinds : job'[n][k] # Stopped
    BY <1>1, <1>4 DEF StayOf
  <2>4. /\ phase'[n] = "idle" /\ loads'[n] = 0
        /\ job'[n].end = 0 /\ job'[n].abort = 0 /\ job'[n].expire = 0
    BY <1>1, <1>3, <1>5
  <2>5. QED
    BY <2>2, <2>3, <2>4 DEF StayOf
<1>6. CASE n # m
  <2>1. players'[n] = players[n] /\ (n \in active' <=> n \in active)
    BY <1>1, <1>2, <1>6
  <2>2. ASSUME Made(n), NEW i \in Seats, Pending(n, i)
        PROVE  userMatch'[players[n][i]] = n
    <3>1. players[n][i] \in Users /\ userMatch[players[n][i]] = n
      BY <1>4, <2>2, ConstantsAssumption DEF StayOf, TypeInv, MadeInv, Seats
    <3>2. players[n][i] # u /\ players[n][i] # v
      BY <1>1, <1>2, <3>1
    <3>3. QED
      BY <1>1, <1>2, <3>1, <3>2
  <2>3. QED
    BY <1>1, <1>4, <2>1, <2>2 DEF StayOf, Pending, Made
<1>7. QED
  BY <1>5, <1>6

(* The two players of a live match are marked with it, and nobody else is, *)
(* whatever functions of earlier matches are still running and wherever    *)
(* the server crashed, as long as no call failed and no match was loaded   *)
(* twice.                                                                  *)
THEOREM StayCorrect == Spec => []PlayersStayMarked
<1>1. Init => StayInv /\ LockInv /\ OnlyMade
  BY ConstantsAssumption
     DEF Init, StayInv, StayOf, LockInv, OnlyMade, Made, Seats, AllKinds, Stopped
<1>2. ASSUME TypeInv, StayInv /\ LockInv /\ OnlyMade, [Next]_settlementVars
      PROVE  (StayInv /\ LockInv /\ OnlyMade)'
  <2>1. CASE UNCHANGED settlementVars
    <3>1. /\ UNCHANGED <<userMatch, active, players, phase, loads>>
          /\ UNCHANGED <<job, failures>>
      BY <2>1 DEF settlementVars, tables, matchVars, serverVars, jobVars
    <3>2. StayInv'
      BY <1>2, <3>1 DEF StayInv, StayOf, Undisturbed, Pending, Made
    <3>3. LockInv' /\ OnlyMade'
      BY <1>2, <3>1 DEF LockInv, OnlyMade, LockOf, Made, MarkedWith, Undropped
    <3>4. QED
      BY <3>2, <3>3
  <2>2. QED
    BY <1>2, <2>1, StayStep, StayMake, LockStep, OnlyMadeStep, LockMake DEF Next
<1>3. TypeInv /\ StayInv /\ LockInv => PlayersStayMarked
  <2>1. SUFFICES ASSUME TypeInv, StayInv, LockInv, Undisturbed,
                        NEW m \in MatchIds, phase[m] = "live"
                 PROVE  MarkedWith(m) = PlayersOf(m)
    BY DEF PlayersStayMarked
  <2>2. Made(m) /\ players[m][1] \in Users /\ players[m][2] \in Users
    BY <2>1, ConstantsAssumption DEF TypeInv, MadeInv, Made
  <2>3. job[m].end = 0 /\ job[m].abort = 0 /\ job[m].expire = 0
    BY <2>1 DEF StayInv, StayOf, AllKinds
  <2>4. \A i \in Seats : userMatch[players[m][i]] = m
    BY <2>1, <2>2, <2>3 DEF StayInv, StayOf, Pending, Seats
  <2>5. \A u \in Users : userMatch[u] = m => u = players[m][1] \/ u = players[m][2]
    BY <2>1, <2>2 DEF LockInv, LockOf
  <2>6. QED
    BY <2>2, <2>4, <2>5 DEF MarkedWith, PlayersOf, Seats
<1>4. QED
  BY <1>1, <1>2, <1>3, TypeInvariant, PTL DEF Spec

(***************************************************************************)
(* No mark is forgotten.                                                   *)
(***************************************************************************)

(* Each function frees the two players, one write for each.                *)
LEMMA Frees ==
  ASSUME NEW i \in Seats
  PROVE  /\ i \in DOMAIN Program.end /\ Program.end[i] = FreeWrites[i]
         /\ 2 + i \in DOMAIN Program.abort /\ Program.abort[2 + i] = FreeWrites[i]
         /\ 1 + i \in DOMAIN Program.expire /\ Program.expire[1 + i] = FreeWrites[i]
<1>1. i = 1 \/ i = 2
  BY DEF Seats
<1>2. FreeWrites[1] = "free1" /\ FreeWrites[2] = "free2"
  BY DEF FreeWrites
<1>3. QED
  BY <1>1, <1>2, Programs

(* A function that was just started will free both players. *)
LEMMA StartedWillFree ==
  ASSUME TypeInv, NEW m \in MatchIds, NEW k, Start(m, k), NEW i \in Seats
  PROVE  WillFree(m, i)'
<1>1. k \in Kinds /\ k \in AllKinds /\ job' = [job EXCEPT ![m][k] = 1]
  BY ConstantsAssumption DEF Start, AllKinds
<1>2. job'[m][k] = 1
  BY <1>1 DEF TypeInv, TypeOK
<1>3. i \in 1 .. 2
  BY DEF Seats
<1>4. k = "end" \/ k = "abort" \/ k = "expire"
  BY <1>1, ConstantsAssumption
<1>5. \E n \in DOMAIN Program[k] : 1 \in 1 .. n /\ Program[k][n] = FreeWrites[i]
  <2>1. 1 \in 1 .. i /\ 1 \in 1 .. (2 + i) /\ 1 \in 1 .. (1 + i)
    BY <1>3
  <2>2. QED
    BY <1>4, <2>1, Frees
<1>6. QED
  BY <1>1, <1>2, <1>5 DEF WillFree

(* A function frees player i of its match at the writes that say so. *)
LEMMA FreeEffect ==
  ASSUME TypeInv, NEW m \in MatchIds, NEW k \in Kinds, Step(m, k),
         NEW i \in Seats, Program[k][job[m][k]] = FreeWrites[i]
  PROVE  userMatch'[players[m][i]] = NoMatch
<1>1. Write(m, Program[k][job[m][k]]) /\ players[m][i] \in Users
  BY StepIsWrite DEF Seats
<1>2. i = 1 \/ i = 2
  BY DEF Seats
<1>3. FreeWrites[1] = "free1" /\ FreeWrites[2] = "free2"
  BY DEF FreeWrites
<1>4. Write(m, "free1") => Free(m, 1)
  BY DEF Write
<1>5. Write(m, "free2") => Free(m, 2)
  BY DEF Write
<1>6. Free(m, i)
  BY <1>1, <1>2, <1>3, <1>4, <1>5
<1>7. QED
  BY <1>1, <1>6 DEF Free, TypeInv, TypeOK

(* MarkedIsCared for one player of one match.                              *)
CareOf(m, i) ==
  loads[m] > 0 /\ userMatch[players[m][i]] = m
    => phase[m] = "live" \/ WillFree(m, i)

CareInv == failures + crashes = 0 => \A m \in MatchIds, i \in Seats : CareOf(m, i)

LEMMA CareStep ==
  ASSUME TypeInv, CareInv, SettlementNext
  PROVE  CareInv'
<1> USE DEF AllKinds
<1>1. /\ failures \in Nat /\ crashes \in Nat
      /\ loads \in [MatchIds -> Nat] /\ phase \in [MatchIds -> Phases]
      /\ userMatch \in [Users -> MatchIds \cup {NoMatch}] /\ NoMatch \notin MatchIds
      /\ job \in [MatchIds -> [AllKinds -> 0 .. Stopped]]
  BY ConstantsAssumption DEF TypeInv, TypeOK
<1>2. /\ failures' = failures \/ failures' = failures + 1
      /\ crashes' = crashes \/ crashes' = crashes + 1
      /\ players' = players
  BY DEF SettlementNext, Load, End, EndReturns, Abort, Expire, Step, Fail,
         Crash, jobVars, serverVars, matchVars
<1> SUFFICES ASSUME failures' + crashes' = 0, NEW n \in MatchIds, NEW i \in Seats,
                    loads'[n] > 0, userMatch'[players[n][i]] = n
             PROVE  phase'[n] = "live" \/ WillFree(n, i)'
  BY <1>2 DEF CareInv, CareOf
<1>3. failures = 0 /\ crashes = 0 /\ failures' = 0 /\ crashes' = 0
  BY <1>1, <1>2
<1>4. CareOf(n, i)
  BY <1>3 DEF CareInv
<1>5. ASSUME NEW m \in MatchIds, NEW k \in Kinds, Step(m, k)
      PROVE  phase'[n] = "live" \/ WillFree(n, i)'
  <2>1. /\ k \in AllKinds /\ job'[m][k] = job[m][k] + 1 /\ job[m][k] \in 1 .. 9
        /\ \A l \in AllKinds : n # m \/ l # k => job'[n][l] = job[n][l]
        /\ phase' = phase /\ loads' = loads
        /\ players[m][1] \in Users /\ players[m][2] \in Users
    BY <1>5, StepIsWrite DEF serverVars
  <2>2. players[n][i] \in Users
    BY <2>1, <1>1, ConstantsAssumption DEF TypeInv, MadeInv, Seats
  <2>3. userMatch[players[n][i]] = n
    BY <1>1, <1>5, <2>2, Effects
  <2>4. CASE phase[n] = "live"
    BY <2>1, <2>4
  <2>5. ASSUME NEW l \in Kinds, NEW p \in DOMAIN Program[l],
               job[n][l] \in 1 .. p, Program[l][p] = FreeWrites[i]
        PROVE  job'[n][l] \in 1 .. p
    <3>1. l \in AllKinds /\ p \in 1 .. 9
      BY ConstantsAssumption, Programs
    <3>2. CASE n # m \/ l # k
      BY <2>1, <2>5, <3>1, <3>2
    <3>3. CASE n = m /\ l = k
      <4>1. job[m][k] # p
        BY <1>1, <1>5, <2>5, <3>3, FreeEffect
      <4>2. QED
        BY <2>1, <2>5, <3>1, <3>3, <4>1
    <3>4. QED
      BY <3>2, <3>3
  <2>6. CASE WillFree(n, i)
    BY <2>5, <2>6 DEF WillFree
  <2>7. QED
    BY <1>4, <2>1, <2>3, <2>4, <2>6 DEF CareOf
<1>6. ASSUME NEW m \in MatchIds, Load(m) PROVE phase'[n] = "live" \/ WillFree(n, i)'
  <2>1. UNCHANGED <<userMatch, job>> /\ phase' = [phase EXCEPT ![m] = "live"]
        /\ loads' = [loads EXCEPT ![m] = @ + 1]
    BY <1>6 DEF Load, tables, jobVars
  <2>2. CASE n = m
    BY <1>1, <2>1, <2>2
  <2>3. CASE n # m
    BY <1>1, <1>4, <2>1, <2>3 DEF CareOf, WillFree
  <2>4. QED
    BY <2>2, <2>3
<1>7. ASSUME NEW m \in MatchIds, NEW k,
             Start(m, k), userMatch' = userMatch,
             \A l \in MatchIds : l # m => phase'[l] = phase[l] /\ loads'[l] = loads[l]
      PROVE  WillFree(n, i)' \/ phase'[n] = "live"
  <2>1. CASE n = m
    BY <1>7, <2>1, StartedWillFree
  <2>2. CASE n # m
    <3>1. job'[n] = job[n]
      BY <1>1, <1>7, <2>2 DEF Start
    <3>2. QED
      BY <1>4, <1>7, <2>2, <3>1 DEF CareOf, WillFree
  <2>3. QED
    BY <2>1, <2>2
<1>8. ASSUME NEW m \in MatchIds, End(m) \/ Abort(m) \/ Expire(m)
      PROVE  phase'[n] = "live" \/ WillFree(n, i)'
  <2>1. /\ \E k \in Kinds : Start(m, k)
        /\ userMatch' = userMatch
        /\ \A l \in MatchIds : l # m => phase'[l] = phase[l] /\ loads'[l] = loads[l]
    BY <1>1, <1>8 DEF End, Abort, Expire, Start, tables
  <2>2. QED
    BY <1>7, <2>1
<1>9. ASSUME NEW m \in MatchIds, EndReturns(m) PROVE phase'[n] = "live" \/ WillFree(n, i)'
  <2>1. /\ UNCHANGED <<userMatch, loads, job>> /\ phase[m] = "ending"
        /\ phase' = [phase EXCEPT ![m] = "idle"]
    BY <1>9 DEF EndReturns, tables, jobVars
  <2>2. QED
    BY <1>1, <1>4, <2>1 DEF CareOf, WillFree
<1>10. ASSUME NEW m \in MatchIds, NEW k \in Kinds, Fail(m, k) PROVE FALSE
  BY <1>3, <1>10 DEF Fail
<1>11. ~Crash
  BY <1>3 DEF Crash
<1>12. QED
  BY <1>5, <1>6, <1>8, <1>9, <1>10, <1>11 DEF SettlementNext

LEMMA CareMake ==
  ASSUME TypeInv, CareInv, NEW m \in MatchIds, NEW u \in Users, NEW v \in Users,
         Make(m, u, v)
  PROVE  CareInv'
<1> USE DEF AllKinds
<1>1. /\ UNCHANGED <<job, loads, phase, failures, crashes>>
      /\ userMatch' = [userMatch EXCEPT ![u] = m, ![v] = m]
      /\ players' = [players EXCEPT ![m] = <<u, v>>]
  BY DEF Make, serverVars, jobVars
<1>2. /\ userMatch \in [Users -> MatchIds \cup {NoMatch}]
      /\ players \in [MatchIds -> [Seats -> Users \cup {NoUser}]]
      /\ loads[m] = 0
  BY ConstantsAssumption DEF Make, TypeInv, TypeOK, MadeInv, Made
<1> SUFFICES ASSUME failures + crashes = 0, NEW n \in MatchIds, NEW i \in Seats,
                    loads[n] > 0, userMatch'[players'[n][i]] = n
             PROVE  phase[n] = "live" \/ WillFree(n, i)
  BY <1>1 DEF CareInv, CareOf, WillFree
<1>3. n # m /\ players'[n] = players[n]
  BY <1>1, <1>2
<1>4. players[n][i] \in Users
  BY ConstantsAssumption DEF TypeInv, MadeInv, Seats
<1>5. userMatch[players[n][i]] = n
  BY <1>1, <1>2, <1>3, <1>4
<1>6. QED
  BY <1>5 DEF CareInv, CareOf

(* MarkedIsCared: a mark that a handler has dealt with is never left to    *)
(* nobody: whatever functions work on the match and on earlier and later   *)
(* matches of its players, and however often it is loaded.                 *)
THEOREM CareCorrect == Spec => []MarkedIsCared
<1>1. Init => CareInv
  BY DEF Init, CareInv, CareOf
<1>2. ASSUME TypeInv, CareInv, [Next]_settlementVars PROVE CareInv'
  <2>1. CASE UNCHANGED settlementVars
    BY <1>2, <2>1 DEF settlementVars, tables, matchVars, serverVars, jobVars,
                      CareInv, CareOf, WillFree
  <2>2. QED
    BY <1>2, <2>1, CareStep, CareMake DEF Next
<1>3. CareInv => MarkedIsCared
  BY DEF CareInv, CareOf, MarkedIsCared
<1>4. QED
  BY <1>1, <1>2, <1>3, TypeInvariant, PTL DEF Spec
=============================================================================
