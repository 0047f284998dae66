-------------------------- MODULE EvaluationProofs --------------------------
(***************************************************************************)
(* Proofs about Evaluation, for any requests, positions, nodes and         *)
(* mishaps.                                                                *)
(***************************************************************************)
EXTENDS Evaluation, TLAPS

(* A node that evaluates has no function running; a function works on a    *)
(* request whose user it has answered, and then cached, and a node on a    *)
(* message that was sent.                                                  *)
SubmitInv ==
  /\ \A n \in Nodes :
       /\ node[n] \in {"free", "busy"} => submit[n] = "none"
       /\ submit[n] \in {"store", "remove", "more"} =>
            answers[work[n]] > 0 \/ work[n] \in gone
       /\ submit[n] \in {"remove", "more"} => FenOf[work[n]] \in cache
  /\ RemovedIsAnswered

(* Until a message times out, one node at most has it, whoever took it     *)
(* took it out of sight, and it is not answered before it is posted.       *)
OnceInv ==
  /\ \A r \in Requests :
       step[r] \in {"new", "cache", "send"} => queue[r] = "none" /\ answers[r] = 0
  /\ \A n \in Nodes : work[n] \in Requests => queue[work[n]] # "none"
  /\ \A r \in Requests \ again :
       /\ answers[r] <= 1
       /\ queue[r] = "visible" => answers[r] = 0 /\ \A n \in Nodes : work[n] # r
       /\ \A n \in Nodes : work[n] = r =>
            /\ \A m \in Nodes : work[m] = r => m = n
            /\ node[n] = "busy" \/ submit[n] = "post" => answers[r] = 0

EvaluationInv == TypeOKEvaluation /\ SubmitInv /\ OnceInv

LEMMA EvaluationInit == Init => EvaluationInv
<1> SUFFICES ASSUME Init PROVE EvaluationInv
  OBVIOUS
<1>1. TypeOKEvaluation
  BY ConstantsAssumption DEF Init, TypeOKEvaluation
<1>2. SubmitInv
  BY DEF Init, SubmitInv, RemovedIsAnswered
<1>3. OnceInv
  BY ConstantsAssumption DEF Init, OnceInv
<1>4. QED
  BY <1>1, <1>2, <1>3 DEF EvaluationInv

(* The evaluate function. *)
LEMMA AskKeeps ==
  ASSUME EvaluationInv, NEW r \in Requests, Ask(r) \/ AskStep(r) \/ AskFails(r)
  PROVE  EvaluationInv'
<1> USE ConstantsAssumption
        DEF EvaluationInv, TypeOKEvaluation, Goto, PostToConnection, Answer, queueVars, nodeVars
<1>1. ASSUME NEW s \in {"cache", "send", "node", "done"}, step' = [step EXCEPT ![r] = s],
             step[r] \in {"new", "cache", "send", "node"},
             step[r] = "node" => s = "done",
             desired' \in Nat, UNCHANGED <<gone, cache, answers, queueVars, nodeVars>>,
             s = "node" => step[r] # "new"
      PROVE  EvaluationInv'
  <2>1. TypeOKEvaluation'
    BY <1>1
  <2>2. SubmitInv'
    BY <1>1 DEF SubmitInv, RemovedIsAnswered
  <2>3. OnceInv'
    BY <1>1 DEF OnceInv
  <2>4. QED
    BY <2>1, <2>2, <2>3
<1>2. ASSUME step' = [step EXCEPT ![r] = "done"], step[r] \in {"new", "cache"},
             answers' = [answers EXCEPT ![r] = IF @ = 2 THEN 2 ELSE @ + 1],
             UNCHANGED <<gone, cache, queueVars, desired, nodeVars>>
      PROVE  EvaluationInv'
  <2>1. answers[r] = 0 /\ queue[r] = "none" /\ \A n \in Nodes : work[n] # r
    BY <1>2 DEF OnceInv
  <2>2. answers' = [answers EXCEPT ![r] = 1]
    BY <1>2, <2>1
  <2>3. TypeOKEvaluation'
    BY <1>2, <2>2
  <2>4. SubmitInv'
    BY <1>2, <2>1, <2>2 DEF SubmitInv, RemovedIsAnswered
  <2>5. OnceInv'
    BY <1>2, <2>1, <2>2 DEF OnceInv
  <2>6. QED
    BY <2>3, <2>4, <2>5
<1>3. CASE Ask(r)
  BY <1>1, <1>2, <1>3 DEF Ask
<1>4. CASE GetEvaluation(r)
  BY <1>1, <1>2, <1>4 DEF GetEvaluation
<1>5. CASE SubmitEvaluationRequest(r)
  <2>1. answers[r] = 0 /\ queue[r] = "none" /\ \A n \in Nodes : work[n] # r
    BY <1>5 DEF SubmitEvaluationRequest, OnceInv
  <2>2. /\ queue' = [queue EXCEPT ![r] = "visible"]
        /\ step' = [step EXCEPT ![r] = "node"]
        /\ UNCHANGED <<gone, cache, answers, receiver, again, desired, nodeVars>>
    BY <1>5 DEF SubmitEvaluationRequest
  <2>3. TypeOKEvaluation'
    BY <2>2
  <2>4. SubmitInv'
    BY <2>2 DEF SubmitInv, RemovedIsAnswered
  <2>5. OnceInv'
    BY <2>1, <2>2 DEF OnceInv
  <2>6. QED
    BY <2>3, <2>4, <2>5
<1>6. CASE CheckAndStartNewTask(r)
  BY <1>1, <1>6 DEF CheckAndStartNewTask
<1>7. CASE AskFails(r)
  BY <1>1, <1>7 DEF AskFails
<1>8. QED
  BY <1>3, <1>4, <1>5, <1>6, <1>7 DEF AskStep

(* What happens to a request by itself. *)
LEMMA RequestKeeps ==
  ASSUME EvaluationInv, NEW r \in Requests, Close(r) \/ TimeOut(r) \/ Expire(r)
  PROVE  EvaluationInv'
<1> USE ConstantsAssumption DEF EvaluationInv, TypeOKEvaluation, queueVars, nodeVars, requestVars
<1>1. CASE Close(r)
  <2>1. TypeOKEvaluation'
    BY <1>1 DEF Close
  <2>2. SubmitInv'
    BY <1>1 DEF Close, SubmitInv, RemovedIsAnswered
  <2>3. OnceInv'
    BY <1>1 DEF Close, OnceInv
  <2>4. QED
    BY <2>1, <2>2, <2>3
<1>2. CASE TimeOut(r)
  <2>1. TypeOKEvaluation'
    BY <1>2 DEF TimeOut
  <2>2. SubmitInv'
    BY <1>2 DEF TimeOut, SubmitInv, RemovedIsAnswered
  <2>3. OnceInv'
    BY <1>2 DEF TimeOut, OnceInv
  <2>4. QED
    BY <2>1, <2>2, <2>3
<1>3. CASE Expire(r)
  <2>1. TypeOKEvaluation'
    BY <1>3 DEF Expire
  <2>2. SubmitInv'
    BY <1>3 DEF Expire, SubmitInv, RemovedIsAnswered
  <2>3. OnceInv'
    BY <1>3 DEF Expire, OnceInv
  <2>4. QED
    BY <2>1, <2>2, <2>3
<1>4. QED
  BY <1>1, <1>2, <1>3

(* A node that lets go of what it works on, and does not evaluate.         *)
LEMMA LetGo ==
  ASSUME EvaluationInv, NEW n \in Nodes, NEW next \in {"off", "free"},
         node' = [node EXCEPT ![n] = next],
         work' = [work EXCEPT ![n] = NoRequest],
         submit' = [submit EXCEPT ![n] = "none"],
         retried' \subseteq Nodes, desired' \in Nat,
         UNCHANGED <<requestVars, answers>>,
         \/ UNCHANGED queueVars
         \/ \E r \in Requests : Takes(n, r)
  PROVE  EvaluationInv'
<1> USE ConstantsAssumption DEF EvaluationInv, TypeOKEvaluation, queueVars, requestVars, Takes
<1>1. TypeOKEvaluation'
  <2>1. CASE UNCHANGED queueVars
    BY <2>1
  <2>2. CASE \E r \in Requests : Takes(n, r)
    BY <2>2
  <2>3. QED
    BY <2>1, <2>2
<1>2. SubmitInv'
  <2>1. \A r \in Requests : queue'[r] = "removed" => queue[r] = "removed"
    OBVIOUS
  <2>2. QED
    BY <2>1 DEF SubmitInv, RemovedIsAnswered
<1>3. OnceInv'
  <2>1. \A r \in Requests :
          /\ queue'[r] = "none" <=> queue[r] = "none"
          /\ queue'[r] = "visible" => queue[r] = "visible"
    OBVIOUS
  <2>2. again' = again
    OBVIOUS
  <2>3. QED
    BY <2>1, <2>2 DEF OnceInv
<1>4. QED
  BY <1>1, <1>2, <1>3

(* A node's loop. *)
LEMMA NodeKeeps ==
  ASSUME EvaluationInv, NEW n \in Nodes,
         NodeStep(n) \/ AcquireFails(n) \/ EvaluateFails(n) \/ StartNode(n) \/ Stop(n)
  PROVE  EvaluationInv'
<1> USE ConstantsAssumption DEF EvaluationInv, TypeOKEvaluation, queueVars, requestVars, nodeVars
<1>1. ASSUME NEW r \in Requests, AcquireEvaluationWork(n, r) PROVE EvaluationInv'
  <2>1. /\ queue[r] = "visible" /\ queue' = [queue EXCEPT ![r] = "hidden"]
        /\ receiver' = [receiver EXCEPT ![r] = n]
        /\ node[n] = "free" /\ node' = [node EXCEPT ![n] = "busy"]
        /\ work' = [work EXCEPT ![n] = r]
        /\ UNCHANGED <<step, gone, cache, answers, again, desired, retried, submit>>
    BY <1>1 DEF AcquireEvaluationWork, Takes
  <2>2. TypeOKEvaluation'
    BY <2>1
  <2>3. SubmitInv'
    BY <2>1 DEF SubmitInv, RemovedIsAnswered
  <2>4. OnceInv'
    BY <2>1 DEF OnceInv
  <2>5. QED
    BY <2>2, <2>3, <2>4
<1>2. CASE Evaluate(n)
  <2>1. TypeOKEvaluation'
    BY <1>2 DEF Evaluate
  <2>2. SubmitInv'
    BY <1>2 DEF Evaluate, SubmitInv, RemovedIsAnswered
  <2>3. OnceInv'
    BY <1>2 DEF Evaluate, OnceInv
  <2>4. QED
    BY <2>1, <2>2, <2>3
<1>3. CASE AcquireFails(n)
  <2>1. submit[n] = "none"
    BY <1>3 DEF AcquireFails, SubmitInv
  <2>2. submit' = [submit EXCEPT ![n] = "none"]
    BY <1>3, <2>1 DEF AcquireFails
  <2>3. QED
    BY <1>3, <2>2, LetGo DEF AcquireFails, Error
<1>4. CASE EvaluateFails(n)
  <2>1. submit[n] = "none"
    BY <1>4 DEF EvaluateFails, SubmitInv
  <2>2. submit' = [submit EXCEPT ![n] = "none"]
    BY <1>4, <2>1 DEF EvaluateFails
  <2>3. QED
    BY <1>4, <2>2, LetGo DEF EvaluateFails, Error
<1>5. CASE StartNode(n)
  <2>1. TypeOKEvaluation'
    BY <1>5 DEF StartNode
  <2>2. SubmitInv'
    BY <1>5 DEF StartNode, SubmitInv, RemovedIsAnswered
  <2>3. OnceInv'
    BY <1>5 DEF StartNode, OnceInv
  <2>4. QED
    BY <2>1, <2>2, <2>3
<1>6. CASE Stop(n)
  <2>1. /\ node' = [node EXCEPT ![n] = "off"] /\ desired' \in Nat
        /\ work' = IF submit[n] = "none" THEN [work EXCEPT ![n] = NoRequest] ELSE work
        /\ retried' = retried \ {n}
        /\ UNCHANGED <<step, gone, cache, answers, queue, receiver, again, submit>>
    BY <1>6 DEF Stop
  <2>2. TypeOKEvaluation'
    BY <2>1
  <2>3. SubmitInv'
    BY <2>1 DEF SubmitInv, RemovedIsAnswered
  <2>4. OnceInv'
    BY <2>1 DEF OnceInv
  <2>5. QED
    BY <2>2, <2>3, <2>4
<1>7. QED
  BY <1>1, <1>2, <1>3, <1>4, <1>5, <1>6 DEF NodeStep

(* The evaluationSubmit function: post, store, remove. *)
LEMMA SubmitKeeps ==
  ASSUME EvaluationInv, NEW n \in Nodes, SubmitStep(n) \/ SubmitFails(n)
  PROVE  EvaluationInv'
<1> USE ConstantsAssumption
        DEF EvaluationInv, TypeOKEvaluation, queueVars, requestVars, Continue
<1>1. PICK r \in Requests : r = work[n]
  BY DEF SubmitStep, Post, PutEvaluation, RemoveEvaluationWork, AssignMore, SubmitFails
<1>2. CASE Post(n)
  <2>1. /\ submit[n] = "post" /\ submit' = [submit EXCEPT ![n] = "store"]
        /\ UNCHANGED <<step, gone, cache, queue, receiver, again, desired, node, retried, work>>
        /\ PostToConnection(r)
    BY <1>1, <1>2 DEF Post
  <2>2. /\ answers' \in [Requests -> 0 .. 2]
        /\ \A q \in Requests \ {r} : answers'[q] = answers[q]
        /\ answers'[r] > 0 \/ r \in gone
        /\ answers'[r] <= answers[r] + 1 /\ answers'[r] >= answers[r]
    BY <2>1 DEF PostToConnection, Answer
  <2>3. TypeOKEvaluation'
    BY <2>1, <2>2
  <2>4. SubmitInv'
    BY <1>1, <2>1, <2>2 DEF SubmitInv, RemovedIsAnswered
  <2>5. OnceInv'
    <3>1. node[n] # "busy" /\ queue[r] # "none"
      BY <1>1, <2>1 DEF SubmitInv, OnceInv
    <3>2. r \notin again => answers[r] = 0 /\ queue[r] # "visible"
      BY <1>1, <2>1 DEF OnceInv
    <3>3. \A q \in Requests \ again : answers'[q] <= 1
      BY <2>2, <3>2 DEF OnceInv
    <3>4. QED
      BY <1>1, <2>1, <2>2, <3>1, <3>2, <3>3 DEF OnceInv
  <2>6. QED
    BY <2>3, <2>4, <2>5
<1>3. CASE PutEvaluation(n)
  <2>1. /\ submit[n] = "store" /\ submit' = [submit EXCEPT ![n] = "remove"]
        /\ UNCHANGED <<step, gone, answers, queue, receiver, again, desired, node, retried, work>>
        /\ cache' = cache \cup {FenOf[r]}
    BY <1>1, <1>3 DEF PutEvaluation
  <2>2. TypeOKEvaluation'
    BY <2>1
  <2>3. SubmitInv'
    BY <1>1, <2>1 DEF SubmitInv, RemovedIsAnswered
  <2>4. OnceInv'
    BY <2>1 DEF OnceInv
  <2>5. QED
    BY <2>2, <2>3, <2>4
<1>4. CASE RemoveEvaluationWork(n)
  <2>1. /\ submit[n] = "remove" /\ submit' = [submit EXCEPT ![n] = "more"]
        /\ UNCHANGED <<step, gone, cache, answers, receiver, again, desired, node, retried, work>>
        /\ queue' = queue \/ (queue[r] # "none" /\ queue' = [queue EXCEPT ![r] = "removed"])
    BY <1>1, <1>4 DEF RemoveEvaluationWork
  <2>2. (answers[r] > 0 \/ r \in gone) /\ FenOf[r] \in cache
    BY <1>1, <2>1 DEF SubmitInv
  <2>3. TypeOKEvaluation'
    BY <2>1
  <2>4. SubmitInv'
    BY <2>1, <2>2 DEF SubmitInv, RemovedIsAnswered
  <2>5. OnceInv'
    BY <2>1 DEF OnceInv
  <2>6. QED
    BY <2>3, <2>4, <2>5
<1>5. CASE AssignMore(n)
  <2>1. node[n] \in {"off", "waiting"}
    BY <1>5 DEF AssignMore, SubmitInv
  <2>2. PICK next \in {"off", "free"} : node' = [node EXCEPT ![n] = next]
    BY <1>5, <2>1 DEF AssignMore, Returned
  <2>3. QED
    BY <1>5, <2>2, LetGo DEF AssignMore, Returned
<1>6. CASE SubmitFails(n)
  <2>1. node[n] \in {"off", "waiting"}
    BY <1>6 DEF SubmitFails, SubmitInv
  <2>2. PICK next \in {"off", "free"} : node' = [node EXCEPT ![n] = next]
    BY <1>6, <2>1 DEF SubmitFails, Error
  <2>3. retried' \subseteq Nodes /\ work' = [work EXCEPT ![n] = NoRequest]
    BY <1>6 DEF SubmitFails, Error
  <2>4. QED
    BY <1>6, <2>2, <2>3, LetGo DEF SubmitFails
<1>7. QED
  BY <1>2, <1>3, <1>4, <1>5, <1>6 DEF SubmitStep

LEMMA EvaluationKeeps == EvaluationInv /\ [Next]_vars => EvaluationInv'
<1> SUFFICES ASSUME EvaluationInv, [Next]_vars PROVE EvaluationInv'
  OBVIOUS
<1>1. ASSUME UNCHANGED <<requestVars, answers, queueVars, nodeVars>>, desired' \in Nat
      PROVE  EvaluationInv'
  <2> USE DEF EvaluationInv, TypeOKEvaluation, requestVars, queueVars, nodeVars
  <2>1. TypeOKEvaluation'
    BY <1>1
  <2>2. SubmitInv'
    BY <1>1 DEF SubmitInv, RemovedIsAnswered
  <2>3. OnceInv'
    BY <1>1 DEF OnceInv
  <2>4. QED
    BY <2>1, <2>2, <2>3
<1>2. CASE ScaleOut
  BY <1>1, <1>2 DEF ScaleOut, EvaluationInv, TypeOKEvaluation
<1>3. CASE UNCHANGED vars
  BY <1>1, <1>3 DEF vars, EvaluationInv, TypeOKEvaluation
<1>4. QED
  BY <1>2, <1>3, AskKeeps, RequestKeeps, NodeKeeps, SubmitKeeps DEF Next

(* Every state of the service has its type.                                *)
THEOREM EvaluationTypeCorrect == Spec => []TypeOKEvaluation
<1>1. EvaluationInv => TypeOKEvaluation
  BY DEF EvaluationInv
<1>2. QED
  BY EvaluationInit, EvaluationKeeps, <1>1, PTL DEF Spec

(* What left the queue was answered and cached (RemovedIsAnswered), for    *)
(* any requests and nodes and wherever they stop.                          *)
THEOREM NothingIsDropped == Spec => []RemovedIsAnswered
<1>1. EvaluationInv => RemovedIsAnswered
  BY DEF EvaluationInv, SubmitInv
<1>2. QED
  BY EvaluationInit, EvaluationKeeps, <1>1, PTL DEF Spec

(* Nobody is answered twice without a timeout (AnsweredOnce), for any      *)
(* requests, nodes and failures.                                           *)
THEOREM NothingIsRepeated == Spec => []AnsweredOnce
<1>1. ASSUME EvaluationInv PROVE AnsweredOnce
  BY <1>1 DEF EvaluationInv, OnceInv, TypeOKEvaluation, AnsweredOnce
<1>2. EvaluationInv => AnsweredOnce
  BY <1>1
<1>3. QED
  BY EvaluationInit, EvaluationKeeps, <1>2, PTL DEF Spec
=============================================================================
