----------------------------- MODULE Evaluation -----------------------------
(***************************************************************************)
(* The evaluation of positions: a user's request is answered by lichess,   *)
(* from the cache, or by an analysis node that takes it from a queue and   *)
(* submits the result.  A message that is received stays in the queue,     *)
(* hidden until its visibility timeout, and is removed by its receipt.     *)
(*                                                                         *)
(* A request is its message.  A node's own loop waits for each function it *)
(* calls; a function that was called goes on if the node dies.             *)
(***************************************************************************)
EXTENDS Naturals, FiniteSets

CONSTANTS Requests, Fens,
          FenOf,        \* the position each request asks for
          Nodes,        \* the tasks the analysis service may run
          NoRequest, NoNode,
          MaxMishaps    \* bound: calls that fail, nodes that are stopped
                        \* and evaluations that outlast the visibility

ASSUME ConstantsAssumption ==
  /\ FenOf \in [Requests -> Fens]
  /\ NoRequest \notin Requests /\ NoNode \notin Nodes
  /\ IsFiniteSet(Nodes)
  /\ MaxMishaps \in Nat

VARIABLES
  step,     \* where the evaluate function is for each request
  gone,     \* requests whose connection is closed
  answers,  \* evaluations posted to the connection of each request (0, 1, many)
  cache,    \* table Evaluations
  queue,    \* EvaluationRequestQueue: the state of each message
  receiver, \* the node with the latest receipt of each message
  again,    \* messages that became visible again
  desired,  \* DesiredCount of the service
  node,     \* the loop of each node
  retried,  \* nodes whose loop runs for the second time
  work,     \* the request each node (or function called by it) works on
  submit,   \* the evaluationSubmit function each node called
  mishaps,  \* mishaps so far
  excused   \* a call failed or the service was scaled in

requestVars == <<step, gone, cache>>
queueVars == <<queue, receiver, again>>
nodeVars == <<node, retried, work, submit>>
bounds == <<mishaps, excused>>
vars == <<requestVars, answers, queueVars, desired, nodeVars, bounds>>

Init ==
  /\ step = [r \in Requests |-> "new"]
  /\ gone = {}
  /\ answers = [r \in Requests |-> 0]
  /\ cache = {}
  /\ queue = [r \in Requests |-> "none"]
  /\ receiver = [r \in Requests |-> NoNode]
  /\ again = {}
  /\ desired = 0
  /\ node = [n \in Nodes |-> "off"]
  /\ retried = {}
  /\ work = [n \in Nodes |-> NoRequest]
  /\ submit = [n \in Nodes |-> "none"]
  /\ mishaps = 0 /\ excused = FALSE

Mishap == mishaps < MaxMishaps /\ mishaps' = mishaps + 1
Failed == Mishap /\ excused' = TRUE

(* answers counts no further than 2. *)
Answer(r) == answers' = [answers EXCEPT ![r] = IF @ = 2 THEN 2 ELSE @ + 1]

(***************************************************************************)
(* The evaluate function.                                                  *)
(***************************************************************************)

Goto(r, s) == step' = [step EXCEPT ![r] = s]

PostToConnection(r) == IF r \in gone THEN UNCHANGED answers ELSE Answer(r)

(* Lichess, who is asked first, knows the position or not. *)
Ask(r) ==
  /\ step[r] = "new" /\ r \notin gone
  /\ \/ PostToConnection(r) /\ Goto(r, "done")
     \/ UNCHANGED answers /\ Goto(r, "cache")
  /\ UNCHANGED <<gone, cache, queueVars, desired, nodeVars, bounds>>

GetEvaluation(r) ==
  /\ step[r] = "cache"
  /\ IF FenOf[r] \in cache
     THEN PostToConnection(r) /\ Goto(r, "done")
     ELSE UNCHANGED answers /\ Goto(r, "send")
  /\ UNCHANGED <<gone, cache, queueVars, desired, nodeVars, bounds>>

SubmitEvaluationRequest(r) ==
  /\ step[r] = "send"
  /\ queue' = [queue EXCEPT ![r] = "visible"]
  /\ Goto(r, "node")
  /\ UNCHANGED <<gone, cache, answers, receiver, again, desired, nodeVars, bounds>>

Running == {n \in Nodes : node[n] # "off"}

(* Mutant: the service is scaled to what it runs.                          *)
ScaleToRunning(r) ==
  /\ step[r] = "node"
  /\ desired' = Cardinality(Running)
  /\ Goto(r, "done")
  /\ UNCHANGED <<gone, cache, answers, queueVars, nodeVars, bounds>>

CheckAndStartNewTask(r) ==
  /\ step[r] = "node"
  /\ desired' = IF Running = {} THEN 1 ELSE desired
  /\ Goto(r, "done")
  /\ UNCHANGED <<gone, cache, answers, queueVars, nodeVars, bounds>>

(* Any call may fail. *)
AskFails(r) ==
  /\ step[r] \in {"cache", "send", "node"}
  /\ Goto(r, "done")
  /\ Failed
  /\ UNCHANGED <<gone, cache, answers, queueVars, desired, nodeVars>>

(***************************************************************************)
(* A node's loop.  An error ends Start, and the argument of logging.Fatal  *)
(* in main runs it once more before the process exits.                     *)
(***************************************************************************)

Takes(n, r) ==
  /\ queue[r] = "visible"
  /\ queue' = [queue EXCEPT ![r] = "hidden"]
  /\ receiver' = [receiver EXCEPT ![r] = n]
  /\ UNCHANGED again

Error(n) ==
  /\ node' = [node EXCEPT ![n] = IF n \in retried THEN "off" ELSE "free"]
  /\ retried' = IF n \in retried THEN retried \ {n} ELSE retried \cup {n}
  /\ work' = [work EXCEPT ![n] = NoRequest]

AcquireEvaluationWork(n, r) ==
  /\ node[n] = "free" /\ Takes(n, r)
  /\ node' = [node EXCEPT ![n] = "busy"]
  /\ work' = [work EXCEPT ![n] = r]
  /\ UNCHANGED <<requestVars, answers, desired, retried, submit, bounds>>

(* The call fails, or its response is lost with the work in it. *)
AcquireFails(n) ==
  /\ node[n] = "free"
  /\ \/ \E r \in Requests : Takes(n, r)
     \/ UNCHANGED queueVars
  /\ Error(n) /\ Failed
  /\ UNCHANGED <<requestVars, answers, desired, submit>>

Evaluate(n) ==
  /\ node[n] = "busy"
  /\ node' = [node EXCEPT ![n] = "waiting"]
  /\ submit' = [submit EXCEPT ![n] = "post"]
  /\ UNCHANGED <<requestVars, answers, queueVars, desired, retried, work, bounds>>

EvaluateFails(n) ==
  /\ node[n] = "busy"
  /\ Error(n) /\ Failed
  /\ UNCHANGED <<requestVars, answers, queueVars, desired, submit>>

(***************************************************************************)
(* The evaluationSubmit function.                                          *)
(***************************************************************************)

Continue(n, s) ==
  /\ submit' = [submit EXCEPT ![n] = s]
  /\ UNCHANGED <<node, retried, work>>

(* A closed connection is no error. *)
Post(n) ==
  /\ submit[n] = "post"
  /\ PostToConnection(work[n])
  /\ Continue(n, "store")
  /\ UNCHANGED <<requestVars, queueVars, desired, bounds>>

(* Mutant: the request is removed after the post; the cache comes last.    *)
StoreLater(n) ==
  /\ submit[n] = "store"
  /\ Continue(n, "remove")
  /\ UNCHANGED <<requestVars, answers, queueVars, desired, bounds>>

PutEvaluation(n) ==
  /\ submit[n] = "store"
  /\ cache' = cache \cup {FenOf[work[n]]}
  /\ Continue(n, "remove")
  /\ UNCHANGED <<step, gone, answers, queueVars, desired, bounds>>

(* DeleteMessage succeeds; with an old receipt it may have no effect. *)
RemoveEvaluationWork(n) ==
  /\ submit[n] = "remove"
  /\ \/ /\ queue[work[n]] \in {"visible", "hidden"}
        /\ queue' = [queue EXCEPT ![work[n]] = "removed"]
     \/ /\ receiver[work[n]] # n \/ queue[work[n]] \notin {"visible", "hidden"}
        /\ UNCHANGED queue
  /\ Continue(n, "more")
  /\ UNCHANGED <<requestVars, answers, receiver, again, desired, bounds>>

(* The function returns to the loop, if that still runs. *)
Returned(n) ==
  /\ submit' = [submit EXCEPT ![n] = "none"]
  /\ work' = [work EXCEPT ![n] = NoRequest]
  /\ node' = [node EXCEPT ![n] = IF @ = "waiting" THEN "free" ELSE @]
  /\ UNCHANGED retried

(* Mutant: the loop takes the response for work, even if there is none.    *)
MoreOfNothing(n) ==
  /\ submit[n] = "more"
  /\ submit' = [submit EXCEPT ![n] = "none"]
  /\ work' = [work EXCEPT ![n] = NoRequest]
  /\ node' = [node EXCEPT ![n] = IF @ = "waiting" THEN "busy" ELSE @]
  /\ UNCHANGED <<requestVars, answers, queueVars, desired, retried, bounds>>

(* More work comes with StatusOK, which the loop takes for the end of      *)
(* work: the new message is hidden, and nobody has it.                     *)
AssignMore(n) ==
  /\ submit[n] = "more"
  /\ \/ \E r \in Requests : Takes(n, r)
     \/ /\ \A r \in Requests : queue[r] # "visible"
        /\ UNCHANGED queueVars
  /\ Returned(n)
  /\ UNCHANGED <<requestVars, answers, desired, bounds>>

(* Mutant: a failed submission is tried again.                             *)
SubmitAgain(n) ==
  /\ submit[n] # "none"
  /\ Failed
  /\ submit' = [submit EXCEPT ![n] = "post"]
  /\ UNCHANGED <<requestVars, answers, queueVars, desired, node, retried, work>>

SubmitFails(n) ==
  /\ submit[n] # "none"
  /\ Failed
  /\ submit' = [submit EXCEPT ![n] = "none"]
  /\ IF node[n] = "waiting" THEN Error(n)
     ELSE /\ work' = [work EXCEPT ![n] = NoRequest]
          /\ UNCHANGED <<node, retried>>
  /\ UNCHANGED <<requestVars, answers, queueVars, desired>>

(***************************************************************************)
(* What goes on around it.                                                 *)
(***************************************************************************)

(* The user's websocket closes. *)
Close(r) ==
  /\ r \notin gone
  /\ gone' = gone \cup {r}
  /\ UNCHANGED <<step, cache, answers, queueVars, desired, nodeVars, bounds>>

Held(r) == \E n \in Nodes : work[n] = r

(* VisibilityTimeout. *)
TimeOut(r) ==
  /\ queue[r] = "hidden"
  /\ IF Held(r) THEN Mishap ELSE UNCHANGED mishaps
  /\ queue' = [queue EXCEPT ![r] = "visible"]
  /\ again' = again \cup {r}
  /\ UNCHANGED <<requestVars, answers, receiver, desired, nodeVars, excused>>

(* MessageRetentionPeriod; that a hidden message is too old shows when it  *)
(* would be visible again.                                                 *)
Expire(r) ==
  /\ queue[r] = "visible"
  /\ queue' = [queue EXCEPT ![r] = "expired"]
  /\ UNCHANGED <<requestVars, answers, receiver, again, desired, nodeVars, bounds>>

(* ECS starts what is desired; the scaling policy may ask for more. *)
StartNode(n) ==
  /\ node[n] = "off" /\ submit[n] = "none"
  /\ Cardinality(Running) < desired
  /\ node' = [node EXCEPT ![n] = "free"]
  /\ UNCHANGED <<requestVars, answers, queueVars, desired, retried, work,
                 submit, bounds>>

ScaleOut ==
  /\ desired > 0 /\ desired < Cardinality(Nodes)
  /\ desired' = desired + 1
  /\ UNCHANGED <<requestVars, answers, queueVars, nodeVars, bounds>>

(* Scale-in, a spot interruption or a crash.  SIGTERM cancels the context  *)
(* of every call of the loop, so that nothing more is submitted.           *)
Stop(n) ==
  /\ node[n] # "off"
  /\ Mishap
  /\ \/ UNCHANGED <<desired, excused>>
     \/ desired > 0 /\ desired' = desired - 1 /\ excused' = TRUE
  /\ node' = [node EXCEPT ![n] = "off"]
  /\ work' = IF submit[n] = "none" THEN [work EXCEPT ![n] = NoRequest] ELSE work
  /\ retried' = retried \ {n}
  /\ UNCHANGED <<requestVars, answers, queueVars, submit>>

AskStep(r) == \/ GetEvaluation(r) \/ SubmitEvaluationRequest(r)
              \/ CheckAndStartNewTask(r)
SubmitStep(n) == \/ Post(n) \/ PutEvaluation(n) \/ RemoveEvaluationWork(n)
                 \/ AssignMore(n)
NodeStep(n) == \/ \E r \in Requests : AcquireEvaluationWork(n, r)
               \/ Evaluate(n)

Next ==
  \/ \E r \in Requests : \/ Ask(r) \/ AskStep(r) \/ AskFails(r)
                         \/ Close(r) \/ TimeOut(r) \/ Expire(r)
  \/ \E n \in Nodes : \/ NodeStep(n) \/ SubmitStep(n)
                      \/ AcquireFails(n) \/ EvaluateFails(n) \/ SubmitFails(n)
                      \/ StartNode(n) \/ Stop(n)
  \/ ScaleOut

(* Functions that run, nodes, ECS and the visibility timeout make          *)
(* progress.  Nothing makes users ask or messages expire.                  *)
Fairness ==
  /\ WF_vars(\E r \in Requests : AskStep(r))
  /\ \A r \in Requests : WF_vars(TimeOut(r))
  /\ \A n \in Nodes : WF_vars(NodeStep(n) \/ SubmitStep(n))
  /\ WF_vars(\E n \in Nodes : StartNode(n))

Spec == Init /\ [][Next]_vars /\ Fairness

(***************************************************************************)
(* Properties.                                                             *)
(***************************************************************************)

TypeOKEvaluation ==
  /\ step \in [Requests -> {"new", "cache", "send", "node", "done"}]
  /\ gone \subseteq Requests
  /\ answers \in [Requests -> 0 .. 2]
  /\ cache \subseteq Fens
  /\ queue \in [Requests -> {"none", "visible", "hidden", "removed", "expired"}]
  /\ receiver \in [Requests -> Nodes \cup {NoNode}]
  /\ again \subseteq Requests
  /\ desired \in Nat
  /\ node \in [Nodes -> {"off", "free", "busy", "waiting"}]
  /\ retried \subseteq Nodes
  /\ work \in [Nodes -> Requests \cup {NoRequest}]
  /\ submit \in [Nodes -> {"none", "post", "store", "remove", "more"}]
  /\ \A n \in Nodes : node[n] = "busy" \/ submit[n] # "none" => work[n] # NoRequest

(* A request leaves the queue by hand only after its user got an answer or *)
(* went away, and after the answer was cached for other users: at whatever *)
(* step a node or a function stops, the message is still there.            *)
RemovedIsAnswered ==
  \A r \in Requests :
    queue[r] = "removed" => (answers[r] > 0 \/ r \in gone) /\ FenOf[r] \in cache

(* A user is answered twice only after the visibility timeout of the       *)
(* request: no function or node that fails half-way repeats its post.      *)
AnsweredOnce ==
  \A r \in Requests : answers[r] > 1 => r \in again

(* A request that was queued is answered, whoever stops half-way with it,  *)
(* unless its user leaves, it expires, a call fails or the service is      *)
(* scaled in.                                                              *)
QueuedIsAnswered ==
  \A r \in Requests :
    step[r] = "done" /\ queue[r] = "visible"
      ~> \/ answers[r] > 0 \/ r \in gone \/ queue[r] = "expired"
         \/ excused

(***************************************************************************)
(* A statement of the code that does not hold.                             *)
(***************************************************************************)

(* "Assign more work" (cmd/lambda/evaluationSubmit/main.go:114): work that *)
(* left the queue is with a node, as long as no call fails and no node is  *)
(* stopped.                                                                *)
AssignedWorkIsHeld ==
  mishaps = 0 => \A r \in Requests : queue[r] = "hidden" => Held(r)

=============================================================================
