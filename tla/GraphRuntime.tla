---------------------------- MODULE GraphRuntime ----------------------------
(***************************************************************************)
(* The frontier loop of suluv.core.engine: GraphRuntime drives one         *)
(* ExecutionState through a GraphDefinition.  Each turn of the loop (a     *)
(* "wave") runs every ready node as an asyncio task under a semaphore, the *)
(* NodeExecutor applies the error policy of the node's first incoming      *)
(* edge, and the next frontier is computed when the whole wave has ended.  *)
(*                                                                         *)
(* A step of the model is the code between two awaits.  A task stands for  *)
(* one frontier node ("root"); a fallback node runs inside the task, and   *)
(* the semaphore slot, of the node that failed.                            *)
(***************************************************************************)
EXTENDS Naturals, Sequences, FiniteSets

CONSTANTS
  Node,           \* the node ids of the graphs
  Val,            \* the outputs a node can return, as far as edges tell them apart
  None,           \* Python's None: no output stored, no fallback node, nothing saved
  Graphs,         \* the graph definitions a runtime may be given
  MaxConcurrency, \* max_concurrency, the size of the semaphore
  HasStore,       \* whether the runtime was given a StateStore
  MaxResumes      \* bound: calls of resume() the model explores

Output == Val \cup {None}

Policy == {"FAIL_FAST", "RETRY", "SKIP", "FALLBACK"}

\* An edge into some node.  condition(output) and task_transform(output) are
\* functions of the source's stored output; either may raise on some outputs.
Edge == [src         : Node,
         policy      : Policy,
         fallback    : Node \cup {None},
         retries     : Nat,
         fires       : SUBSET Output,
         condRaises  : SUBSET Output,
         xformRaises : SUBSET Output]

\* A graph that passed validate(): in[n] lists the edges into n in the order
\* they were added.
GraphDefinition == [in    : [Node -> Seq(Edge)],
                    entry : SUBSET Node,
                    exit  : SUBSET Node]

\* How a call ended, and the success flag of the ExecutionResult it returned.
Verdict == [kind : {"none", "completed", "cancelled", "aborted"}, success : BOOLEAN]

NoVerdict == [kind |-> "none", success |-> FALSE]

Aborted == [kind |-> "aborted", success |-> FALSE]

NodeState == {"PENDING", "RUNNING", "DONE", "SKIPPED", "FAILED", "CANCELLED"}

\* to_dict(), as far as it is modelled.
StateDict == [states : [Node -> NodeState], outputs : [Node -> Output], errors : SUBSET Node]

ASSUME NodeAssumption   == IsFiniteSet(Node) /\ None \notin Node
ASSUME ValAssumption    == None \notin Val
ASSUME NoneAssumption   == None \notin StateDict
ASSUME GraphsAssumption == Graphs \subseteq GraphDefinition
ASSUME BoundsAssumption == /\ MaxConcurrency \in Nat \ {0}
                           /\ HasStore \in BOOLEAN
                           /\ MaxResumes \in Nat

VARIABLES
  graph,      \* the GraphDefinition (never changes)
  phase,      \* where the coroutine of run() / resume() is
  mode,       \* "run" or "resume": which of the two is executing
  nodeState,  \* ExecutionState.node_states
  nodeOutput, \* ExecutionState.node_outputs, None where there is no entry
  nodeErrors, \* the keys of ExecutionState.node_errors
  frontier,   \* the nodes of the current wave, or of the next one
  iteration,  \* the loop counter that the safety limit is about
  cancelled,  \* CancellationToken._cancelled
  pc,         \* pc[r]: where the task of frontier node r is, inside gather()
  cur,        \* cur[r]: the node it executes, r or a fallback
  attempt,    \* attempt[r]: the executor's attempt counter
  started,    \* started[n]: NodeStarted events emitted for n
  closed,     \* closed[n]: NodeCompleted and NodeFailed events emitted for n
  saved,      \* what was last written to the StateStore
  result,     \* the ExecutionResult, or the exception, of the last call
  resumes,    \* calls of resume() so far
  forced      \* history: the nodes that resume() made DONE out of PENDING

state == <<nodeState, nodeOutput, nodeErrors>>
loop  == <<phase, frontier, iteration>>
task  == <<pc, cur, attempt>>
call  == <<mode, result, resumes, forced>>
vars  == <<graph, state, loop, call, cancelled, task, started, closed, saved>>

-----------------------------------------------------------------------------
(* The graph, and what the state says about it.                            *)

Incoming(n) == graph.in[n]

Preds(n) == {Incoming(n)[i].src : i \in DOMAIN Incoming(n)}

HasIncoming(n) == Incoming(n) # << >>

\* The executor takes its policy from incoming[0], whichever edge fired.
PolicyOf(n)   == IF HasIncoming(n) THEN Incoming(n)[1].policy ELSE "FAIL_FAST"
RetriesOf(n)  == IF HasIncoming(n) THEN Incoming(n)[1].retries ELSE 3
FallbackOf(n) == IF HasIncoming(n) /\ PolicyOf(n) = "FALLBACK"
                   THEN Incoming(n)[1].fallback
                   ELSE None

Settled == {"DONE", "SKIPPED"}

\* The edges _compute_frontier looks at before it meets an unsettled source.
Inspected(n, st) ==
  {i \in DOMAIN Incoming(n) : \A j \in 1..i : st[Incoming(n)[j].src] \in Settled}

ConditionRaises(n, st, out) ==
  \E i \in Inspected(n, st) : out[Incoming(n)[i].src] \in Incoming(n)[i].condRaises

\* Wrong on purpose, like every definition so marked below: the runs are
\* repeated with it in place of the one that follows, to see a property fail.
\* Here an OR-join ...
ReadyAtAnySource(n, st, out) ==
  /\ st[n] = "PENDING"
  /\ IF HasIncoming(n)
       THEN \E i \in DOMAIN Incoming(n) :
              /\ st[Incoming(n)[i].src] \in Settled
              /\ out[Incoming(n)[i].src] \in Incoming(n)[i].fires
       ELSE n \in graph.entry

\* ... and here a node that has settled is run again.
ReadyOnceMore(n, st, out) ==
  /\ st[n] # "RUNNING"
  /\ IF HasIncoming(n)
       THEN /\ \A p \in Preds(n) : st[p] \in Settled
            /\ \E i \in DOMAIN Incoming(n) :
                 out[Incoming(n)[i].src] \in Incoming(n)[i].fires
       ELSE n \in graph.entry

Ready(n, st, out) ==
  /\ st[n] = "PENDING"
  /\ IF HasIncoming(n)
       THEN /\ \A p \in Preds(n) : st[p] \in Settled
            /\ \E i \in DOMAIN Incoming(n) :
                 out[Incoming(n)[i].src] \in Incoming(n)[i].fires
       ELSE n \in graph.entry

TransformRaises(n) ==
  \E i \in DOMAIN Incoming(n) :
    nodeOutput[Incoming(n)[i].src] \in Incoming(n)[i].xformRaises

\* Wrong on purpose: the longest chain needs one turn more.
MaxIterationsTooFew == Cardinality(Node) - 1

MaxIterations == 3 * Cardinality(Node)

-----------------------------------------------------------------------------
(* Tasks.                                                                  *)

TaskPc == {"none",      \* no task for this node in the current wave
           "queued",    \* waiting for the semaphore
           "started",   \* NodeStarted emitted, input not built yet
           "executing", \* inside node.execute()
           "sleeping",  \* between two attempts of the RETRY policy
           "failed",    \* recorded FAILED, fallback not considered yet
           "raised",    \* ended with an exception for gather() to return
           "ended"}

\* Wrong on purpose: the slot is given back only when the wave is over.
HoldsSlotForTheWave(r) == pc[r] \notin {"none", "queued"}

HoldsSlot(r) == pc[r] \in {"started", "executing", "sleeping", "failed"}

TypeOK ==
  /\ graph \in Graphs
  /\ phase \in {"idle", "loop", "wave", "save", "finished"}
  /\ mode \in {"run", "resume"}
  /\ nodeState \in [Node -> NodeState]
  /\ nodeOutput \in [Node -> Output]
  /\ nodeErrors \subseteq Node
  /\ frontier \subseteq Node
  /\ iteration \in Nat
  /\ cancelled \in BOOLEAN
  /\ pc \in [Node -> TaskPc]
  /\ cur \in [Node -> Node]
  /\ attempt \in [Node -> Nat]
  /\ started \in [Node -> Nat]
  /\ closed \in [Node -> Nat]
  /\ saved \in StateDict \cup {None}
  /\ result \in Verdict
  /\ resumes \in Nat
  /\ forced \subseteq Node

Init ==
  /\ graph \in Graphs
  /\ phase = "idle"
  /\ mode = "run"
  /\ nodeState = [n \in Node |-> "PENDING"]
  /\ nodeOutput = [n \in Node |-> None]
  /\ nodeErrors = {}
  /\ frontier = {}
  /\ iteration = 0
  /\ cancelled = FALSE
  /\ pc = [n \in Node |-> "none"]
  /\ cur = [n \in Node |-> n]
  /\ attempt = [n \in Node |-> 0]
  /\ started = [n \in Node |-> 0]
  /\ closed = [n \in Node |-> 0]
  /\ saved = None
  /\ result = NoVerdict
  /\ resumes = 0
  /\ forced = {}

-----------------------------------------------------------------------------
(* run(), resume() and cancel().                                           *)

\* run() on a fresh ExecutionState: the first frontier is the entry nodes.
Run ==
  /\ phase = "idle"
  /\ phase' = "loop"
  /\ frontier' = graph.entry
  /\ UNCHANGED <<graph, state, iteration, call, cancelled, task, started, closed, saved>>

\* CancellationToken.cancel(), from anywhere, at any time.
Cancel ==
  /\ ~cancelled
  /\ cancelled' = TRUE
  /\ UNCHANGED <<graph, state, loop, call, task, started, closed, saved>>

Success(st) ==
  IF mode = "run" /\ graph.exit # {}
    THEN \A n \in graph.exit : st[n] \in Settled
    ELSE nodeErrors = {}

Return(kind, st) ==
  /\ phase' = "finished"
  /\ result' = [kind |-> kind, success |-> Success(st)]
  /\ UNCHANGED <<mode, resumes, forced>>

\* An exception other than CancellationError: run() turns it into a failed
\* result, resume() lets it reach the caller.
Abort ==
  /\ phase' = "finished"
  /\ result' = Aborted
  /\ UNCHANGED <<mode, resumes, forced>>

\* resume() on the state that a call left behind, for any node: whatever it was,
\* it is DONE now.  Only successors of n make up the first frontier.
Resume(n, v) ==
  /\ phase = "finished"
  /\ resumes < MaxResumes
  /\ resumes' = resumes + 1
  /\ forced' = IF nodeState[n] = "PENDING" THEN forced \cup {n} ELSE forced
  /\ mode' = "resume"
  /\ nodeState' = [nodeState EXCEPT ![n] = "DONE"]
  /\ nodeOutput' = [nodeOutput EXCEPT ![n] = v]
  /\ iteration' = 0
  /\ LET candidates == {m \in Node : n \in Preds(m) /\ nodeState'[m] = "PENDING"}
     IN  IF \E m \in candidates : ConditionRaises(m, nodeState', nodeOutput')
           THEN /\ phase' = "finished"
                /\ frontier' = {}
                /\ result' = Aborted
           ELSE /\ phase' = "loop"
                /\ frontier' = {m \in candidates : Ready(m, nodeState', nodeOutput')}
                /\ result' = NoVerdict
  /\ UNCHANGED <<graph, nodeErrors, cancelled, task, started, closed, saved>>

-----------------------------------------------------------------------------
(* The loop of _execute_graph.                                             *)

LoopGoesOn == frontier # {} /\ iteration < MaxIterations

BeginWave ==
  /\ phase = "loop"
  /\ LoopGoesOn
  /\ ~cancelled
  /\ phase' = "wave"
  /\ iteration' = iteration + 1
  /\ pc' = [n \in Node |-> IF n \in frontier THEN "queued" ELSE "none"]
  /\ UNCHANGED <<graph, state, frontier, cur, attempt, call, cancelled, started, closed, saved>>

\* Wrong on purpose: only the nodes that are RUNNING are cancelled.
StopRunning ==
  /\ phase = "loop"
  /\ LoopGoesOn
  /\ cancelled
  /\ iteration' = iteration + 1
  /\ nodeState' = [n \in Node |-> IF nodeState[n] = "RUNNING" THEN "CANCELLED" ELSE nodeState[n]]
  /\ Return("cancelled", nodeState')
  /\ UNCHANGED <<graph, nodeOutput, nodeErrors, frontier, cancelled, task, started, closed, saved>>

\* check() raises: run() cancels what has not settled, resume() returns as is.
StopCancelled ==
  /\ phase = "loop"
  /\ LoopGoesOn
  /\ cancelled
  /\ iteration' = iteration + 1
  /\ nodeState' = [n \in Node |->
                     IF mode = "run" /\ nodeState[n] \in {"RUNNING", "PENDING"}
                       THEN "CANCELLED"
                       ELSE nodeState[n]]
  /\ Return("cancelled", nodeState')
  /\ UNCHANGED <<graph, nodeOutput, nodeErrors, frontier, cancelled, task, started, closed, saved>>

Finish ==
  /\ phase = "loop"
  /\ ~LoopGoesOn
  /\ Return("completed", nodeState)
  /\ UNCHANGED <<graph, state, frontier, iteration, cancelled, task, started, closed, saved>>

\* Wrong on purpose: gather() without return_exceptions.
WaveOverAtFirstException ==
  \/ \A r \in frontier : pc[r] \in {"ended", "raised"}
  \/ \E r \in frontier : pc[r] = "raised"

\* gather(return_exceptions=True) waits for every task.
WaveOver == \A r \in frontier : pc[r] \in {"ended", "raised"}

\* Wrong on purpose: looks only at the successors of the nodes of this wave.
NextFrontierOfWave(st, out) ==
  {n \in Node : Ready(n, st, out) /\ Preds(n) \cap frontier # {}}

NextFrontier(st, out) == {n \in Node : Ready(n, st, out)}

\* Wrong on purpose: the last wave is not saved, as there is nothing to go on with.
AfterWaveWithMore(next) == IF HasStore /\ next # {} THEN "save" ELSE "loop"

AfterWave(next) == IF HasStore THEN "save" ELSE "loop"

\* The wave has ended: record exceptions as failures, compute the frontier.
EndWave ==
  /\ phase = "wave"
  /\ WaveOver
  /\ LET crashed == {r \in frontier : pc[r] = "raised"}
     IN  /\ nodeState' = [n \in Node |-> IF n \in crashed THEN "FAILED" ELSE nodeState[n]]
         /\ nodeErrors' = nodeErrors \cup crashed
         /\ closed' = [n \in Node |-> IF n \in crashed THEN closed[n] + 1 ELSE closed[n]]
  /\ pc' = [n \in Node |-> "none"]
  /\ cur' = [n \in Node |-> n]
  /\ attempt' = [n \in Node |-> 0]
  /\ IF \E n \in Node : nodeState'[n] = "PENDING" /\ ConditionRaises(n, nodeState', nodeOutput)
       THEN Abort /\ frontier' = {}
       ELSE /\ frontier' = NextFrontier(nodeState', nodeOutput)
            /\ phase' = AfterWave(frontier')
            /\ UNCHANGED call
  /\ UNCHANGED <<graph, nodeOutput, iteration, cancelled, started, saved>>

\* to_dict(), and StateStore.save() returns.
Snapshot == [states |-> nodeState, outputs |-> nodeOutput, errors |-> nodeErrors]

SaveState ==
  /\ phase = "save"
  /\ saved' = Snapshot
  /\ phase' = "loop"
  /\ UNCHANGED <<graph, state, frontier, iteration, call, cancelled, task, started, closed>>

\* StateStore.save raises: nothing catches it before run() does.
SaveFails ==
  /\ phase = "save"
  /\ Abort
  /\ UNCHANGED <<graph, state, frontier, iteration, cancelled, task, started, closed, saved>>

-----------------------------------------------------------------------------
(* One task: _execute_node_with_sem, _execute_single_node and the executor. *)

SlotFree == Cardinality({r \in Node : HoldsSlot(r)}) < MaxConcurrency

\* async with sem, then RUNNING and NodeStarted.
StartNode(r) ==
  /\ pc[r] = "queued"
  /\ SlotFree
  /\ pc' = [pc EXCEPT ![r] = "started"]
  /\ nodeState' = [nodeState EXCEPT ![r] = "RUNNING"]
  /\ started' = [started EXCEPT ![r] = @ + 1]
  /\ UNCHANGED <<graph, nodeOutput, nodeErrors, cur, attempt, loop, call, cancelled, closed, saved>>

\* _build_node_input, before the executor: an exception here skips every policy.
BuildInput(r) ==
  /\ pc[r] = "started"
  /\ IF TransformRaises(cur[r])
       THEN pc' = [pc EXCEPT ![r] = "raised"] /\ UNCHANGED attempt
       ELSE /\ pc' = [pc EXCEPT ![r] = "executing"]
            /\ attempt' = [attempt EXCEPT ![r] = 1]
  /\ UNCHANGED <<graph, state, cur, loop, call, cancelled, started, closed, saved>>

\* How an execution of node n ends inside task r, up to the next await.
Record(r, n, st, next) ==
  /\ nodeState' = [nodeState EXCEPT ![n] = st]
  /\ pc' = [pc EXCEPT ![r] = next]
  /\ closed' = [closed EXCEPT ![n] = @ + 1]
  /\ UNCHANGED <<graph, cur, attempt, loop, call, cancelled, started, saved>>

\* The node returned success, with an output or without.
Succeeds(r, v) ==
  /\ pc[r] = "executing"
  /\ Record(r, cur[r], "DONE", "ended")
  /\ nodeOutput' = [nodeOutput EXCEPT ![cur[r]] = v]
  /\ UNCHANGED nodeErrors

MayRetry(r) == /\ PolicyOf(cur[r]) = "RETRY"
               /\ attempt[r] <= RetriesOf(cur[r])

\* The node returned success=False or raised, and is tried again later.
RetryLater(r) ==
  /\ pc[r] = "executing"
  /\ MayRetry(r)
  /\ pc' = [pc EXCEPT ![r] = "sleeping"]
  /\ UNCHANGED <<graph, state, cur, attempt, loop, call, cancelled, started, closed, saved>>

Retry(r) ==
  /\ pc[r] = "sleeping"
  /\ pc' = [pc EXCEPT ![r] = "executing"]
  /\ attempt' = [attempt EXCEPT ![r] = @ + 1]
  /\ UNCHANGED <<graph, state, cur, loop, call, cancelled, started, closed, saved>>

\* The node returned success=False or raised, and its edge says SKIP.
Skip(r) ==
  /\ pc[r] = "executing"
  /\ PolicyOf(cur[r]) = "SKIP"
  /\ Record(r, cur[r], "SKIPPED", "ended")
  /\ UNCHANGED <<nodeOutput, nodeErrors>>

\* The node returned success=False under FALLBACK: the executor says DONE, so
\* the runtime stores what output there is and never looks at the fallback.
FallbackRecordedDone(r) ==
  /\ pc[r] = "executing"
  /\ PolicyOf(cur[r]) = "FALLBACK"
  /\ Record(r, cur[r], "DONE", "ended")
  /\ \E v \in Output : nodeOutput' = [nodeOutput EXCEPT ![cur[r]] = v]
  /\ UNCHANGED nodeErrors

\* FAIL_FAST, RETRY with no retries left, or an exception under FALLBACK.
Fails(r) ==
  /\ pc[r] = "executing"
  /\ PolicyOf(cur[r]) # "SKIP"
  /\ ~MayRetry(r)
  /\ Record(r, cur[r], "FAILED", "failed")
  /\ nodeErrors' = nodeErrors \cup {cur[r]}
  /\ UNCHANGED nodeOutput

\* After NodeFailed: with no fallback the task ends, the node stays FAILED.
NoFallback(r) ==
  /\ pc[r] = "failed"
  /\ FallbackOf(cur[r]) = None
  /\ pc' = [pc EXCEPT ![r] = "ended"]
  /\ UNCHANGED <<graph, state, cur, attempt, loop, call, cancelled, started, closed, saved>>

\* The failed node becomes SKIPPED and its fallback runs in its place.
StartFallback(r) ==
  LET n == cur[r]
      f == FallbackOf(n)
  IN  /\ pc[r] = "failed"
      /\ f # None
      /\ nodeState' = [nodeState EXCEPT ![n] = "SKIPPED", ![f] = "RUNNING"]
      /\ started' = [started EXCEPT ![f] = @ + 1]
      /\ pc' = [pc EXCEPT ![r] = "started"]
      /\ cur' = [cur EXCEPT ![r] = f]
      /\ UNCHANGED <<graph, nodeOutput, nodeErrors, attempt, loop, call, cancelled, closed, saved>>

\* The runtime has returned and the caller is done with it.
Returned == phase = "finished" /\ UNCHANGED vars

TaskStep(r) ==
  \/ StartNode(r)
  \/ BuildInput(r)
  \/ \E v \in Output : Succeeds(r, v)
  \/ RetryLater(r)
  \/ Retry(r)
  \/ Skip(r)
  \/ FallbackRecordedDone(r)
  \/ Fails(r)
  \/ NoFallback(r)
  \/ StartFallback(r)

LoopStep ==
  \/ BeginWave
  \/ StopCancelled
  \/ Finish
  \/ EndWave
  \/ SaveState
  \/ SaveFails

Next ==
  \/ Run
  \/ LoopStep
  \/ \E r \in Node : TaskStep(r)
  \/ Cancel
  \/ \E n \in Node, v \in Output : Resume(n, v)
  \/ Returned

Spec == Init /\ [][Next]_vars

\* asyncio runs every task that is not blocked, node.execute() returns or
\* raises, and so does StateStore.save().  Nobody has to cancel or resume.
Fairness == WF_vars(LoopStep) /\ \A r \in Node : WF_vars(TaskStep(r))

FairSpec == Spec /\ Fairness

-----------------------------------------------------------------------------
(* Fallback nodes are not checked by validate().  The properties below say *)
(* which discipline they need from the author of the graph.                *)

FallbackNodes == {FallbackOf(n) : n \in Node} \ {None}

\* A fallback node is reached only by failure: it has no incoming edge.
DedicatedFallbacks == \A f \in FallbackNodes : ~HasIncoming(f)

\* ... nor is it an entry node, nor the fallback of two nodes.
ExclusiveFallbacks ==
  /\ DedicatedFallbacks
  /\ FallbackNodes \cap graph.entry = {}
  /\ \A m, n \in Node : FallbackOf(m) = FallbackOf(n) /\ FallbackOf(m) # None => m = n

(***************************************************************************)
(* "A node is ready when all its predecessors have completed": whatever    *)
(* the interleaving, the policies, cancellation and resume, a node that    *)
(* was ever started (and is no entry node) has all its predecessors DONE   *)
(* or SKIPPED, then and forever after: no input is built from the output   *)
(* of a node that is still running or that will run again.  Excepted are   *)
(* predecessors that were never started when resume() made them DONE: a    *)
(* fallback node may then be started for its purpose after its successors. *)
(***************************************************************************)
Causality ==
  ExclusiveFallbacks =>
    \A n \in Node \ graph.entry :
      started[n] > 0 => \A p \in Preds(n) \ forced : nodeState[p] \in Settled

(***************************************************************************)
(* No node runs twice in one execution, even when it is resumed, when it   *)
(* lies on a cycle, or when it is a fallback (attempts of the RETRY policy *)
(* are one run).                                                           *)
(***************************************************************************)
StartedOnce == ExclusiveFallbacks => \A n \in Node : started[n] <= 1

(***************************************************************************)
(* The "safety limit" of 3 * len(nodes) turns never cuts a run short: each *)
(* wave uses up at least one PENDING node, so the frontier is empty first. *)
(***************************************************************************)
LimitNeverBinds == phase = "loop" /\ frontier # {} => iteration < MaxIterations

(***************************************************************************)
(* A run that returns normally has left nothing undone: no PENDING node is *)
(* ready.  In particular the successors of a fallback node were looked at. *)
(***************************************************************************)
NothingReadyAtTheEnd ==
  phase = "finished" /\ mode = "run" /\ result.kind = "completed" =>
    \A n \in Node : ~Ready(n, nodeState, nodeOutput)

(***************************************************************************)
(* When run() or resume() returns, whether normally, cancelled or by an    *)
(* exception, no node is left RUNNING and every NodeStarted event has been *)
(* answered by exactly one NodeCompleted or NodeFailed.                    *)
(***************************************************************************)
NothingLeftOpen ==
  phase = "finished" /\ DedicatedFallbacks =>
    /\ \A n \in Node : nodeState[n] # "RUNNING"
    /\ started = closed

(***************************************************************************)
(* Cancellation cuts between waves, and cleanly: a run that was cancelled  *)
(* has let everything finish that was on its way, has marked exactly the   *)
(* nodes that never began as CANCELLED, however long ago the token was set,*)
(* and had something left to do.                                           *)
(***************************************************************************)
CancelCutsCleanly ==
  phase = "finished" /\ mode = "run" /\ result.kind = "cancelled" /\ DedicatedFallbacks =>
    /\ \A n \in Node : nodeState[n] = "CANCELLED" <=> started[n] = 0
    /\ frontier # {} /\ \A n \in frontier : nodeState[n] = "CANCELLED"
    /\ \A n \in Node : nodeState[n] # "RUNNING"

(***************************************************************************)
(* What the StateStore holds stays true and misses nothing.  A node that   *)
(* is not PENDING there has ended, and the execution never returns to it:  *)
(* its state, output and error are today what they were when they were     *)
(* saved.  (InMemoryStateStore keeps the dictionaries of outputs and       *)
(* errors themselves, so whoever loads them gets today's.)  And when a     *)
(* call that ran a wave returns a result, the store has all of it but the  *)
(* marks of cancellation, which no one saves.                              *)
(***************************************************************************)
SavedStaysTrue ==
  ExclusiveFallbacks /\ mode = "run" /\ saved # None =>
    \A n \in Node : saved.states[n] # "PENDING" =>
      /\ saved.states[n] \in {"DONE", "SKIPPED", "FAILED"}
      /\ nodeState[n] = saved.states[n]
      /\ nodeOutput[n] = saved.outputs[n]
      /\ n \in nodeErrors <=> n \in saved.errors

RanAWave == IF result.kind = "cancelled" THEN iteration > 1 ELSE iteration > 0

SavedIsComplete ==
  HasStore /\ phase = "finished" /\ result.kind # "aborted" /\ RanAWave =>
    /\ saved # None
    /\ saved.outputs = nodeOutput /\ saved.errors = nodeErrors
    /\ \A n \in Node : nodeState[n] # saved.states[n] => nodeState[n] = "CANCELLED"

StoreIsRight == SavedStaysTrue /\ SavedIsComplete

(***************************************************************************)
(* run() returns: no interleaving, failure, retry, fallback or semaphore   *)
(* size makes it wait forever, provided the nodes themselves return.       *)
(***************************************************************************)
Termination == phase = "loop" ~> phase = "finished"

-----------------------------------------------------------------------------
(* What the documentation says and the code does not do.                   *)

(***************************************************************************)
(* "FAIL_FAST -> stop graph, return error": a call that returns success    *)
(* has no node that failed under FAIL_FAST.                                *)
(***************************************************************************)
FailFastStopsGraph ==
  phase = "finished" /\ result.success =>
    \A n \in Node : nodeState[n] = "FAILED" => PolicyOf(n) # "FAIL_FAST"

(***************************************************************************)
(* "Find the edge that led here (for error policy)": a node that was       *)
(* skipped was so by the policy of an edge that fired.  (It is by that of  *)
(* the first incoming edge.)                                               *)
(***************************************************************************)
PolicyIsOfTheEdgeTaken ==
  \A n \in Node : nodeState[n] = "SKIPPED" /\ HasIncoming(n) =>
    \E i \in DOMAIN Incoming(n) :
      /\ Incoming(n)[i].policy = PolicyOf(n)
      /\ nodeOutput[Incoming(n)[i].src] \in Incoming(n)[i].fires

(***************************************************************************)
(* "Persisted via StateStore after every node completes": a task that has  *)
(* ended is in the store as it is.  (The state is saved after every wave.) *)
(***************************************************************************)
EveryNodeIsSaved ==
  HasStore => \A r \in Node :
    pc[r] = "ended" => saved # None /\ saved.states[cur[r]] = nodeState[cur[r]]
=============================================================================
