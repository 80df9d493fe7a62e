------------------------------ MODULE Pipeline ------------------------------
(***************************************************************************)
(* One GraphRuntime and everything around it, as examples/graph_engine.py  *)
(* puts it together: calls of run() and stream(), the nodes' bodies, the   *)
(* NodeExecutor with its retries, the audit, cost and log middlewares, the *)
(* event queue of the runtime and the consumers that read it, resume().    *)
(*                                                                         *)
(* The graph is a chain, so a wave is one node (GraphRuntime has waves of  *)
(* many).  What is shared is what the code shares: all calls on a runtime  *)
(* use one event queue, one list of middlewares and the same node objects. *)
(* A step is the code between two awaits.                                  *)
(***************************************************************************)
EXTENDS NodeBodies, FiniteSets

CONSTANTS
  Call,      \* calls of run() and stream() on the runtime
  Action,    \* compensating actions
  Scenarios, \* what the runtime is given, see Scenario
  MaxRounds, \* LoopNode's max_iterations
  MaxAdds    \* bound: calls of add_action() once the runtime is in use

\* The chain, its input, how each call is made, and the CompensationActions
\* the chain's CompensationNode was built with, each once, last registered
\* first.
\* resumes is a bound: the calls of resume() on the state of one call.
\* auditFails: the backend of AuditMiddleware may raise.
Scenario == [pipe  : Seq(Stage),
             input : Data,
             calls : [Call -> {"none", "run", "stream"}],
             undo  : Seq(Action),
             resumes : Nat,
             auditFails : BOOLEAN]

ASSUME PipelineAssumption ==
  /\ IsFiniteSet(Call)
  /\ Scenarios \subseteq Scenario
  /\ \A s \in Scenarios : s.pipe # << >>
  /\ \A s \in Scenarios : \A i, j \in DOMAIN s.undo : s.undo[i] = s.undo[j] => i = j
  /\ MaxRounds \in Nat \ {0}
  /\ MaxAdds \in Nat

VARIABLES
  scenario,  \* never changes
  pc,        \* pc[c]: where the coroutine that executes the graph for c is
  at,        \* at[c]: the node it is at
  attempt,   \* attempt[c]: the executor's counter
  record,    \* record[c]: the state the executor gives the node
  output,    \* output[c]: what the executor returns with it
  nodeState, \* nodeState[c][i]: ExecutionState.node_states
  nodeData,  \* nodeData[c][i]: ExecutionState.node_outputs
  readData,  \* readData[c][i]: the input node i was last executed with
  resumes,   \* resumes[c]: calls of resume() on this state
  tasks,     \* tasks[c]: tasks in the HumanTaskQueue
  rounds,    \* rounds[c]: iterations of the LoopNode
  undo,      \* CompensationNode._actions, the next to run first
  undone,    \* undone[c]: the actions run in this execution of the node
  registered,\* registered[c]: the actions there were when it began
  adds,
  sent,      \* history: the events emitted, in order
  queue,     \* _event_queue
  taken,     \* history: the events yielded, in order, and by which stream()
  consumer,  \* consumer[c]: the consumer of stream()
  audit,     \* audit[c][i]: the events AuditMiddleware wrote for node i
  cost,      \* CostMiddleware.total_tokens
  spent      \* what the agents' CostTracker counted

node   == <<at, attempt, record, output>>
state  == <<nodeState, nodeData, readData, resumes>>
bodies == <<tasks, rounds, undo, undone, registered, adds>>
feed   == <<sent, queue, taken, consumer>>
meters == <<cost, spent>>
vars   == <<scenario, pc, node, state, bodies, feed, audit, meters>>

Pipe     == scenario.pipe
Stages   == DOMAIN Pipe
Here(c)  == Pipe[at[c]]
Input(c) == readData[c][at[c]]

\* The first node has no incoming edge: FAIL_FAST.
PolicyAt(i) == IF i = 1 THEN "FAIL_FAST" ELSE Pipe[i].policy

NodeState == {"PENDING", "RUNNING", "DONE", "SKIPPED", "FAILED"}

Settled == {"DONE", "SKIPPED"}

Event == [call : Call, type : {"NodeStarted", "NodeCompleted", "NodeFailed", "GraphCompleted"},
          at : Nat]

AuditTrail == [node_started : Nat, node_completed : Nat, node_failed : Nat]

TypeOK ==
  /\ scenario \in Scenarios
  /\ pc \in [Call -> {"idle", "start", "before", "body", "asking", "looping", "undoing",
                      "after", "close", "wave", "finish", "returned"}]
  /\ at \in [Call -> Stages]
  /\ attempt \in [Call -> Nat]
  /\ record \in [Call -> NodeState]
  /\ output \in [Call -> Outcome]
  /\ nodeState \in [Call -> [Stages -> NodeState]]
  /\ nodeData \in [Call -> [Stages -> Data]]
  /\ readData \in [Call -> [Stages -> Data]]
  /\ resumes \in [Call -> Nat]
  /\ tasks \in [Call -> Nat]
  /\ rounds \in [Call -> Nat]
  /\ undo \in Seq(Action)
  /\ undone \in [Call -> Seq([action : Action, ok : BOOLEAN])]
  /\ registered \in [Call -> Seq(Action)]
  /\ adds \in Nat
  /\ sent \in Seq(Event) /\ queue \in Seq(Event)
  /\ taken \in Seq([event : Event, by : Call])
  /\ consumer \in [Call -> {"none", "reading", "left", "ended"}]
  /\ audit \in [Call -> [Stages -> AuditTrail]]
  /\ cost \in Nat /\ spent \in Nat

Init ==
  /\ scenario \in Scenarios
  /\ pc = [c \in Call |-> "idle"]
  /\ at = [c \in Call |-> 1]
  /\ attempt = [c \in Call |-> 0]
  /\ record = [c \in Call |-> "RUNNING"]
  /\ output = [c \in Call |-> Ok(None)]
  /\ nodeState = [c \in Call |-> [i \in Stages |-> "PENDING"]]
  /\ nodeData = [c \in Call |-> [i \in Stages |-> None]]
  /\ readData = [c \in Call |-> [i \in Stages |-> None]]
  /\ resumes = [c \in Call |-> 0]
  /\ tasks = [c \in Call |-> 0]
  /\ rounds = [c \in Call |-> 0]
  /\ undo = scenario.undo
  /\ undone = [c \in Call |-> << >>]
  /\ registered = [c \in Call |-> << >>]
  /\ adds = 0
  /\ sent = << >> /\ queue = << >> /\ taken = << >>
  /\ consumer = [c \in Call |-> "none"]
  /\ audit = [c \in Call |-> [i \in Stages |->
                [node_started |-> 0, node_completed |-> 0, node_failed |-> 0]]]
  /\ cost = 0 /\ spent = 0

Goto(c, from, to) == pc[c] = from /\ pc' = [pc EXCEPT ![c] = to]

\* _emit_event: the queue first, then the bus, whose exceptions are swallowed.
Emit(c, type) ==
  LET e == [call |-> c, type |-> type, at |-> at[c]] IN
  /\ sent' = Append(sent, e)
  /\ queue' = Append(queue, e)
  /\ UNCHANGED <<taken, consumer>>

-----------------------------------------------------------------------------
(* Callers.                                                                *)

\* stream() makes a task of run(), and reads while it works.
Begin(c) ==
  /\ scenario.calls[c] # "none"
  /\ Goto(c, "idle", "start")
  /\ consumer' = [consumer EXCEPT ![c] = IF scenario.calls[c] = "stream" THEN "reading" ELSE @]
  /\ UNCHANGED <<scenario, node, state, bodies, sent, queue, taken, audit, meters>>

\* Wrong on purpose, like every definition so marked below: the runs are
\* repeated with it in place of the one it resembles, to see a property fail.
\* Here a stream throws away what another call on the runtime has emitted.
TakeOwn(c) ==
  /\ consumer[c] = "reading"
  /\ queue # << >>
  /\ queue' = Tail(queue)
  /\ taken' = IF Head(queue).call = c
              THEN Append(taken, [event |-> Head(queue), by |-> c]) ELSE taken
  /\ UNCHANGED <<scenario, pc, node, state, bodies, sent, consumer, audit, meters>>

\* The queue belongs to the runtime: whose event it is nobody asks.
Take(c) ==
  /\ consumer[c] = "reading"
  /\ queue # << >>
  /\ queue' = Tail(queue)
  /\ taken' = Append(taken, [event |-> Head(queue), by |-> c])
  /\ UNCHANGED <<scenario, pc, node, state, bodies, sent, consumer, audit, meters>>

\* The consumer breaks out of its async for; the run goes on without it.
Leave(c) ==
  /\ consumer[c] = "reading"
  /\ consumer' = [consumer EXCEPT ![c] = "left"]
  /\ UNCHANGED <<scenario, pc, node, state, bodies, sent, queue, taken, audit, meters>>

TaskDone(c) == pc[c] = "returned" \/ resumes[c] > 0

\* Wrong on purpose: the queue is not looked at again when the task is done.
EndStreamUndrained(c) ==
  /\ consumer[c] = "reading"
  /\ TaskDone(c)
  /\ consumer' = [consumer EXCEPT ![c] = "ended"]
  /\ UNCHANGED <<scenario, pc, node, state, bodies, sent, queue, taken, audit, meters>>

\* Wrong on purpose: the stream waits for the GraphCompleted of its run.
EndStreamOnEvent(c) ==
  /\ consumer[c] = "reading"
  /\ \E k \in DOMAIN taken : /\ taken[k].by = c
                             /\ taken[k].event.call = c /\ taken[k].event.type = "GraphCompleted"
  /\ consumer' = [consumer EXCEPT ![c] = "ended"]
  /\ UNCHANGED <<scenario, pc, node, state, bodies, sent, queue, taken, audit, meters>>

\* The task is done and the queue is drained.
EndStream(c) ==
  /\ consumer[c] = "reading"
  /\ TaskDone(c)
  /\ queue = << >>
  /\ consumer' = [consumer EXCEPT ![c] = "ended"]
  /\ UNCHANGED <<scenario, pc, node, state, bodies, sent, queue, taken, audit, meters>>

\* resume() with data for any node, whatever its state: what is PENDING behind
\* it starts, unless the edge's condition does not fire, or raises.
\* Bound of the chain: the nodes before it are not PENDING, since otherwise a
\* wave could have two nodes (GraphRuntime has those).
Resume(c, i) ==
  LET waiting == i + 1 \in Stages /\ nodeState[c][i + 1] = "PENDING" IN
  /\ pc[c] = "returned"
  /\ resumes[c] < scenario.resumes
  /\ \A j \in 1..(i - 1) : nodeState[c][j] # "PENDING"
  /\ resumes' = [resumes EXCEPT ![c] = @ + 1]
  /\ nodeState' = [nodeState EXCEPT ![c][i] = "DONE"]
  /\ nodeData' = [nodeData EXCEPT ![c][i] = "answer"]
  /\ \/ waiting /\ pc' = [pc EXCEPT ![c] = "start"] /\ at' = [at EXCEPT ![c] = i + 1]
     \/ (waiting => Pipe[i + 1].condition) /\ UNCHANGED <<pc, at>>
  /\ UNCHANGED <<scenario, attempt, record, output, readData, bodies, feed, audit, meters>>

\* add_action() puts the newest action in front.
AddAction(a) ==
  /\ adds < MaxAdds
  /\ \A i \in DOMAIN undo : undo[i] # a
  /\ undo # << >>
  /\ undo' = <<a>> \o undo
  /\ adds' = adds + 1
  /\ UNCHANGED <<scenario, pc, node, state, tasks, rounds, undone, registered, feed, audit, meters>>

-----------------------------------------------------------------------------
(* _execute_single_node and NodeExecutor.execute.                          *)

\* _build_node_input: what the edge hands over, transformed or as it is.
Built(c) ==
  IF at[c] = 1 THEN {scenario.input}
  ELSE IF Here(c).transform THEN Data
  ELSE {nodeData[c][at[c] - 1]}

StartNode(c) ==
  /\ Goto(c, "start", "before")
  /\ nodeState' = [nodeState EXCEPT ![c][at[c]] = "RUNNING"]
  /\ \E d \in Built(c) : readData' = [readData EXCEPT ![c][at[c]] = d]
  /\ attempt' = [attempt EXCEPT ![c] = 1]
  /\ Emit(c, "NodeStarted")
  /\ UNCHANGED <<scenario, at, record, output, nodeData, resumes, bodies, audit, meters>>

\* The edge's transform raises, after the event and before the executor is
\* called: gather() returns the exception and the wave marks the node FAILED,
\* whatever the edge's error policy is.
TransformRaises(c) ==
  /\ at[c] # 1 /\ Here(c).transform
  /\ Goto(c, "before", "wave")
  /\ nodeState' = [nodeState EXCEPT ![c][at[c]] = "FAILED"]
  /\ Emit(c, "NodeFailed")
  /\ UNCHANGED <<scenario, node, nodeData, readData, resumes, bodies, audit, meters>>

\* The entries one call of a hook adds: the executor swallows what it raises.
Entries == IF scenario.auditFails THEN {0, 1} ELSE {1}

BeforeNode(c) ==
  /\ Goto(c, "before", "body")
  /\ \E n \in Entries : audit' = [audit EXCEPT ![c][at[c]].node_started = @ + n]
  /\ UNCHANGED <<scenario, node, state, bodies, feed, meters>>

MayRetry(c) == PolicyAt(at[c]) = "RETRY" /\ attempt[c] <= Here(c).retries

\* on_error, only for an exception.
HearsOf(c, o) ==
  IF o.end = "raised"
  THEN \E n \in Entries : audit' = [audit EXCEPT ![c][at[c]].node_failed = @ + n]
  ELSE UNCHANGED audit

\* Another attempt, after the delay.
TryAgain(c, o) ==
  /\ o.end # "ok" /\ MayRetry(c)
  /\ attempt' = [attempt EXCEPT ![c] = @ + 1]
  /\ pc' = [pc EXCEPT ![c] = "body"]
  /\ HearsOf(c, o)
  /\ UNCHANGED <<at, record, output>>

\* The last attempt: the record, the output, and whether after_node sees it.
Settle(c, st, o, hook) ==
  /\ record' = [record EXCEPT ![c] = st]
  /\ output' = [output EXCEPT ![c] = o]
  /\ pc' = [pc EXCEPT ![c] = IF hook THEN "after" ELSE "close"]
  /\ UNCHANGED <<at, attempt>>

\* Wrong on purpose: the output is wrapped in a new one, without its metadata.
SucceedUnmetered(c, o) ==
  /\ o.end = "ok"
  /\ Settle(c, "DONE", Ok(o.data), TRUE)
  /\ UNCHANGED audit

Succeed(c, o) ==
  /\ o.end = "ok"
  /\ Settle(c, "DONE", o, TRUE)
  /\ UNCHANGED audit

\* Wrong on purpose: after_node does not hear of a node that is skipped.
SkipUnheard(c, o) ==
  /\ o.end # "ok" /\ PolicyAt(at[c]) = "SKIP"
  /\ Settle(c, "SKIPPED", Ok(None), FALSE)
  /\ UNCHANGED audit

Skip(c, o) ==
  /\ o.end # "ok" /\ PolicyAt(at[c]) = "SKIP"
  /\ Settle(c, "SKIPPED", Ok(None), TRUE)
  /\ UNCHANGED audit

\* A returned failure under FALLBACK is recorded as DONE.
FallBack(c, o) ==
  /\ o.end = "failed" /\ PolicyAt(at[c]) = "FALLBACK"
  /\ Settle(c, "DONE", o, FALSE)
  /\ UNCHANGED audit

Fail(c, o) ==
  /\ o.end # "ok" /\ ~MayRetry(c)
  /\ PolicyAt(at[c]) # "SKIP"
  /\ PolicyAt(at[c]) = "FALLBACK" => o.end = "raised"
  /\ Settle(c, "FAILED", o, FALSE)
  /\ HearsOf(c, o)

\* node.execute() has ended with o.
Conclude(c, o) ==
  \/ TryAgain(c, o) \/ Succeed(c, o) \/ Skip(c, o) \/ FallBack(c, o) \/ Fail(c, o)

Execute(c) ==
  /\ pc[c] = "body"
  /\ \E o \in Bodies(Here(c).kind, Input(c)) :
       Conclude(c, o) /\ spent' = spent + o.tokens
  /\ UNCHANGED <<scenario, state, bodies, feed, cost>>

\* HumanNode: emit() the task ...
EmitTask(c) ==
  /\ Here(c).kind = "human"
  /\ Goto(c, "body", "asking")
  /\ tasks' = [tasks EXCEPT ![c] = @ + 1]
  /\ UNCHANGED <<scenario, node, state, rounds, undo, undone, registered, adds, feed, audit, meters>>

\* ... and get() it back at once, answered already or not.
GetTask(c) ==
  /\ pc[c] = "asking"
  /\ \E o \in {Ok("answer"), Ok("marker"), Raised} : Conclude(c, o)
  /\ UNCHANGED <<scenario, state, bodies, feed, cost, spent>>

QueueRaises(c) ==
  /\ pc[c] = "body" /\ Here(c).kind = "human"
  /\ Conclude(c, Raised)
  /\ UNCHANGED <<scenario, state, bodies, feed, cost, spent>>

BeginLoop(c) ==
  /\ Here(c).kind = "loop"
  /\ Goto(c, "body", "looping")
  /\ rounds' = [rounds EXCEPT ![c] = 0]
  /\ UNCHANGED <<scenario, node, state, tasks, undo, undone, registered, adds, feed, audit, meters>>

\* LoopNode around an AgentNode: the exit condition holds, or another round.
\* The last output is returned, as a success also when max_iterations is up.
LoopRound(c) ==
  /\ pc[c] = "looping"
  /\ rounds' = [rounds EXCEPT ![c] = @ + 1]
  /\ \E o \in AgentBody(Input(c)) :
       /\ spent' = spent + o.tokens
       /\ \/ Conclude(c, o)
          \/ /\ o.end = "ok" /\ rounds'[c] < MaxRounds
             /\ UNCHANGED <<pc, node, audit>>
  /\ UNCHANGED <<scenario, state, tasks, undo, undone, registered, adds, feed, cost>>

BeginUndo(c) ==
  /\ Here(c).kind = "compensation"
  /\ Goto(c, "body", "undoing")
  /\ undone' = [undone EXCEPT ![c] = << >>]
  /\ registered' = [registered EXCEPT ![c] = undo]
  /\ UNCHANGED <<scenario, node, state, tasks, rounds, undo, adds, feed, audit, meters>>

\* CompensationNode iterates over its own list, which add_action() changes
\* under it: the position counts, not the action.
UndoNext(c) ==
  /\ pc[c] = "undoing"
  /\ Len(undone[c]) < Len(undo)
  /\ \E ok \in BOOLEAN :
       undone' = [undone EXCEPT ![c] = Append(@, [action |-> undo[Len(@) + 1], ok |-> ok])]
  /\ UNCHANGED <<scenario, pc, node, state, tasks, rounds, undo, registered, adds, feed, audit, meters>>

\* Wrong on purpose: the first action that fails is the last.
UndoUntilFailure(c) ==
  /\ pc[c] = "undoing"
  /\ Len(undone[c]) = Len(undo) \/ \E i \in DOMAIN undone[c] : ~undone[c][i].ok
  /\ Conclude(c, IF \A i \in DOMAIN undone[c] : undone[c][i].ok THEN Ok("dict") ELSE Failed("dict"))
  /\ UNCHANGED <<scenario, state, bodies, feed, cost, spent>>

EndUndo(c) ==
  /\ pc[c] = "undoing"
  /\ Len(undone[c]) = Len(undo)
  /\ Conclude(c, IF \A i \in DOMAIN undone[c] : undone[c][i].ok THEN Ok("dict") ELSE Failed("dict"))
  /\ UNCHANGED <<scenario, state, bodies, feed, cost, spent>>

\* after_node of the audit and cost middlewares, each with its own try.
AfterNode(c) ==
  /\ Goto(c, "after", "close")
  /\ \E n \in Entries : audit' = [audit EXCEPT ![c][at[c]].node_completed = @ + n]
  /\ cost' = cost + output[c].tokens
  /\ UNCHANGED <<scenario, node, state, bodies, feed, spent>>

\* Back in _execute_single_node: the state, the output, the event.
CloseNode(c) ==
  /\ Goto(c, "close", "wave")
  /\ nodeState' = [nodeState EXCEPT ![c][at[c]] = record[c]]
  /\ nodeData' = [nodeData EXCEPT ![c][at[c]] = IF record[c] = "DONE" THEN output[c].data ELSE @]
  /\ Emit(c, IF record[c] = "FAILED" THEN "NodeFailed" ELSE "NodeCompleted")
  /\ UNCHANGED <<scenario, node, readData, resumes, bodies, audit, meters>>

-----------------------------------------------------------------------------
(* The frontier loop on a chain, and the end of run() or resume().         *)

\* _compute_frontier asks the edge into the next node only if this one settled.
NextIsDue(c) ==
  /\ at[c] + 1 \in Stages
  /\ nodeState[c][at[c]] \in Settled
  /\ nodeState[c][at[c] + 1] = "PENDING"

NextNode(c) ==
  /\ NextIsDue(c)
  /\ Goto(c, "wave", "start")
  /\ at' = [at EXCEPT ![c] = @ + 1]
  /\ UNCHANGED <<scenario, attempt, record, output, state, bodies, feed, audit, meters>>

\* Nothing is due, or the condition says no.
NothingReady(c) ==
  /\ NextIsDue(c) => Pipe[at[c] + 1].condition
  /\ Goto(c, "wave", "finish")
  /\ UNCHANGED <<scenario, node, state, bodies, feed, audit, meters>>

\* A condition raises: run() returns a failed result and emits nothing.
ConditionRaises(c) ==
  /\ NextIsDue(c) /\ Pipe[at[c] + 1].condition
  /\ Goto(c, "wave", "returned")
  /\ UNCHANGED <<scenario, node, state, bodies, feed, audit, meters>>

\* run() emits GraphCompleted, resume() does not.
Finish(c) ==
  /\ Goto(c, "finish", "returned")
  /\ IF resumes[c] = 0 THEN Emit(c, "GraphCompleted") ELSE UNCHANGED feed
  /\ UNCHANGED <<scenario, node, state, bodies, audit, meters>>

Quiet ==
  /\ \A c \in Call : /\ scenario.calls[c] = "none" \/ pc[c] = "returned"
                     /\ consumer[c] # "reading"
  /\ UNCHANGED vars

Work(c) ==
  \/ StartNode(c) \/ TransformRaises(c) \/ BeforeNode(c)
  \/ Execute(c) \/ EmitTask(c) \/ GetTask(c) \/ QueueRaises(c)
  \/ BeginLoop(c) \/ LoopRound(c)
  \/ BeginUndo(c) \/ UndoNext(c) \/ EndUndo(c)
  \/ AfterNode(c) \/ CloseNode(c)
  \/ NextNode(c) \/ NothingReady(c) \/ ConditionRaises(c) \/ Finish(c)

Read(c) == Take(c) \/ EndStream(c)

Next ==
  \/ \E c \in Call : Begin(c) \/ Work(c) \/ Read(c) \/ Leave(c)
  \/ \E c \in Call, i \in Stages : Resume(c, i)
  \/ \E a \in Action : AddAction(a)
  \/ Quiet

Spec == Init /\ [][Next]_vars

\* asyncio resumes a coroutine whose await is over; what nodes await returns.
\* Nobody has to call anything, to leave, or to resume.
Fairness == \A c \in Call : WF_vars(Work(c)) /\ WF_vars(Read(c))

FairSpec == Spec /\ Fairness

-----------------------------------------------------------------------------
(***************************************************************************)
(* The queue, the tasks and the timeouts of stream() implement the Feed:   *)
(* however calls, consumers and resumptions interleave, every event of the *)
(* runtime is yielded to one consumer, in the order of the events, and a   *)
(* stream only ends when its run has returned and nothing is left.         *)
(***************************************************************************)
Streams == {c \in Call : consumer[c] = "reading"}
Ended   == {c \in Call : consumer[c] = "ended"}

F == INSTANCE Feed WITH Reader <- Call, reading <- Streams, told <- Ended

FeedIsKept == F!Spec

(***************************************************************************)
(* The only stream of a runtime that is used for nothing else yields the   *)
(* whole story of its run: from the NodeStarted of the first node, every   *)
(* NodeStarted answered before the next one, to the GraphCompleted, which  *)
(* is missing only if a condition made run() give up.                      *)
(***************************************************************************)
SoleStreamTellsAll ==
  \A c \in Ended :
    (\A d \in Call : d = c \/ pc[d] = "idle") /\ resumes[c] = 0 =>
      LET got == [k \in DOMAIN taken |-> taken[k].event] IN
      /\ \A k \in DOMAIN got : got[k].call = c
      /\ \A k \in DOMAIN got :
           got[k].type = "NodeStarted" <=> k % 2 = 1 /\ got[k].type # "GraphCompleted"
      /\ \A i \in Stages :
           nodeState[c][i] # "PENDING" <=> \E k \in DOMAIN got : got[k].at = i
      /\ \/ got[Len(got)].type = "GraphCompleted"
         \/ \E i \in Stages : Pipe[i].condition /\ nodeState[c][i] = "PENDING"

(***************************************************************************)
(* The audit trail agrees with the events: whenever no node is under way,  *)
(* no node has been audited as started or completed more often than        *)
(* NodeStarted and NodeCompleted were emitted for it, nor as failed more   *)
(* often than NodeFailed unless it is retried.  If the audit backend never *)
(* raises, nothing is missing either, with two exceptions: a node whose    *)
(* input the edge's transform could not make is started and failed for     *)
(* those who read the events and was never there for the middlewares, and  *)
(* a failure returned under FALLBACK is emitted as completed and audited   *)
(* as nothing.  If the backend may raise, any entry may be missing: the    *)
(* executor swallows the exception.                                        *)
(***************************************************************************)
Emissions(c, type, i) ==
  Cardinality({k \in DOMAIN sent : sent[k] = [call |-> c, type |-> type, at |-> i]})

AuditAgreesWithEvents ==
  \A c \in Call, i \in Stages :
    pc[c] \in {"idle", "start", "wave", "finish", "returned"} =>
      LET started   == Emissions(c, "NodeStarted", i)
          completed == Emissions(c, "NodeCompleted", i)
          failed    == Emissions(c, "NodeFailed", i)
      IN  /\ audit[c][i].node_started <= started
          /\ audit[c][i].node_completed <= completed
          /\ PolicyAt(i) # "RETRY" => audit[c][i].node_failed <= failed
          /\ ~scenario.auditFails =>
               /\ started <= audit[c][i].node_started + failed
               /\ ~Pipe[i].transform => audit[c][i].node_started = started
               /\ PolicyAt(i) # "FALLBACK" => audit[c][i].node_completed = completed

(***************************************************************************)
(* CostMiddleware never shows more tokens than the CostTracker paid for,   *)
(* and misses none when every agent ran once, under FAIL_FAST, and was a   *)
(* success: attempts that failed and rounds of a loop reach only the       *)
(* tracker.                                                                *)
(***************************************************************************)
RanOnceAndWell(c, i) ==
  nodeState[c][i] \in {"PENDING", "DONE"} /\ PolicyAt(i) = "FAIL_FAST" /\ Pipe[i].kind # "loop"

CostAddsUp ==
  /\ cost <= spent
  /\ (\A c \in Call : /\ pc[c] \in {"idle", "returned"} /\ resumes[c] = 0
                     /\ \A i \in Stages : RanOnceAndWell(c, i)) => cost = spent

(***************************************************************************)
(* The books kept beside the engine by its middlewares agree with what the *)
(* engine did: the audit trail with the events, the cost with the tracker. *)
(***************************************************************************)
BooksAgree == AuditAgreesWithEvents /\ CostAddsUp

(***************************************************************************)
(* "Execute compensating actions in reverse order, best-effort": when the  *)
(* node has ended, every action that was registered when it began has been *)
(* run, whichever failed, newest first; exactly these if none was added    *)
(* meanwhile.  (An action added meanwhile makes another one run twice.)    *)
(***************************************************************************)
UndoneInReverse ==
  \A c \in Call :
    pc[c] \in {"after", "close"} /\ Here(c).kind = "compensation" =>
      LET ran == [k \in DOMAIN undone[c] |-> undone[c][k].action]
          first(a) == CHOOSE k \in DOMAIN ran : ran[k] = a /\ \A j \in 1..(k - 1) : ran[j] # a
          due == registered[c]
      IN  /\ \A j \in DOMAIN due : \E k \in DOMAIN ran : ran[k] = due[j]
          /\ \A j, k \in DOMAIN due : j < k => first(due[j]) < first(due[k])
          /\ adds = 0 => ran = due

(***************************************************************************)
(* A consumer that keeps reading comes to the end of its stream, whatever  *)
(* the nodes do, even if another consumer takes its events.                *)
(***************************************************************************)
StreamEnds == \A c \in Call : consumer[c] = "reading" ~> consumer[c] # "reading"

-----------------------------------------------------------------------------
(* What the documentation says and the code does not do.                   *)

(***************************************************************************)
(* "Emits a task to HumanTaskQueue and waits for completion", and resume() *)
(* "after human task completion [...] continues execution from there": the *)
(* node behind a HumanNode works on the human's answer.                    *)
(***************************************************************************)
AnswerIsUsed ==
  \A c \in Call, i \in Stages :
    i + 1 \in Stages /\ Pipe[i].kind = "human" /\ nodeState[c][i + 1] = "DONE" =>
      readData[c][i + 1] # "marker"

(***************************************************************************)
(* AuditMiddleware "logs node execution to an AuditBackend": a node that   *)
(* is started and failed, as the events say, is in the audit trail.        *)
(***************************************************************************)
EveryFailureIsAudited ==
  \A c \in Call, i \in Stages :
    pc[c] = "returned" /\ ~scenario.auditFails /\ nodeState[c][i] = "FAILED" =>
      audit[c][i].node_started > 0
=============================================================================
