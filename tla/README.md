# A TLA+ model of Suluv

Suluv is an asyncio framework for workflows of agents, tools and people
(`suluv/packages/suluv-core`). This directory models the parts of it whose
correctness depends on the order in which coroutines, threads, handlers and
people do things. It is written from the source; where the documentation says
something else, a run shows the difference.

Paths below are relative to `suluv/packages/suluv-core/src/suluv/core/`.

## 1. Inventory

| Component | State it keeps | Operations | Who calls it |
|---|---|---|---|
| `engine/runtime.py` GraphRuntime | `ExecutionState` (node states, outputs, errors), the frontier, the cancel token, an event queue | `run`, `stream`, `resume` | the application; `SubgraphNode`, through a factory in the context |
| `engine/executor.py` NodeExecutor | none; the attempt counter of a call | `execute` with the policies FAIL_FAST, RETRY, SKIP, FALLBACK | GraphRuntime, one call per node |
| `engine/edge.py`, `graph.py` | the definition | `should_fire`, `transform`, `validate` | GraphRuntime |
| `engine/cancel.py` | one flag | `cancel`, `check`, `wait` | anyone; GraphRuntime and SuluvAgent look at it |
| `engine/*_node.py`, `loop.py`, `gateway.py`, `subgraph.py`, `compensation.py`, ... | configuration; `MapNode` starts tasks of its own | `execute` | NodeExecutor |
| `engine/signal.py` SignalNode | a future per CATCH | `execute` | NodeExecutor; it calls the event bus |
| `adapters/memory_bus.py` | handlers per topic, history | `publish`, `subscribe`, `unsubscribe`, `request` | signal nodes, the engine's and the agents' events, the application |
| `adapters/memory_tasks.py` | `HumanTask` records | `emit`, `poll`, `claim`, `release`, `delegate`, `complete`, `get` | HumanNode; people's user interfaces |
| `agent/agent.py` SuluvAgent | tools, cost tracker, cancel token, threads without a checkpointer | `run`, `run_stream`, `get_thread`, `delete_thread` | AgentNode, the application, any number at once |
| `agent/thread.py`, `adapters/memory_checkpointer.py` | messages and checkpoints of a thread | `append_message`, `add_checkpoint`; `get`, `put`, `delete`, `list` | SuluvAgent |
| `agent/cost_tracker.py` | totals | `record` | SuluvAgent |
| `tools/runner.py`, `tools/decorator.py` | call history | `run`; `execute` | SuluvAgent; ToolNode calls `execute` directly |
| `agent/memory_manager.py`, `adapters/memory_memory.py` | four memory tiers | `load_context`, `save_interaction`, `clear_session` | SuluvAgent |
| `agent/guardrail_chain.py`, `policy/engine.py`, `compliance/*` | lists of rules | `check_input`, `evaluate`, `require_consent` | SuluvAgent, the application |
| `adapters/memory_rules.py`, `memory_calendar.py` | tables; working hours | `evaluate`; `add_business_hours`, ... | DecisionNode, TimerNode |
| `adapters/memory_state.py`, `memory_instances.py` | dictionaries | `save`, `load`, ... | GraphRuntime; nobody |
| `engine/middleware.py` | counts and records per hook | `before_node`, `after_node`, `on_error` | NodeExecutor |
| `messages/*`, `adapters/openai_llm.py`, `anthropic_llm.py`, `gemini_llm.py` | none | `complete` | SuluvAgent and other clients of `ports/llm_backend.py` |
| built-in tools, templates, agent factories | none that matters here | conversions and I/O | SuluvAgent |
| `process/` | - | - | its `__init__.py` imports modules that the repository does not contain |

How they interact: GraphRuntime runs nodes as asyncio tasks that share one
`ExecutionState`; nodes reach agents, tools, the bus and the task queue through
references and through the context; the bus calls handlers back inside
`publish()`; agents share `Thread` objects by reference; people act on the queue
between any two of its operations.

What is hard: all of it runs on one event loop, so the code between two awaits
is atomic and everything else is not. Threads appear in one place only, the
default executor that runs tools which are not `async def`. Failures are
exceptions that surface at awaits, time-outs that race with answers, and
cancellation that is looked at only at certain points.

What makes each part correct:

- **GraphRuntime**: a node starts after its predecessors, once, and on final
  outputs; nothing that is ready is left undone; the loop ends, and not because
  of its safety limit; every start is answered by one end; what is saved stays
  true; a failure is not taken for a success.
- **Task queue**: `claim()` excludes; the recorded result is the claimer's; no
  task starves.
- **Agent and threads**: a thread only grows, by whole turns; no turn is lost;
  budget and cancellation bind all runs of the agent; every run returns.
- **Event bus and signals**: a published event reaches who was subscribed; an
  answer that is not to the request comes only late; clean-up is complete; timed waits end.
- **Tool runner**: the history, the audit trail and the caller agree; every call
  comes back.
- **MapNode**: no more bodies of an attempt run than allowed, only an exception leaves
  some running, and the verdict of the executor is what the items did.
- **Business calendar**: what it adds, measures and finds is what counting working
  time gives, and its loops end.
- **Memory**: what reaches a later tier reached the earlier ones, whatever fails half
  way; a run finds its own past again.
- **Rules engine**: a decision is the one its hit policy names, a score the weighted sum
  of the ranges that hold, and a condition holds as it is written. Not all of this is so
  (section 5).
- **Event stream**: every event of a runtime is yielded to one reader, in order, and a
  stream that ends has missed nothing; a stream whose run has returned ends.
- **Middleware**: the audit trail agrees with the events, as far as the executor lets
  it, the cost with what the agents paid.
- **CompensationNode**: everything registered is undone, newest first, whatever fails.
- **LLM adapters**: what reaches a provider is the conversation, and no tool call that a
  provider made is left open, whoever the earlier turns were with.
- **Guardrails and policy**: whoever is in force when something passes was asked.
- **HumanNode**: its successors wait for the human. The code does not do this (section 5).

## 2. Plan

In the order of importance; all of these are built.

1. `GraphRuntime` - the frontier loop. Everything else runs inside it.
2. `HumanTaskQueue` - the lock between people.
3. `AgentThread` - concurrent runs of an agent on shared threads.
4. `EventBus` - publish, request and signals.
5. `ToolRunner` - time-outs, threads, audit.
6. `MapNode` - the tasks a node starts on its own, under the RETRY policy of the
   executor, whose orphans outlive the node.
7. `BusinessCalendar` - the arithmetic of deadlines against a reference definition.
8. `MemoryTiers` - MemoryManager over the in-memory stores, with runs that interleave.
9. `DecisionRules` - decision tables and scoring against a reference definition.
10. `Feed` - the abstract specification of the events of a runtime, and `Pipeline`, which
    composes the runtime, the executor, the bodies of the nodes (`NodeBodies`), the
    middlewares, several calls, their streams and `resume()`, and implements it.
11. `Providers` and `ModelCall` - the adapters' translations, composed with the thread,
    the guardrails and the policy engine around a model.

Abstract specifications still worth stating: a task list that hands each task to one
person at a time, which `HumanTaskQueue` implements while nobody claims completed
tasks; a thread as a sequence of whole turns, which `AgentThread` implements for
threads that are stored; a graph execution as a set of nodes that only grows
along the edges, which `GraphRuntime` implements for exclusive fallbacks.

Theorems still worth proving, after those of section 6: that the components implement these
specifications. Every safety invariant and every action property of the runs has one.

## 3. Modules

In every module a step is the code between two awaits, the guard of an action is
the code's condition, and what the action stands for is named above it.
Definitions marked "wrong on purpose" are plausible bugs: each run was repeated
with one of them in place of the definition that follows it, and the property it
is aimed at then fails. They are used nowhere else.

### GraphRuntime

`phase` is where the coroutine of `run()` or `resume()` is: at the top of the loop,
inside `gather()` (a "wave"), in `StateStore.save()`, or back with the caller.
`nodeState`, `nodeOutput`, `nodeErrors` are the dictionaries of `ExecutionState`.
`pc[r]`, `cur[r]`, `attempt[r]` describe the task of frontier node `r`: a fallback
node `f` runs inside the task, and the semaphore slot, of the node that failed, so
`cur[r]` becomes `f`. `started` and `closed` count the events NodeStarted and
NodeCompleted/NodeFailed.

| Action | Code |
|---|---|
| `Run`, `Resume` | `run` 97-108, `resume` 170-187, the first frontier 209-221 |
| `BeginWave`, `StopCancelled`, `Finish` | the head of the loop 227-238, `except CancellationError`, the success flag |
| `StartNode`, `BuildInput` | `_execute_single_node` up to the executor; an exception of an edge transform ends the task |
| `Succeeds`, `RetryLater`, `Retry`, `Skip`, `FallbackRecordedDone`, `Fails` | the outcomes of `NodeExecutor.execute`, with what `_execute_single_node` does with the record |
| `NoFallback`, `StartFallback` | 318-325 |
| `EndWave`, `SaveState`, `SaveFails` | 242-258 |
| `Cancel` | `CancellationToken.cancel`, any time |

An edge is a record: policy, fallback and retries as in `GraphEdge`, and the sets of
outputs on which its condition fires or raises and its transform raises. Outputs
are a small set, with `None` for "nothing stored". The retry delay, the trace,
timestamps and middleware (which `Pipeline` has) are left out. A success without data is `None` too, as for those who read the outputs. `Resume`
is `resume()` of any node, whatever its state was, also one that was never started or is no part
of the way so far; `forced` is the history of those that it made DONE out of PENDING. `saved` is what the
`StateStore` got, `Snapshot` what `to_dict()` makes of the state. A
node's `execute()` may do anything that ends; HumanNode and GatewayNode, which return a
"waiting" marker with success, are nodes that succeed, because that is how the
runtime treats them.

### HumanTaskQueue

The queue's records, and for each person the list on screen (`view`) and the tasks
believed to be his (`working`). `poll`, `claim`, `release`, `delegate`, `complete` and
`emit` are an action each; `ClaimRefused` is the ValueError. `release`, `delegate` and
`complete` take no user in the code, so the model has to say who calls them: people
who keep to the protocol of the docstrings. `Forget` is a worker's process that
restarts; `ReleaseAbandoned` a supervisor who releases what nobody works on. A
person polls with `status=PENDING`; the default, no filter, is the wrong `ListingOfAll`:
with it, completed tasks of high priority fill the list and the others starve.

### AgentThread

`pc[r]` is the await at which call `r` of `SuluvAgent.run` is, `object[r]` the `Thread` it
holds, `store[t]` the object the checkpointer has: `get` and `put` pass references, so
several runs extend one object. Messages carry the run and the role. `Raises` is an
exception at any await; `ReplyRaises` is `BudgetExceeded` or a reply that is valid JSON
but no object. A `final_answer` is whatever the reply has under that key: one that cannot
be sliced, such as a number or an object, raises at `(result.answer or "")[:200]`
(agent/agent.py:455), when the turn is in the thread and the checkpoint is not (`answer`,
`Extend`). Model replies are reduced to their outcomes: an answer (empty or
not), a call of a known tool, of an unknown one, or an exception. Only the step
budget is modelled; the others compare other totals in the same way.

### EventBus

`publish()` iterates a copy of the list (`snapshot`) and awaits handlers one by one.
Catchers (SignalNode) and requests have a future; listeners are handlers of the
application, which may come and go, take their time (`busy`), raise, and answer a
request later (`owed`). `addr` is `id(result_future)`, which may be used again once the
future is gone. Timers are nondeterministic: a time-out is possible while the
future is open.

### ToolRunner

`job[c]` is the tool's own code, a coroutine or a function queued for, or running in,
one of `Workers` threads; `pc[c]` is `ToolRunner.run`. `wait_for` cancels coroutines and
queued jobs, not running threads. Audit writes may raise, inside the `try` of the
tool (`AuditRaises`, `AuditTimesOut`) or outside any (`ErrorAuditRaises`).

### MapNode

`item[a][i]` is `process_item(i)` in the executor's attempt `a`, `node` is
`NodeExecutor.execute`, `broken` has the attempts whose `gather()` has an exception. A
retry sleeps and starts a new attempt, with a semaphore and a result list of its
own, while items of the earlier one may still wait and run. `Handle` is what the
executor makes of success, a failure that is returned and an exception.

### BusinessCalendar

A call of one of the three methods with its local variables; a step is a pass of
its loop. Time is a number of ticks, `DayLength` to the day; a `replace(hour=...)` is
`At(day, hour)`. Floating point hours are whole ticks; time zones are not used by
the code either.

### MemoryTiers

`short`, `long` and `episodes` are the stores, as sequences in the order of
insertion; an interaction stands for the run that saved it, because its key is
fresh. `pc[r]` is the await of run `r` in `load_context` or `save_interaction`, or
`working` between them. The keys of a scope are found by the prefix `t:{scope}:`, so
the scope `a` also finds the keys of `a:b`: `Within` has such pairs. `Fail` is an
exception at any await. The in-memory stores do not in fact suspend; the model lets
other runs go on at every await, because the ports allow any store there.
`ClearSession` and `Delete` are other users of the stores; `earlier`, `removed` and
`listed` (the keys that a run's `list_keys()` gave) are history that only the properties read. The agent shows its model at most five
entries of what `load_context` returns; that cut is text handling and left out.

### Lists

`Keep(s, S)` is what the adapters do in a comprehension, `[x for x in s if x in S]`: `SelectSeq`
as a function over the positions, so that the provers can use it. `EventBus`, `MemoryTiers`,
`Providers` and `ModelCall` share it.

In `HumanTaskQueue`, `EventBus`, `BusinessCalendar` and `MemoryTiers` the usual names carry that of
the component (`BusInit`, `BusNext`, `BusSpec`, `BusTypeOK`, ...), because `AdapterProofs` is about
all four; in `ToolRunner` and `MapNode` (`RunnerInit`, `MapInit`, ...), because `ExecutionProofs` is
about both.

### DecisionRules

One call of `evaluate()` at a time, because it awaits nothing; a step is one pass of
its loop. A rule stands for its outcome and a condition is an operator and the text of its bound.
A value has its Python type: int, float, bool, str or None; a text is a member of a small set, with its
place in the order of strings (`Rank`), the number that `float()` makes of it (`Numbers`),
whether `int()` takes it (`Integral`), and itself behind a `=` (`Equals`). `ParseCondition` takes
the first operator in the order of `_OPS` that the condition starts with, and `Converted` is
`type(value)(text)`: what is left of `>=1` is `=1`, which is no number, so the call raises for numbers, and is a
string like any other, so strings are compared with it; an int raises on `>1.5`; `bool("False")`
is True. Below the line is the reference: what the table says, without loops, where conditions mean
what they say. `Misread` names the conditions that the code reads otherwise without raising.
Weights and points are integers.

### Feed, NodeBodies, Pipeline

`Feed` is what `stream()` promises: events happen, a reader takes the oldest that nobody
took, and is told that this was all only when it was. `NodeBodies` has the ways in which
an `execute()` of each node type may end, for each shape of its input; `Outcome` is the
`NodeOutput` or the exception. Three bodies have steps of their own, in `Pipeline`:
HumanNode (emit, get), LoopNode around an agent, CompensationNode.

`Pipeline` is one runtime whose graph is a chain, so that a wave is one node and the
interleavings left are those of calls, consumers and callers. `pc[c]` is where the
coroutine of call `c` is; `record` and `output` are what the executor will return;
`queue` is `GraphRuntime._event_queue`, which belongs to the runtime; `undo` is
`CompensationNode._actions`, which belongs to the node; `cost` is
`CostMiddleware.total_tokens`. `sent`, `taken` and `registered` are history. `consumer[c]`
is the `async for` of the application. A scenario is the chain, its input, the calls,
whether `resume()` is called and whether the audit backend may raise (`auditFails`); it is chosen in
`Init` and stays. `Entries` is what the audit trail may have after a hook: with the entry or, when
the backend raised, without it, because the executor swallows the exception. `HearsOf` is
whether the middlewares are told of the end of an attempt at all.

| Action | Code |
|---|---|
| `Begin`, `Take`, `Leave`, `EndStream` | `run`, and `stream` 141-168 with its task and its time-out of 0.1 s |
| `StartNode`, `CloseNode` | `_execute_single_node` before and after the executor |
| `Built`, `TransformRaises` | the input of a node: an edge's transform that raises ends the task behind NodeStarted and before any hook, whatever the policy (engine/runtime.py:286) |
| `BeforeNode`, `AfterNode` | the hooks of the middlewares, and the executor that swallows what they raise |
| `Conclude` with `TryAgain`, `Succeed`, `Skip`, `FallBack`, `Fail` | the executor after the body has ended |
| `Execute`, `EmitTask`, `GetTask`, `QueueRaises`, `BeginLoop`, `LoopRound`, `BeginUndo`, `UndoNext`, `EndUndo` | the bodies |
| `NextNode`, `NothingReady`, `ConditionRaises`, `Finish` | the frontier of a chain, the end of `run` |
| `Resume`, `AddAction` | the application |

`resume()` is given any node whose predecessors have begun, so that a wave stays one node: of a
node further down it would make the entry node and that node's successor ready together, which is
`GraphRuntime`'s case.

### Providers, ModelCall

`Providers` has the three translations of a message, the assembly of a request (where
the system prompt goes, Gemini's merging: `Onto` is a turn of its loop, `Merge` the loop) and the way back. A block is a type and a
number, so that a text that is lost, doubled or out of place is seen. Calls of tools
are numbered by the provider; the model gives every call a new number.

`ModelCall` is a conversation of several turns, each of which may go to another provider.
In the style `agent` it is `SuluvAgent.run` with the input check of GuardrailChain and the
stored thread; in the style `client` it is a caller of `LLMBackend.complete` that has native
tool calls, asks PolicyEngine before it runs one, and answers each. Both lists of rules
may grow while a member is awaited (`Add`). `Raise` is the provider's client, or
`json.loads`, raising. The client is not in the repository: it is what the port, the
engine and the messages are made for, and it is named as external in the map.

### Proof modules

`GraphRuntimeProofs`, `AgentThreadProofs`, `DecisionRulesProofs`, `PipelineProofs` and
`ModelCallProofs` extend the module they are about; `ExecutionProofs` extends `ToolRunner` and `MapNode`;
`AdapterProofs` extends `HumanTaskQueue`, `EventBus`, `BusinessCalendar` and `MemoryTiers`, which have
nothing to do with each other but lists and numbers. `ListProofs` has the lemmas about lists that
`AdapterProofs` and `ModelCallProofs` share: what `Keep` and `FlattenSeq` make of a concatenation, and
induction over sequences, for a set of them instead of a property (`SeqInduction`). `MC*` modules give
the constants their values for TLC.

## 4. Runs that pass

| Run | Instance | Checked |
|---|---|---|
| `graph` | six graphs of five nodes, two outputs, two slots, a store, one resume of any node; about 463,000 states | `Causality`, `StartedOnce`, `LimitNeverBinds`, `NothingReadyAtTheEnd`, `NothingLeftOpen`, `CancelCutsCleanly`, `StoreIsRight`, `Termination` |
| `queue` | two people, two tasks of different priority, a list of one line, two hand-overs, one restart; about 26,000 states | `ClaimIsALock`, `AnsweredByClaimer`, `EveryTaskIsAnswered` |
| `thread` | two runs in three constellations, two steps, a budget of two calls, one deletion, answers that are no strings; about 129,000 states | `ThreadsOnlyGrow`, `TurnsDoNotMix`, `NoTurnLost`, `BudgetHolds`, `EveryRunEnds` |
| `bus` | three casts: two throwers and two catchers, one of each with a request, two requests; one listener, two ids; about 161,000 states | `SignalReachesAll`, `NoHandlerLeftBehind`, `StrayRepliesComeLate`, `WaitingEnds` |
| `map` | three items, two slots, two retries, four policies; about 356,000 states | `OutcomeIsHonest`, `OnlyOrphansOutlive`, `EverythingEnds` |
| `calendar` | days of five ticks with two working hours, weeks of four days with two working days, three holidays; every call from any tick of six days; about 6,000 states | `AnswersAreExact`, `EveryCallReturns` |
| `tool` | two calls for one thread, one coroutine, with and without audit; about 6,000 states | `RecordsAgreeWithReply`, `EveryCallEnds` |
| `memory` | three runs of one user: two alike on a thread, and one with a session whose id extends the thread's; all three tiers, one entry each; symmetry of the two; about 2,317,000 states | `SavesAreAPrefix`, `OwnPastIsLoaded` |
| `rules` | all tables of up to three of seven rules, four hit policies, matrices of up to two of ten factors; a field of ints and a float, one of strings, truth values and None, either of which may be missing; about 218,000 states | `DecisionIsRight`, `ScoreIsRight` |
| `pipeline` | eight chains of up to four nodes, among them the example of `examples/graph_engine.py`, four node types under the four policies, a tool behind a transform that may raise and a form with an audit backend that may raise, each under the four policies; one call with a stream and one resume, or two calls on one runtime; three actions, one of them added late; about 425,000 states | `SoleStreamTellsAll`, `BooksAgree`, `UndoneInReverse`, `FeedIsKept`, `StreamEnds` |
| `modelcall` | a thread of three turns of which the second goes to any provider, conversations of two turns with any two, results one by one or together; one round of tools, two guardrails or rules, one failure; about 1,427,000 states | `ConversationArrives`, `CallsAreAnswered`, `RepliesComeBack`, `EveryoneIsAsked` |

Every module also states its type invariant (`TypeOK`, `QueueTypeOK`, ...), which TLC confirms when it is added to the cfg; those
of `GraphRuntime`, `HumanTaskQueue`, `AgentThread`, `MapNode`, `DecisionRules` and `ToolRunner` are
proved, so no run repeats them; those of `EventBus`, `BusinessCalendar` and `MemoryTiers` are part of
the invariants that are proved. `SlotsHold` of `MapNode` is proved too. Deadlock is checked, except in
`bus`, where a catcher without a time-out waits for ever by design, and in `memory`,
where all runs may be over.

**Bounds.** `MaxResumes`, `MaxHandovers`, `MaxForgets`, `MaxDeletes` bound what the environment
may do; they are constants, and the theorems hold for every value of them. Five
nodes are enough for a diamond behind an entry node, a fallback with a successor, a
chain of the greatest length, a cycle, a join of more tasks than slots, and a
fallback shared by two nodes that is an ordinary node too. In the other modules two of each
actor are enough for every race of two; the third call of `tool` is the one that
does not need the thread. The list of one line is where `limit` hides a task; the
budget of two calls, with two runs of two steps, is exceeded in some runs and not
in others; two ids are needed for one to be used again while the other is in use. Three items in
two slots are the fewest of which one waits while another runs and a third raises;
two retries let the orphans of two attempts meet a third. The calendar's six days
hold a working day of each kind, a weekend, a holiday in it and holidays next to
one; the longest free stretch is six days. In `memory`, the third run shares the user
with both and its scope with their thread; a limit of one entry is full after the first
save, so what the second saved is cut off for the third, also when the first key is deleted between
the list and its `get()`. Three rules are enough for two that match with one that
does not before, between or after them; two are defaults and two need both fields. The
texts have numerals with and without a fraction, a word, the names of the truth values and the empty one, and each of them behind a `=`, which stands between
the digits and the letters.
In `pipeline`, `MaxRounds` (2) and `MaxAdds` (1) bound a loop and the actions added late;
two calls are enough for one stream to take the other's events, and a resume for a
stream to end while the call goes on. In `modelcall`, `MaxSteps` (1), `MaxChain` (2) and
`MaxFails` (1) bound the rounds of tools, the rules and the failures; with three turns
a provider gets back its own first turn with another's between them.

**Conditions.** `validate()` does not look at fallback nodes. `Causality`, `StartedOnce` and
the first half of `StoreIsRight` are stated for graphs whose fallbacks are exclusive: no incoming edge, no
entry node, no two nodes with the same fallback. Without this they are false: a
fallback that is also an ordinary node runs twice or before its predecessors.
`NothingLeftOpen` needs only that fallbacks have no incoming edge. The graph `Shared`
has none of this, and is checked for the rest.
`resume()` marks its node DONE whatever it was. `Causality` says nothing of the order after such a
node when it was never started: a fallback node that was resumed may still be started for its purpose,
after its successors. What a resume does to the store is left to the second half of
`StoreIsRight`, because `resume()` of a failed node means to change what was saved.
`TurnsDoNotMix` and `ThreadsOnlyGrow` are about each `Thread` object; of two first runs on a thread
each has its own (section 5). `NoTurnLost` is about threads that were stored before and that nobody deleted.
`NoHandlerLeftBehind` leaves out a request whose `publish()` raised: `request()` is not yet in
its `try`, so the reply handler stays. `CancelCutsCleanly` is about what a cancelled run leaves, not
about how soon it stops. `OwnPastIsLoaded` says of each entry that was cleared or deleted nothing, of all
others what it says. `DecisionIsRight` and `ScoreIsRight` leave out the tables that have, for the
inputs given, a condition that `Misread` names, and only those. In `BooksAgree` the trail may lack any entry if the backend may
raise, and has none too many but the failures of attempts that were retried; if the backend does
not raise, the trail lacks only the entries of nodes whose input could not be made and of
failures returned under FALLBACK. `RecordsAgreeWithReply` says of a
call that timed out that it is in the history and not in the trail.

**Fairness.** asyncio runs every task whose await is over, so the steps of the loop, of
tasks, coroutines and timers are weakly fair, one by one. This includes that a
node's `execute()`, the store, the model, the audit backend and listeners return or
raise; a tool or an executor thread need not (`EveryCallEnds` holds although they may
hang). In `Pipeline` the coroutine of a call (`Work`) and a stream that is read (`Read`) are
fair; `StreamEnds` is about consumers that keep reading. Nobody has to cancel, resume, throw, catch, answer, hand over or raise. In
`HumanTaskQueue` fairness is an assumption on people: they keep polling and finish
what they start, and somebody releases abandoned tasks, because claims never
expire.

## 5. Where the documentation and the code differ

| Run | The documentation | What the code does |
|---|---|---|
| `human_answer` | HumanNode "waits for completion" (engine/human_node.py:13); `resume()` "after human task completion ... continues execution from there" (engine/runtime.py:176) | `execute()` returns success with a marker as soon as the task is emitted (engine/human_node.py:53); the next node runs on the marker, and `resume()` finds it done |

The run checks `AnswerIsUsed` alone, under `Spec`, and TLC finds it violated in a few steps.

More promises are stated as definitions that TLC refutes in the same way when they
are added as INVARIANT to the cfg of their module:

- `FailFastStopsGraph` (`GraphRuntime`): "FAIL_FAST → stop graph, return error"
  (architecture.md:469); the loop goes on, and success depends on the exit nodes alone.
- `EveryTurnIsKept` (`AgentThread`): "Every call ... appends to the same thread"
  (agent/thread.py:3); two first runs create a thread each and the last `put()` wins.
- `EveryNodeIsSaved` (`GraphRuntime`): "Persisted via StateStore after every node completes"
  (engine/state.py:22, and architecture.md:445 and 477); the state is saved when all nodes of a wave
  have ended (engine/runtime.py:258), so a node may be done for long before its output is in the store.
- `PolicyIsOfTheEdgeTaken` (`GraphRuntime`): "Find the edge that led here (for error policy)"
  (engine/runtime.py:292); the policy, retries and fallback are those of the first incoming
  edge, whether or not it fired.
- `EveryTableAnswers` (`DecisionRules`): `">=": operator.ge` (adapters/memory_rules.py:16);
  `>` is taken before `>=` and `<` before `<=`, the rest, `=500`, is no number, and
  `evaluate()` raises.
- `NoConditionIsMisread` (`DecisionRules`): "Parse a condition string like '>500000' and test
  against a value" (adapters/memory_rules.py:23); a string is compared by `>=b` with `=b`, and
  `==False` holds for True, because `bool("False")` is.
- `ResponseIsToTheEvent` (`EventBus`): "Publish an event and wait for a response"
  (ports/event_bus.py:27); the reply topic is named after the `id()` of a future
  (adapters/memory_bus.py), so a late answer to a request that is over may reach one that has its id now.
- `NoRequestLeavesAHandler` (`EventBus`): `request()` unsubscribes in a `finally`
  (adapters/memory_bus.py), which does not cover `publish()`; when a handler raises there, the reply
  handler stays subscribed.
- `EveryCallIsAudited` (`ToolRunner`): "Audit logging of every tool call" (tools/runner.py:21);
  a call that timed out is in the history only.
- `EveryFailureIsAudited` (`Pipeline`): AuditMiddleware "Logs node execution to an AuditBackend"
  (engine/middleware.py:34); a node whose edge transform raises is NodeStarted and
  NodeFailed, and no middleware hears of it.
- `ToolMessagesAnswerCalls` (`ModelCall`): every message of role `tool` that OpenAI gets answers a
  call. The agent's tool results are texts of role TOOL (agent/agent.py:403-420), which the
  adapter sends with role `tool` and no `tool_call_id` (adapters/openai_llm.py:87).

Other differences are modelled as the code has them, and have no run:

- A node that *returns* failure under FALLBACK is recorded DONE and never routed to its
  fallback (engine/executor.py:88); architecture.md:472 says "FALLBACK → route to
  fallback_node". It is `FallbackRecordedDone`, and `FallBack` in `Pipeline`.
- The cancel token is looked at once per wave (engine/runtime.py:229);
  engine/cancel.py:11 says "before dispatching each frontier node". It is in `BeginWave`.
- `claim()` refuses CLAIMED tasks only (adapters/memory_tasks.py:42), so a COMPLETED one
  can be claimed and done again; architecture.md:813 says "prevent double-work".
- `load_context` gives all of short-term memory when the thread has nothing in it
  (agent/memory_manager.py:63); its docstring says "narrowed to entries saved under
  that thread". It is in `LoadShort`.
- `clear_session` clears the short-term memory of all sessions, not of the "current
  session" (agent/memory_manager.py:124).
- A guardrail's REDACT ends the check, so a BLOCK behind it is not heard
  (agent/guardrail_chain.py:24), and the agent sends the text as it was. It is in `Final`
  and `InputPasses`.
- A text that the output check blocks has been stored in the thread and published
  before (agent/agent.py:340 and 506); ports/guardrail.py:42 checks it "before returning".
- `CompensationNode` runs an action twice when another is added while it works
  (engine/compensation.py:55). `UndoneInReverse` says what is left of the promise.
- `LoopNode` reports success when `max_iterations` is up, `SubgraphNode` whatever the child
  reports, and `FormNode` raises TypeError when there is no response yet, because HumanTask has
  neither the assignee nor the payload it is given. They are in `NodeBodies`.
- CostMiddleware sees the tokens of the last attempt and the last round only, and a
  failure that is returned leaves no entry in the audit trail (`CostAddsUp`,
  `AuditAgreesWithEvents`).
- Two streams of one runtime share its queue and take each other's events
  (engine/runtime.py:156); `Feed` promises each event to some reader, `SoleStreamTellsAll`
  the whole story to a reader that is alone.
- The OpenAI adapter sends the first result of a message that has several
  (adapters/openai_llm.py:56), the Anthropic adapter the last of several system messages
  (anthropic_llm.py:141), the Gemini adapter no tool calls or results, and of an image that is a URL
  the text of the URL as if it were the bytes of the picture (gemini_llm.py:61-67).
  `CallsAreAnswered` is about the calls that a provider made through its own interface; it says nothing of
  the agent's tools, of which no provider knows. `ConversationArrives` is about which messages
  arrive, not about the encoding of a picture.
- architecture.md:418 puts PolicyEngine into the agent's loop; agent/agent.py never calls
  it. What `EveryoneIsAsked` says of policies is therefore about the client of `ModelCall`, which is assumed,
  and what it says of guardrails about the agent.
- An edge transform that raises fails its node whatever the policy of the edge is: there is no retry, no
  skip and no fallback (engine/runtime.py:286 is outside the executor). It is `TransformRaises`, and
  `BuildInput` in `GraphRuntime`.

## 6. What is proved

`tlapm` checks every proof; nothing is assumed but the named assumptions on the
constants, which TLC also evaluates in the runs. Every theorem holds for every value
of the constants.

| Theorem | Establishes | By |
|---|---|---|
| `TypeCorrect` | `TypeOK` of `GraphRuntime` | induction, action by action |
| `LimitIsSlack` | `LimitNeverBinds` | `LoopInv` |
| `RunIsExhaustive` | `NothingReadyAtTheEnd` | `LoopInv` and `WorklistInv` |
| `CausalOrder`, `RunsOnce` | `Causality`, `StartedOnce` | `CauseInv` |
| `QueueTypeCorrect`, `ClaimsExclude` | `QueueTypeOK` and `ClaimIsALock` of `HumanTaskQueue` | `ClaimIsALock` is inductive with `QueueTypeOK` |
| `AnswersAreTheClaimers` | `AnsweredByClaimer` | `ClaimIsALock` |
| `AgentTypeCorrect` | `TypeOK` of `AgentThread` | with `LoadsAThread` |
| `ThreadsGrow` | `ThreadsOnlyGrow` | `GrowthInv` |
| `BudgetIsKept` | `BudgetHolds` | what a payment does to the set of raised runs |
| `TurnsAreKept` | `NoTurnLost` | `KeepInv` |
| `MapTypeCorrect`, `LimitIsKept` | `MapTypeOK` and `SlotsHold` of `MapNode` | with `ExecutorInv` |
| `OrphansAreOfExceptions` | `OnlyOrphansOutlive` | `ExecutorInv` |
| `VerdictIsHonest` | `OutcomeIsHonest` | `BrokenInv` and `OutcomeInv` |
| `RulesTypeCorrect` | `TypeOK` of `DecisionRules` | with `KindInv` |
| `DecisionsAreRight` | `DecisionIsRight` | `LoopInv` of `DecisionRules` |
| `QueueImplementsFeed` | `FeedIsKept`: `Pipeline` implements `Feed` | `FeedInv` |
| `CompensationIsComplete` | `UndoneInReverse` of `Pipeline` | `UndoInv` |
| `NobodyIsPassedOver` | `EveryoneIsAsked` of `ModelCall` | `Ballot`, `Passed` |
| `RunIsClosed` | `NothingLeftOpen` | `AccountInv` |
| `CancelIsClean` | `CancelCutsCleanly` | `AccountInv`, `BeganInv` |
| `SavedIsTrue` | `StoreIsRight` | `KeptInv`, `StoreInv`, with `CauseInv` |
| `TurnsAreWhole` | `TurnsDoNotMix` | `TurnForm`, `CheckpointsEndTurns`, with parts of `KeepInv` |
| `RecordsAgree`, `RunnerTypeCorrect` | `RecordsAgreeWithReply` and `RunnerTypeOK` of `ToolRunner` | `RunnerInv` |
| `ScoresAreRight` | `ScoreIsRight` of `DecisionRules` | `LoopInv`, `ScoreSteps` |
| `BooksAlwaysAgree` | `BooksAgree` of `Pipeline` | `BookInv` |
| `SoleStreamIsComplete` | `SoleStreamTellsAll` of `Pipeline` | `StoryInv`, with `FeedInv` |
| `NobodyStaysSubscribed` | `NoHandlerLeftBehind` of `EventBus` | `Subscribed` |
| `SignalsReachAll` | `SignalReachesAll` of `EventBus` | `Heard`, with the rest of `BusInv` |
| `OnlyLateRepliesStray` | `StrayRepliesComeLate` of `EventBus` | `ReplyInv` |
| `SavesArePrefixes` | `SavesAreAPrefix` of `MemoryTiers` | `MemoryInv` |
| `RunsRememberTheirPast` | `OwnPastIsLoaded` of `MemoryTiers` | `MemoryInv` |
| `CalendarAnswersExactly` | `AnswersAreExact` of `BusinessCalendar` | `CalendarInv` |
| `WhatIsSentIsTheConversation` | `ConversationArrives` of `ModelCall` | `CallInv`: `TalkInv`, `OrderInv` |
| `NoCallIsLeftOpen` | `CallsAreAnswered` of `ModelCall` | `CallInv`: `TalkInv`, `AnswerInv` |
| `ModelsAreReminded` | `RepliesComeBack` of `ModelCall` | `CallInv`: `TalkInv`, `RecallInv` |

**The frontier loop.** `LimitNeverBinds` is not inductive: nothing in it says that a wave
makes progress. `LoopInv` does. Between waves there have been at most as many turns
as there are nodes that are no longer PENDING, and inside a wave every task is that
of a node that was PENDING when the wave began; so a wave that ends has used up one.
As there are three times as many turns as nodes, the limit is never reached.
`WorklistInv` adds that between waves, in a run that was not resumed, every ready
node is in the frontier.

**Causality** needs the fallbacks: a fallback node is started without a look at its
predecessors, so `CauseInv` (for graphs whose fallbacks are exclusive) carries that
the frontier has only nodes whose predecessors are settled, that the task of a node
is at that node or at its fallback, that the fallback of a node which may still fail
is PENDING, and that whatever was started once has its predecessors settled.
Settled nodes stay settled, which makes the whole inductive.

**The queue.** Who believes a task to be his is the one in `claimed_by`; with that, the
one who completes a task is the one it names.

**Threads.** `GrowthInv` adds to `ThreadsOnlyGrow` that a run has replayed nothing
before it has loaded its thread, so that loading cannot break it. `KeepInv` says
why a turn survives: all runs on a stored thread have the same object in hand; a
thread has messages only of runs that are past saving, so a turn is appended once;
appending does not touch the turns of others (`TurnAppended`).

**MapNode.** `ExecutorInv` says that attempts to come are idle. `BrokenInv` ties the
exception that `gather()` got to an item that raised, and since an item keeps its
result, an attempt that was given up stays a failed one although its orphans go on
(`OutcomeInv`).

**Decisions.** `LoopInv` of `DecisionRules` says what the loop has done before rule `k`: it
has collected the matches among the earlier rules, in order, and under FIRST none of
them fits, only defaults. After the last rule the list is therefore all matches
(`OutcomeIsRight`). That the stable sort puts the first of the most urgent rules in front is
`ForemostIsUrgent`; that a rule's conditions may be judged up to the first that does
not hold is `WhenIsSound`. An evaluation that raises gives no decision, so the
theorem says nothing of it; `EveryTableAnswers` does. A condition that is met without an exception is met as
it is written unless it is one of those that `Misread` names, for any texts in any order, as long as a
bound behind a `=` is no numeral and not empty (`TextAssumption`).

**The feed.** That every step of `Pipeline` is a step of `Feed` or changes nothing of it needs
an invariant on the reachable states, because `Feed` has no queue: `Backlog` says that the
queue is exactly what was emitted and not yet yielded, in order. A `Take` then yields the
event that `Feed` wants next, and a stream that ends on an empty queue has missed nothing.
`Unread` says that a consumer of a call that has not begun is none, so that `Begin` opens a
new reader. All actions between the queue's two ends leave `feed` alone or append to both
`sent` and `queue` (`WorkKeeps`).

**Compensation.** The loop of a CompensationNode keeps a position, while `add_action()` moves the
list under it. `UnderWay` says where the loop then stands: what was registered when it began is
still the end of the list, as many places further as were put in front since (`Added`), and
whatever the position has gone past is undone. An action that is put in front only makes
the loop repeat one, and the first time each is undone stays in order (`NextInList`). The
actions in the list are assumed to be distinct: of one that is there twice, "newest first" says nothing.

**Guardrails.** `Ballot` is about a check that goes on: the verdicts so far are of the kind it
is about, and between checks there are none. A check closes only at the end of the
list as it is then, or at a verdict that is final, and one that lets through has none
that is against (`LetThrough`). `Passed` carries this from the check to the prompt: what is
stored, and what a run past its check holds, has no text of a user but cleared ones, and what
tools and models add are not a user's (`OthersSpeak`).

**Conversations.** The properties are about a request, but what makes them true is the prompt it is
built from, so the proof has two halves. The first is `CallInv`, about the prompt. It is the system
message and then a dialog (`Dialog`), which begins with the user and has no two messages of the
model in a row (`TalkInv`, `InTurns`); the numbers of its texts and images rise,
up to the last one given out (`OrderInv`); every reply that was not lost is in it (`RecallInv`);
and its calls are answered, but for those that the policy engine is asked about just now
(`AnswerInv`), while an agent, whose calls are text, has none. In a client's prompt each message of
role `tool` carries a result, which every translation keeps (`Linked`). A step adds turns to the dialog (`Adds`),
leaves it alone (`Rests`) or, when an exception ends an agent's run, throws the open ones away
(`Loses`), and each part of the invariant is shown once for each of the three kinds. The second half says what
every translation keeps of a dialog: texts, calls and results, in order (`AskOpenAI`, `AskAnthropic`,
`AskGemini`). Gemini's merging is the only one that puts messages together; that it loses
nothing, and that the roles alternate afterwards, is shown for one turn of the loop
(`JoinedWell`) and from there for all lists (`MergedWell`).

**Accounts of a run.** `AccountInv` keeps books in the middle of a wave: a node has been
started as often as closed, plus the tasks that are at work there (`OpenInv`), and nothing
is RUNNING where no task is (`PlaceInv`). Between waves there are no tasks, so nothing is
open, however the run ends. Cancellation marks nodes between waves only, which is why it never
marks one that began (`BeganInv`). That the store stays true needs that a node which is saved as
ended is never touched again: no task is at it or comes to it (`KeptInv`), which rests on
`CauseInv`. That it misses nothing is `StoreInv`: whenever the loop turns, the last wave is in it.

**Turns.** `TurnForm` says what a run has said so far: its question, then words that are not
questions, the last of them the model's if the run is a success. It joins its
thread in one step (`TurnJoins`), after which the outcome does not change (`OutcomeFixed`). A checkpoint is
all messages of the thread as they are then, so it ends where a turn does, and appending a turn keeps
that of the earlier ones (`CheckpointsEndTurns`).

**The tool runner.** `CallInv` says for every place of a call what is on record there. The step
that writes the history and the one that writes the audit event are apart, and an
audit write may raise between them; the invariant names what each place still owes.

**Scores.** The reference adds up the factors with a recursive function, the loop adds one
after the other. That the function has a value for every number of factors, and takes one
more step with every factor (`SumIsDefined`, `ScoreSteps`), is shown from the least number for which
it would not; `LeastIsLeast` gives that number.

**The books.** What a middleware is told and what is emitted are apart by a few steps, so between
them the books are one short. `AuditInv` says by how much, for every place of a call: which entry
the trail has already for an event that is still to come, or still lacks. For the cost it is
`CostInv`: `Owed` is the tokens of the answers that were paid for and that CostMiddleware has not seen
yet, a set whose cardinality is what `cost` lacks of `spent` as long as nothing failed, was
repeated or was resumed (`Clean`), and never too much. `Agree`
is what the counts of a node's entries and events have to do with each other between nodes; a backend
that may raise leaves the upper bounds only, and a node without input adds a NodeStarted and a
NodeFailed that no entry answers.

**The sole stream.** `StoryInv` is about the runtime that has one call and was not resumed: what
was emitted so far is a story, started and answered in turns and once per stage that ran,
whose last line depends on the place of the call. A step adds at most one event
(`OneEvent`, `StoryGoesOn`), and with `Backlog` of the feed what a stream that has ended was
given is all that was emitted.

**The event bus.** `Subscribed` says who is on a list: a catcher on that of its signal, while it
waits; a request on that of its own address, from its publication to its end. What has
stopped waiting is therefore on none, provided that removal removes every occurrence and nothing
else, which is `KeepKeeps`: the filter is a recursive function of the position, and what
it has kept up to each is shown for all of them by `SetInduction`. For `SignalReachesAll`,
`Heard` says that whoever in the copied list was called, and waits, has its result; the list itself
may be another by then. `ReplyInv` says why an answer that strays comes late: whoever waits for one, or
raised, has its handler on its own topic, and no two handlers of requests are on one
(`TopicsAreApart`), so the id of a request is not given out again before it has ended. `Addressed` and `Busy` are what these two rest on: a request that is under
way has an address, and a listener that is awaited was called.

**Memory.** Any step adds to a tier at most the run whose turn it is, moves what is missing into
`removed`, and leaves the order of the rest alone as long as nothing was removed (`TiersMove`).
`Remembers` says of a run, at each of its awaits, what it has written and what it has been told. The
difficult part is the long-term memory, which it reads key by key while others save and delete: each
earlier run of the user is told, is among the keys still to be read, was deleted, or was cut off when the
keys were listed (`ToldLong`); and a key that is still to be read can only have gone by being deleted.

**The calendar.** The reference counts ticks; an interval can be cut in two (`TicksAddUp`), and
counts nothing when it is free (`FreeTime`) and everything when it is busy (`BusyTime`). A pass of a loop
moves by a piece of one of these kinds (`UntilMorning`, `WithinHours`, `DayCounts`), and `Adding`, `Counting` and
`Seeking` are the sums so far. Days and hours come from division by a length that is not known;
`DayBegins` and `DayOf` confine that to two lemmas.

## 7. What is only model-checked

- Liveness (`Termination`, `EveryTaskIsAnswered`, `EveryRunEnds`, `WaitingEnds`,
  `EveryCallEnds`, `EverythingEnds`, `EveryCallReturns`, `StreamEnds`): the prover has no rules for
  fairness and ENABLED.
- The divergences of section 5, which are counterexamples.

## 8. What is not modelled, and why

- The branch of `run()` for WAITING records: no record ever gets that state.
- A GatewayNode that waits for several nodes, and graphs with waves of several nodes in
  `Pipeline`: `GraphRuntime` has the waves, with nodes that succeed or fail in any way.
- `compensation_stack` of the context, which CompensationNode prefers to its list: nothing
  in the repository fills it.
- The replies of a model are abstracted to the outcomes that `run()` tells apart; the
  parsing itself and the wording of prompts are text handling. `run_stream()` replays
  what `run()` returned.
- Streams, embeddings, token counts and generation parameters of the LLM adapters, and the
  mock: calls to services, or data that no property tells apart.
- Semantic memory: no run writes to it. The token and money budgets are enforced by the
  comparison that `BudgetHolds` is about, on other counters.
- Consent: a question to a provider before an operation, without state of its own.
- Agent factories and the corpus registry: constructors and a dictionary. Built-in tools and
  connectors: pure functions, and calls to services, behind ToolRunner.
- Instance store, template engine, artifact store, notifier, verification and corpus
  providers, audit backend: ports, or stores that set, append or get one value. What the
  runtime saves, and when, is in `GraphRuntime`.
- The process package has no code for the process engine that architecture.md
  describes.

## 9. Running

    tlc -config MCGraphRuntime.cfg MCGraphRuntime     # a run: its cfg and its module
    tlapm GraphRuntimeProofs.tla                      # the proofs of a component
