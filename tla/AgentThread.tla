----------------------------- MODULE AgentThread -----------------------------
(***************************************************************************)
(* SuluvAgent.run: the ReAct loop, and the conversation Thread it reads at *)
(* the start and extends at the end.  One agent serves many runs at once   *)
(* (its AgentNodes, its callers), so several runs may be anywhere in the   *)
(* loop with the same Thread in hand.                                      *)
(*                                                                         *)
(* The InMemoryCheckpointer, like the dict an agent uses without one,      *)
(* stores the Thread object itself: get() and put() pass references, which *)
(* are modelled as such.  Every await of run() is a place where another    *)
(* run may go on and where an exception may surface.                       *)
(***************************************************************************)
EXTENDS Naturals, Sequences, FiniteSets, SequencesExt

CONSTANTS
  Run,       \* calls of run()
  Thread,    \* thread ids
  Contexts,  \* the ways to give runs a context.thread_id, or None
  None,      \* Python's None
  Known,     \* the threads stored before the first of these runs
  MaxSteps,  \* role.max_steps
  Budget,    \* CostBudget.max_steps, the number of model calls paid for
  MaxDeletes \* bound: calls of delete_thread()

\* A Thread object is named after the run that creates it, or after the
\* thread if it is stored from the beginning.
Object == Run \cup Known

Message == [run : Run, role : {"user", "assistant", "tool"}]

ASSUME AgentAssumption ==
  /\ IsFiniteSet(Run)
  /\ Contexts \subseteq [Run -> Thread \cup {None}]
  /\ Known \subseteq Thread
  /\ Run \cap Thread = {}
  /\ None \notin Run \cup Thread
  /\ MaxSteps \in Nat \ {0}
  /\ Budget \in Nat
  /\ MaxDeletes \in Nat

VARIABLES
  threadOf,    \* threadOf[r]: the context.thread_id of r (never changes)
  store,       \* store[t]: the object the checkpointer has for t
  messages,    \* messages[o]: Thread.messages
  checkpoints, \* checkpoints[o]: the message lists of Thread.checkpoints
  pc,          \* pc[r]: the await where r is
  object,      \* object[r]: the Thread object r has in hand
  history,     \* history[r]: the thread's messages as replayed to the model
  new,         \* new[r]: new_messages
  step,        \* step[r]: step_num
  answer,      \* answer[r]: AgentResult.answer, as far as it matters
  success,     \* success[r]: AgentResult.success
  calls,       \* calls[r]: calls of llm.complete
  cancelled,   \* the agent's cancel token
  spent,       \* CostTracker._step_count
  remembered,  \* the runs saved to memory
  audited,     \* the runs with an agent_run audit event
  deletes

threads == <<store, messages, checkpoints>>
locals  == <<threadOf, object, history, new, step, answer, success>>
meters  == <<calls, spent>>
logs    == <<remembered, audited>>
vars    == <<threads, pc, locals, meters, cancelled, logs, deletes>>

Pc == {"guard",    \* check_input
       "load",     \* checkpointer.get
       "memory",   \* memory.load_context
       "loop",     \* top of the for loop
       "asking",   \* llm.complete
       "tool",     \* _tool_runner.run
       "output",   \* check_output
       "save",     \* about to extend the thread
       "put",      \* checkpointer.put
       "remember", \* memory.save_interaction
       "audit",    \* audit.write
       "returned", "blocked", "raised"}

Ended == {"returned", "blocked", "raised"}

\* A final_answer is whatever the reply has under that key.  Only a value that
\* is true and cannot be sliced, like a number or a dict, is an "object".
Answers == {"empty", "text", "object"}

TypeOK ==
  /\ threadOf \in Contexts
  /\ store \in [Thread -> Object \cup {None}]
  /\ messages \in [Object -> Seq(Message)]
  /\ checkpoints \in [Object -> Seq(Seq(Message))]
  /\ pc \in [Run -> Pc]
  /\ object \in [Run -> Object \cup {None}]
  /\ history \in [Run -> Seq(Message)]
  /\ new \in [Run -> Seq(Message)]
  /\ step \in [Run -> 0..MaxSteps]
  /\ answer \in [Run -> Answers]
  /\ success \in [Run -> BOOLEAN]
  /\ calls \in [Run -> Nat]
  /\ cancelled \in BOOLEAN
  /\ spent \in Nat
  /\ remembered \subseteq Run
  /\ audited \subseteq Run
  /\ deletes \in Nat

Init ==
  /\ threadOf \in Contexts
  /\ store = [t \in Thread |-> IF t \in Known THEN t ELSE None]
  /\ messages = [o \in Object |-> << >>]
  /\ checkpoints = [o \in Object |-> << >>]
  /\ pc = [r \in Run |-> "guard"]
  /\ object = [r \in Run |-> None]
  /\ history = [r \in Run |-> << >>]
  /\ new = [r \in Run |-> << >>]
  /\ step = [r \in Run |-> 0]
  /\ answer = [r \in Run |-> "empty"]
  /\ success = [r \in Run |-> TRUE]
  /\ calls = [r \in Run |-> 0]
  /\ cancelled = FALSE
  /\ spent = 0
  /\ remembered = {}
  /\ audited = {}
  /\ deletes = 0

-----------------------------------------------------------------------------
(* Before the loop.                                                        *)

Goto(r, from, to) == pc[r] = from /\ pc' = [pc EXCEPT ![r] = to]

InputAllowed(r) ==
  /\ Goto(r, "guard", IF threadOf[r] = None THEN "memory" ELSE "load")
  /\ UNCHANGED <<threads, locals, meters, cancelled, logs, deletes>>

\* Returns at once: no thread, no memory, no audit event.
InputBlocked(r) ==
  /\ Goto(r, "guard", "blocked")
  /\ success' = [success EXCEPT ![r] = FALSE]
  /\ UNCHANGED <<threads, threadOf, object, history, new, step, answer, meters,
                 cancelled, logs, deletes>>

\* Wrong on purpose: a checkpointer that gives every run a copy of its own ...
LoadCopy(r) ==
  /\ Goto(r, "load", "memory")
  /\ object' = [object EXCEPT ![r] = r]
  /\ messages' = [messages EXCEPT ![r] =
                    IF store[threadOf[r]] = None THEN << >> ELSE messages[store[threadOf[r]]]]
  /\ UNCHANGED <<store, checkpoints, threadOf, history, new, step, answer, success,
                 meters, cancelled, logs, deletes>>

\* ... and here a lock on the thread that is never given back.
LoadWhenUnused(r) ==
  /\ Goto(r, "load", "memory")
  /\ \A q \in Run : object[q] = None \/ object[q] # store[threadOf[r]]
  /\ object' = [object EXCEPT ![r] =
                  IF store[threadOf[r]] = None THEN r ELSE store[threadOf[r]]]
  /\ UNCHANGED <<threads, threadOf, history, new, step, answer, success, meters,
                 cancelled, logs, deletes>>

\* _load_thread: the stored object, or a fresh one that nobody else sees.
LoadThread(r) ==
  /\ Goto(r, "load", "memory")
  /\ object' = [object EXCEPT ![r] =
                  IF store[threadOf[r]] = None THEN r ELSE store[threadOf[r]]]
  /\ UNCHANGED <<threads, threadOf, history, new, step, answer, success, meters,
                 cancelled, logs, deletes>>

Says(r, role) == [run |-> r, role |-> role]

\* Wrong on purpose: the question goes into the thread right away.
AssembleInThread(r) ==
  /\ Goto(r, "memory", "loop")
  /\ history' = [history EXCEPT ![r] = IF object[r] = None THEN << >> ELSE messages[object[r]]]
  /\ messages' = [o \in Object |-> IF o = object[r] THEN Append(messages[o], Says(r, "user"))
                                                    ELSE messages[o]]
  /\ new' = [new EXCEPT ![r] = << >>]
  /\ UNCHANGED <<store, checkpoints, threadOf, object, step, answer, success, meters,
                 cancelled, logs, deletes>>

\* The memory context is there: assemble the prompt.
Assemble(r) ==
  /\ Goto(r, "memory", "loop")
  /\ history' = [history EXCEPT ![r] = IF object[r] = None THEN << >> ELSE messages[object[r]]]
  /\ new' = [new EXCEPT ![r] = <<Says(r, "user")>>]
  /\ UNCHANGED <<threads, threadOf, object, step, answer, success, meters, cancelled,
                 logs, deletes>>

-----------------------------------------------------------------------------
(* The ReAct loop.                                                         *)

AskModel(r) ==
  /\ step[r] < MaxSteps
  /\ ~cancelled
  /\ Goto(r, "loop", "asking")
  /\ step' = [step EXCEPT ![r] = @ + 1]
  /\ calls' = [calls EXCEPT ![r] = @ + 1]
  /\ UNCHANGED <<threads, threadOf, object, history, new, answer, success, spent,
                 cancelled, logs, deletes>>

\* The answer is "Cancelled", so the output guardrail runs, and what the
\* loop has done so far goes into the thread.
StopCancelled(r) ==
  /\ step[r] < MaxSteps
  /\ cancelled
  /\ Goto(r, "loop", "output")
  /\ step' = [step EXCEPT ![r] = @ + 1]
  /\ answer' = [answer EXCEPT ![r] = "text"]
  /\ success' = [success EXCEPT ![r] = FALSE]
  /\ UNCHANGED <<threads, threadOf, object, history, new, meters, cancelled, logs, deletes>>

\* No final answer after max_steps; the empty answer skips the guardrail.
GiveUp(r) ==
  /\ step[r] = MaxSteps
  /\ Goto(r, "loop", "save")
  /\ success' = [success EXCEPT ![r] = FALSE]
  /\ UNCHANGED <<threads, threadOf, object, history, new, step, answer, meters,
                 cancelled, logs, deletes>>

\* cost_tracker.record() counts the call first and checks the budget after.
Pay == spent' = spent + 1

\* Wrong on purpose: the exception of the tracker is swallowed.
WithinBudgetOrNot == TRUE

WithinBudget == spent' <= Budget

\* final_answer, a reply that is not JSON, or no action.  An answer that is
\* false, like "", is as good as empty and skips the guardrail.
Answer(r) ==
  /\ \E a \in Answers :
       /\ Goto(r, "asking", IF a = "empty" THEN "save" ELSE "output")
       /\ answer' = [answer EXCEPT ![r] = a]
  /\ Pay /\ WithinBudget
  /\ new' = [new EXCEPT ![r] = Append(@, Says(r, "assistant"))]
  /\ UNCHANGED <<threads, threadOf, object, history, step, success, calls, cancelled, logs,
                 deletes>>

\* The reply and the observation, which for an unknown tool is an error text.
Observe(r) ==
  new' = [new EXCEPT ![r] = @ \o <<Says(r, "assistant"), Says(r, "tool")>>]

CallTool(r) ==
  /\ Goto(r, "asking", "tool")
  /\ Pay /\ WithinBudget
  /\ UNCHANGED <<threads, locals, calls, cancelled, logs, deletes>>

ToolReturns(r) ==
  /\ Goto(r, "tool", "loop")
  /\ Observe(r)
  /\ UNCHANGED <<threads, threadOf, object, history, step, answer, success, meters,
                 cancelled, logs, deletes>>

UnknownTool(r) ==
  /\ Goto(r, "asking", "loop")
  /\ Pay /\ WithinBudget
  /\ Observe(r)
  /\ UNCHANGED <<threads, threadOf, object, history, step, answer, success, calls,
                 cancelled, logs, deletes>>

\* BudgetExceeded, or a JSON reply that is not an object: nothing catches it.
ReplyRaises(r) ==
  /\ Goto(r, "asking", "raised")
  /\ Pay
  /\ UNCHANGED <<threads, locals, calls, cancelled, logs, deletes>>

-----------------------------------------------------------------------------
(* After the loop.                                                         *)

\* A blocked answer is replaced by a text that says so.
CheckOutput(r) ==
  /\ Goto(r, "output", "save")
  /\ \E blocked \in BOOLEAN :
       /\ success' = [success EXCEPT ![r] = @ /\ ~blocked]
       /\ answer' = [answer EXCEPT ![r] = IF blocked THEN "text" ELSE @]
  /\ UNCHANGED <<threads, threadOf, object, history, new, step, meters, cancelled, logs,
                 deletes>>

NoThread(r) ==
  /\ Goto(r, "save", "remember")
  /\ object[r] = None
  /\ UNCHANGED <<threads, locals, meters, cancelled, logs, deletes>>

\* Wrong on purpose: the thread becomes what this run saw and said.
ExtendFromPrompt(r) ==
  LET o == object[r] IN
  /\ Goto(r, "save", "put")
  /\ o # None
  /\ messages' = [messages EXCEPT ![o] = history[r] \o new[r]]
  /\ checkpoints' = [checkpoints EXCEPT ![o] = Append(@, messages'[o])]
  /\ UNCHANGED <<store, locals, meters, cancelled, logs, deletes>>

\* append_message for each, then add_checkpoint, whose metadata takes a slice
\* of the answer: an "object" raises there, with the messages appended and no
\* checkpoint taken.  There is no await in between.
Extend(r) ==
  LET o == object[r] IN
  /\ o # None
  /\ messages' = [messages EXCEPT ![o] = @ \o new[r]]
  /\ \/ /\ answer[r] # "object"
        /\ Goto(r, "save", "put")
        /\ checkpoints' = [checkpoints EXCEPT ![o] = Append(@, messages'[o])]
     \/ /\ answer[r] = "object"
        /\ Goto(r, "save", "raised")
        /\ UNCHANGED checkpoints
  /\ UNCHANGED <<store, locals, meters, cancelled, logs, deletes>>

Put(r) ==
  /\ Goto(r, "put", "remember")
  /\ store' = [store EXCEPT ![threadOf[r]] = object[r]]
  /\ UNCHANGED <<messages, checkpoints, locals, meters, cancelled, logs, deletes>>

SaveToMemory(r) ==
  /\ Goto(r, "remember", "audit")
  /\ remembered' = remembered \cup {r}
  /\ UNCHANGED <<threads, locals, meters, cancelled, audited, deletes>>

Audit(r) ==
  /\ Goto(r, "audit", "returned")
  /\ audited' = audited \cup {r}
  /\ UNCHANGED <<threads, locals, meters, cancelled, remembered, deletes>>

\* A guardrail, the checkpointer, the memory, the model, the tool runner or
\* the audit backend raises.  What was done before is not undone.
Raises(r) ==
  /\ pc[r] \notin Ended \cup {"loop", "save"}
  /\ pc' = [pc EXCEPT ![r] = "raised"]
  /\ UNCHANGED <<threads, locals, meters, cancelled, logs, deletes>>

-----------------------------------------------------------------------------
Cancel ==
  /\ ~cancelled
  /\ cancelled' = TRUE
  /\ UNCHANGED <<threads, pc, locals, meters, logs, deletes>>

\* delete_thread(): runs that hold the object do not notice.
Delete(t) ==
  /\ deletes < MaxDeletes
  /\ store[t] # None
  /\ store' = [store EXCEPT ![t] = None]
  /\ deletes' = deletes + 1
  /\ UNCHANGED <<messages, checkpoints, pc, locals, meters, cancelled, logs>>

AllEnded == (\A r \in Run : pc[r] \in Ended) /\ UNCHANGED vars

Progress(r) ==
  \/ InputAllowed(r) \/ InputBlocked(r) \/ LoadThread(r) \/ Assemble(r)
  \/ AskModel(r) \/ StopCancelled(r) \/ GiveUp(r)
  \/ Answer(r) \/ CallTool(r) \/ ToolReturns(r) \/ UnknownTool(r) \/ ReplyRaises(r)
  \/ CheckOutput(r) \/ NoThread(r) \/ Extend(r) \/ Put(r)
  \/ SaveToMemory(r) \/ Audit(r)

Next ==
  \/ \E r \in Run : Progress(r) \/ Raises(r)
  \/ Cancel
  \/ \E t \in Thread : Delete(t)
  \/ AllEnded

Spec == Init /\ [][Next]_vars

\* asyncio resumes every coroutine whose await is over, and what run() awaits
\* returns, if it does not raise.  Nothing has to raise.
FairSpec == Spec /\ \A r \in Run : WF_vars(Progress(r))

-----------------------------------------------------------------------------
\* The sequence s has the turn of r, in one piece and only once.
HasTurn(s, r) ==
  \E k \in 0..(Len(s) - Len(new[r])) :
    /\ \A i \in 1..Len(new[r]) : s[k + i] = new[r][i]
    /\ \A i \in 1..Len(s) : s[i].run = r => i \in (k + 1)..(k + Len(new[r]))

(***************************************************************************)
(* "The full message history is replayed": what the model was shown of the *)
(* thread, and every checkpoint ever taken of it, is a prefix of what the  *)
(* thread says now.  Concurrent runs extend it, none rewrites it.          *)
(***************************************************************************)
ThreadsOnlyGrow ==
  /\ \A r \in Run : object[r] # None => IsPrefix(history[r], messages[object[r]])
  /\ \A o \in Object : \A i \in 1..Len(checkpoints[o]) :
       IsPrefix(checkpoints[o][i], messages[o])

\* A turn of the thread s ends at n.
EndsATurn(s, n) == n \in 1..Len(s) /\ (n = Len(s) \/ s[n + 1].role = "user")

(***************************************************************************)
(* Turns do not mix: in a thread, the messages of a run are consecutive,   *)
(* begin with its user message, and end with an assistant message if the   *)
(* run was a success.  Each checkpoint ends where a turn does, whatever    *)
(* was appended later, and even after a run that raised when its turn was  *)
(* in the thread and its checkpoint was not.                               *)
(***************************************************************************)
TurnsDoNotMix ==
  \A o \in Object :
    LET s == messages[o] IN
    /\ \A i \in 1..Len(s) : s[i].role = "user" <=> i = 1 \/ s[i - 1].run # s[i].run
    /\ \A i, j \in 1..Len(s) : s[i].role = "user" /\ s[i] = s[j] => i = j
    /\ \A i \in 1..Len(s) : success[s[i].run] /\ EndsATurn(s, i) => s[i].role = "assistant"
    /\ \A i \in 1..Len(checkpoints[o]) : EndsATurn(s, Len(checkpoints[o][i]))

(***************************************************************************)
(* "Every call appends to the same thread": a run that returned on a       *)
(* thread that was stored beforehand, and never deleted, has its whole     *)
(* turn in what the checkpointer holds, exactly once, even when others ran *)
(* on the same thread at the same time.                                    *)
(***************************************************************************)
NoTurnLost ==
  deletes = 0 =>
    \A r \in Run : pc[r] = "returned" /\ threadOf[r] \in Known =>
      /\ store[threadOf[r]] # None
      /\ HasTurn(messages[store[threadOf[r]]], r)

(***************************************************************************)
(* A budget of max_steps bounds the calls to the model by all runs: only a *)
(* call that ends its run with an exception goes beyond it.                *)
(***************************************************************************)
BudgetHolds == spent <= Budget + Cardinality({r \in Run : pc[r] = "raised"})

(***************************************************************************)
(* Every run comes back to its caller, after at most max_steps steps.      *)
(***************************************************************************)
EveryRunEnds == \A r \in Run : <>(pc[r] \in Ended)

-----------------------------------------------------------------------------
(* What the documentation says and the code does not do.                   *)

(***************************************************************************)
(* "Every call to agent.run(task, thread_id="t1") appends to the same      *)
(* thread": a run that returned has its turn in the stored thread.  Two    *)
(* first runs on a thread each create one, and the last put() wins.        *)
(***************************************************************************)
EveryTurnIsKept ==
  deletes = 0 =>
    \A r \in Run : pc[r] = "returned" /\ threadOf[r] # None =>
      /\ store[threadOf[r]] # None
      /\ HasTurn(messages[store[threadOf[r]]], r)
=============================================================================
