------------------------------ MODULE ToolRunner ------------------------------
(***************************************************************************)
(* ToolRunner.run and SuluvTool.execute.  A tool written with async def is *)
(* a coroutine of the event loop; any other tool runs in a thread of the   *)
(* loop's default executor, which has a fixed number of them.  wait_for    *)
(* ends the wait in both cases, but it can stop only the coroutine.  The   *)
(* call is put on record when the tool is done, and audited after that, by *)
(* a backend that may itself fail.                                         *)
(***************************************************************************)
EXTENDS Naturals, FiniteSets

CONSTANTS
  Call,      \* calls of run()
  Threaded,  \* those whose tool is not async def
  Workers    \* threads of the default executor

ASSUME RunnerAssumption ==
  /\ IsFiniteSet(Call)
  /\ Threaded \subseteq Call
  /\ Workers \in Nat \ {0}

VARIABLES
  hasAudit, \* whether the runner was given an audit backend (never changes)
  pc,       \* pc[c]: the await where run() is
  job,      \* job[c]: what has become of the tool's own code
  entries,  \* entries[c]: how often c's record is in _call_history
  recorded, \* recorded[c]: record["success"]; the entries share one dict
  events,   \* events[c]: audit events written, by type
  reply,    \* reply[c]: what run() returned
  faults    \* faults[c]: audit writes that raised

runnerVars == <<hasAudit, pc, job, entries, recorded, events, reply, faults>>

Pc == {"idle", "executing", "auditing", "auditingError", "returned", "raised"}

Job == {"none", "queued", "running", "succeeded", "failed", "cancelled"}

EventType == {"tool_call", "tool_error"}

RunnerTypeOK ==
  /\ hasAudit \in BOOLEAN
  /\ pc \in [Call -> Pc]
  /\ job \in [Call -> Job]
  /\ entries \in [Call -> 0..2]
  /\ recorded \in [Call -> BOOLEAN]
  /\ events \in [Call -> [EventType -> 0..1]]
  /\ reply \in [Call -> {"none", "result", "error", "timeout"}]
  /\ faults \in [Call -> 0..2]

RunnerInit ==
  /\ hasAudit \in BOOLEAN
  /\ pc = [c \in Call |-> "idle"]
  /\ job = [c \in Call |-> "none"]
  /\ entries = [c \in Call |-> 0]
  /\ recorded = [c \in Call |-> FALSE]
  /\ events = [c \in Call |-> [e \in EventType |-> 0]]
  /\ reply = [c \in Call |-> "none"]
  /\ faults = [c \in Call |-> 0]

-----------------------------------------------------------------------------
(* The tool.                                                               *)

Goto(c, from, to) == pc[c] = from /\ pc' = [pc EXCEPT ![c] = to]

Begin(c) ==
  /\ Goto(c, "idle", "executing")
  /\ job' = [job EXCEPT ![c] = IF c \in Threaded THEN "queued" ELSE "running"]
  /\ UNCHANGED <<hasAudit, entries, recorded, events, reply, faults>>

\* Threads whose call has timed out are still in use.
BusyWorkers == {c \in Threaded : job[c] = "running"}

StartJob(c) ==
  /\ job[c] = "queued"
  /\ Cardinality(BusyWorkers) < Workers
  /\ job' = [job EXCEPT ![c] = "running"]
  /\ UNCHANGED <<hasAudit, pc, entries, recorded, events, reply, faults>>

\* The tool has its effect and returns a value, or it raises.
JobEnds(c, how) ==
  /\ job[c] = "running"
  /\ job' = [job EXCEPT ![c] = how]
  /\ UNCHANGED <<hasAudit, pc, entries, recorded, events, reply, faults>>

-----------------------------------------------------------------------------
(* run(): success, timeout, exception.                                     *)

\* Appends the record, whose success flag the earlier entry shares.
Record(c, ok) ==
  /\ entries' = [entries EXCEPT ![c] = @ + 1]
  /\ recorded' = [recorded EXCEPT ![c] = ok]

Reply(c, r) == reply' = [reply EXCEPT ![c] = r]

Succeeded(c) ==
  /\ job[c] = "succeeded"
  /\ Record(c, TRUE)
  /\ IF hasAudit
       THEN Goto(c, "executing", "auditing") /\ UNCHANGED reply
       ELSE Goto(c, "executing", "returned") /\ Reply(c, "result")
  /\ UNCHANGED <<hasAudit, job, events, faults>>

Failed(c) ==
  /\ job[c] = "failed"
  /\ Record(c, FALSE)
  /\ IF hasAudit
       THEN Goto(c, "executing", "auditingError") /\ UNCHANGED reply
       ELSE Goto(c, "executing", "returned") /\ Reply(c, "error")
  /\ UNCHANGED <<hasAudit, job, events, faults>>

\* Wrong on purpose: the clock starts when the tool does.
TimesOutOnceRunning(c) ==
  /\ Goto(c, "executing", "returned")
  /\ job[c] = "running"
  /\ job' = [job EXCEPT ![c] = IF c \in Threaded THEN "running" ELSE "cancelled"]
  /\ Record(c, FALSE)
  /\ Reply(c, "timeout")
  /\ UNCHANGED <<hasAudit, events, faults>>

\* wait_for cancels a coroutine, and a job that no thread has taken yet; the
\* branch for TimeoutError writes no audit event.  The timer may also beat the
\* news that the thread is done, and the tool may raise a TimeoutError itself.
TimesOut(c) ==
  /\ Goto(c, "executing", "returned")
  /\ job[c] = "succeeded" => c \in Threaded
  /\ job' = [job EXCEPT ![c] =
               IF @ \in {"queued", "running"} /\ c \notin BusyWorkers
                 THEN "cancelled"
                 ELSE @]
  /\ Record(c, FALSE)
  /\ Reply(c, "timeout")
  /\ UNCHANGED <<hasAudit, events, faults>>

-----------------------------------------------------------------------------
(* The audit backend.                                                      *)

Write(c, type) == events' = [events EXCEPT ![c][type] = @ + 1]

Audited(c) ==
  /\ Goto(c, "auditing", "returned")
  /\ Write(c, "tool_call")
  /\ Reply(c, "result")
  /\ UNCHANGED <<hasAudit, job, entries, recorded, faults>>

\* Wrong on purpose: the record of a success is left as it is.
AuditRaisesUnrecorded(c) ==
  /\ Goto(c, "auditing", "auditingError")
  /\ faults' = [faults EXCEPT ![c] = @ + 1]
  /\ UNCHANGED <<hasAudit, job, entries, recorded, events, reply>>

\* audit.write() is inside the try of the tool: its exception is taken for
\* one of the tool, after the success has been recorded.
AuditRaises(c) ==
  /\ Goto(c, "auditing", "auditingError")
  /\ faults' = [faults EXCEPT ![c] = @ + 1]
  /\ Record(c, FALSE)
  /\ UNCHANGED <<hasAudit, job, events, reply>>

\* ... and a TimeoutError of the backend for a timeout of the tool.
AuditTimesOut(c) ==
  /\ Goto(c, "auditing", "returned")
  /\ faults' = [faults EXCEPT ![c] = @ + 1]
  /\ Record(c, FALSE)
  /\ Reply(c, "timeout")
  /\ UNCHANGED <<hasAudit, job, events>>

ErrorAudited(c) ==
  /\ Goto(c, "auditingError", "returned")
  /\ Write(c, "tool_error")
  /\ Reply(c, "error")
  /\ UNCHANGED <<hasAudit, job, entries, recorded, faults>>

\* Here nothing catches it: run() itself raises.
ErrorAuditRaises(c) ==
  /\ Goto(c, "auditingError", "raised")
  /\ faults' = [faults EXCEPT ![c] = @ + 1]
  /\ UNCHANGED <<hasAudit, job, entries, recorded, events, reply>>

-----------------------------------------------------------------------------
Ended == {"returned", "raised"}

AllEnded == (\A c \in Call : pc[c] \in Ended) /\ UNCHANGED runnerVars

RunnerStep(c) ==
  \/ Succeeded(c) \/ Failed(c) \/ TimesOut(c)
  \/ Audited(c) \/ AuditRaises(c) \/ AuditTimesOut(c)
  \/ ErrorAudited(c) \/ ErrorAuditRaises(c)

RunnerNext ==
  \/ \E c \in Call : Begin(c) \/ StartJob(c) \/ RunnerStep(c)
  \/ \E c \in Call, how \in {"succeeded", "failed"} : JobEnds(c, how)
  \/ AllEnded

RunnerSpec == RunnerInit /\ [][RunnerNext]_runnerVars

\* Timers fire and the audit backend answers.  A tool may hang for ever, and
\* so may the thread it is in.
FairRunnerSpec == RunnerSpec /\ \A c \in Call : WF_runnerVars(RunnerStep(c))

-----------------------------------------------------------------------------
(***************************************************************************)
(* What the history, the audit trail and the caller know of a call, when   *)
(* the tool, the timer and the audit backend fail in any order.  A call    *)
(* that returned is in the history, as a success if and only if the caller *)
(* got a result, which the tool did give; once, and once more for each     *)
(* audit write that raised, the exception being taken for one of the tool. *)
(* The trail has one event for a result and one for an error, of that      *)
(* type, and none for a timeout: the trail, unlike the history, is silent  *)
(* on calls that timed out.  A tool still at work is in a thread, and the  *)
(* caller was told of a timeout.  A call that raised is in the history as  *)
(* a failure, and not in the trail.                                        *)
(***************************************************************************)
RecordsAgreeWithReply ==
  \A c \in Call :
    /\ pc[c] = "returned" =>
         /\ entries[c] = 1 + faults[c]
         /\ recorded[c] <=> reply[c] = "result"
         /\ reply[c] = "result" => job[c] = "succeeded"
         /\ events[c]["tool_call"] = (IF hasAudit /\ reply[c] = "result" THEN 1 ELSE 0)
         /\ events[c]["tool_error"] = (IF hasAudit /\ reply[c] = "error" THEN 1 ELSE 0)
         /\ job[c] \in {"queued", "running"} =>
              c \in Threaded /\ job[c] = "running" /\ reply[c] = "timeout"
    /\ pc[c] = "raised" =>
         /\ entries[c] = faults[c] /\ entries[c] > 0 /\ ~recorded[c]
         /\ events[c]["tool_call"] = 0 /\ events[c]["tool_error"] = 0

(***************************************************************************)
(* Every call comes back, even when hanging tools occupy every thread of   *)
(* the executor and the call's own tool never gets to run.                 *)
(***************************************************************************)
EveryCallEnds == \A c \in Call : pc[c] = "executing" ~> pc[c] \in Ended

-----------------------------------------------------------------------------
(* What the documentation says and the code does not do.                   *)

(***************************************************************************)
(* "Audit logging of every tool call": with an audit backend that works,   *)
(* every call that returned is in the trail.  Timed-out ones are not.      *)
(***************************************************************************)
EveryCallIsAudited ==
  \A c \in Call : hasAudit /\ faults[c] = 0 /\ pc[c] = "returned" =>
    events[c]["tool_call"] + events[c]["tool_error"] = 1
=============================================================================
