---------------------------- MODULE ExecutionProofs ----------------------------
(***************************************************************************)
(* The safety of what runs the code of others: the tool runner and the map *)
(* node, each on its own, for every set of calls, every number of executor *)
(* threads, every list, every max_concurrency and every number of retries. *)
(***************************************************************************)
EXTENDS ToolRunner, MapNode, FiniteSetTheorems, TLAPS

-----------------------------------------------------------------------------
(* ToolRunner.                                                             *)

Unaudited == [e \in EventType |-> 0]

\* What has been written about a call, by the place where run() is.
Untold(c) == events[c] = Unaudited /\ reply[c] = "none"

AtStart(c) ==
  pc[c] \in {"idle", "executing"} => entries[c] = 0 /\ faults[c] = 0 /\ Untold(c)

AtAudit(c) ==
  pc[c] = "auditing" =>
    /\ hasAudit /\ job[c] = "succeeded"
    /\ entries[c] = 1 /\ recorded[c] = TRUE /\ faults[c] = 0 /\ Untold(c)

\* A second entry is there only because an audit write raised.
AtErrorAudit(c) ==
  pc[c] = "auditingError" =>
    /\ hasAudit /\ recorded[c] = FALSE /\ Untold(c) /\ job[c] \in {"succeeded", "failed"}
    /\ entries[c] \in {1, 2} /\ faults[c] = entries[c] - 1

AtReturn(c) ==
  pc[c] = "returned" =>
    /\ entries[c] = 1 + faults[c]
    /\ recorded[c] <=> reply[c] = "result"
    /\ reply[c] = "result" => job[c] = "succeeded"
    /\ events[c]["tool_call"] = (IF hasAudit /\ reply[c] = "result" THEN 1 ELSE 0)
    /\ events[c]["tool_error"] = (IF hasAudit /\ reply[c] = "error" THEN 1 ELSE 0)
    /\ job[c] \in {"queued", "running"} =>
         c \in Threaded /\ job[c] = "running" /\ reply[c] = "timeout"

AtRaise(c) ==
  pc[c] = "raised" =>
    /\ entries[c] = faults[c] /\ entries[c] > 0 /\ recorded[c] = FALSE
    /\ events[c]["tool_call"] = 0 /\ events[c]["tool_error"] = 0

CallInv(c) == AtStart(c) /\ AtAudit(c) /\ AtErrorAudit(c) /\ AtReturn(c) /\ AtRaise(c)

RunnerInv == RunnerTypeOK /\ \A c \in Call : CallInv(c)

LEMMA InitRunnerInv == RunnerInit => RunnerInv
BY DEF RunnerInit, RunnerInv, RunnerTypeOK, CallInv, AtStart, AtAudit, AtErrorAudit, AtReturn, AtRaise, Untold,
       Unaudited, Pc, Job, EventType

\* A step of run() for c leaves the books of every other call alone.
LEMMA OthersUntouched ==
  ASSUME RunnerInv, NEW c \in Call, RunnerStep(c) \/ Begin(c)
  PROVE  /\ hasAudit' = hasAudit
         /\ \A d \in Call \ {c} :
              /\ pc'[d] = pc[d] /\ job'[d] = job[d] /\ entries'[d] = entries[d]
              /\ recorded'[d] = recorded[d] /\ events'[d] = events[d]
              /\ reply'[d] = reply[d] /\ faults'[d] = faults[d]
BY DEF RunnerInv, RunnerTypeOK, RunnerStep, Begin, Goto, Record, Reply, Write, Succeeded, Failed,
       TimesOut, Audited, AuditRaises, AuditTimesOut, ErrorAudited, ErrorAuditRaises

LEMMA StepKeepsOwn ==
  ASSUME RunnerInv, NEW c \in Call, RunnerStep(c) \/ Begin(c)
  PROVE  RunnerTypeOK' /\ CallInv(c)'
<1> USE DEF RunnerInv, RunnerTypeOK, CallInv, AtStart, AtAudit, AtErrorAudit, AtReturn, AtRaise, Untold,
            Unaudited, Pc, Job, EventType, Goto, Record, Reply, Write
<1>1. CASE Begin(c)
  BY <1>1 DEF Begin
<1>b. pc[c] = "executing" =>
        /\ entries' = [entries EXCEPT ![c] = entries[c] + 1] /\ faults' = faults =>
             entries'[c] = 1 /\ faults'[c] = 0 /\ entries'[c] = 1 + faults'[c]
        /\ events[c]["tool_call"] = 0 /\ events[c]["tool_error"] = 0
  OBVIOUS
<1>2. CASE Succeeded(c)
  <2>1. /\ pc[c] = "executing" /\ faults' = faults /\ events' = events
        /\ entries' = [entries EXCEPT ![c] = entries[c] + 1]
    BY <1>2 DEF Succeeded
  <2>2. entries'[c] = 1 /\ faults'[c] = 0 /\ entries'[c] = 1 + faults'[c]
    BY <1>b, <2>1
  <2>3. /\ recorded' = [recorded EXCEPT ![c] = TRUE] /\ job' = job /\ hasAudit' = hasAudit
        /\ job[c] = "succeeded"
        /\ \/ /\ hasAudit /\ reply' = reply /\ pc' = [pc EXCEPT ![c] = "auditing"]
           \/ /\ ~hasAudit /\ reply' = [reply EXCEPT ![c] = "result"] /\ pc' = [pc EXCEPT ![c] = "returned"]
    BY <1>2 DEF Succeeded
  <2>4. RunnerTypeOK'
    BY <2>1, <2>2, <2>3
  <2>5. CASE hasAudit
    BY <1>b, <2>1, <2>2, <2>3, <2>4, <2>5
  <2>6. CASE ~hasAudit
    BY <1>b, <2>1, <2>2, <2>3, <2>4, <2>6
  <2>. QED  BY <2>5, <2>6
<1>3. CASE Failed(c)
  <2>1. /\ pc[c] = "executing" /\ faults' = faults /\ events' = events
        /\ entries' = [entries EXCEPT ![c] = entries[c] + 1]
    BY <1>3 DEF Failed
  <2>2. entries'[c] = 1 /\ faults'[c] = 0 /\ entries'[c] = 1 + faults'[c]
    BY <1>b, <2>1
  <2>3. /\ recorded' = [recorded EXCEPT ![c] = FALSE] /\ job' = job /\ hasAudit' = hasAudit
        /\ job[c] = "failed"
        /\ \/ /\ hasAudit /\ reply' = reply /\ pc' = [pc EXCEPT ![c] = "auditingError"]
           \/ /\ ~hasAudit /\ reply' = [reply EXCEPT ![c] = "error"] /\ pc' = [pc EXCEPT ![c] = "returned"]
    BY <1>3 DEF Failed
  <2>4. RunnerTypeOK'
    BY <2>1, <2>2, <2>3
  <2>5. CASE hasAudit
    BY <1>b, <2>1, <2>2, <2>3, <2>4, <2>5
  <2>6. CASE ~hasAudit
    BY <1>b, <2>1, <2>2, <2>3, <2>4, <2>6
  <2>. QED  BY <2>5, <2>6
<1>4. CASE TimesOut(c)
  <2>1. /\ pc[c] = "executing" /\ faults' = faults /\ events' = events
        /\ entries' = [entries EXCEPT ![c] = entries[c] + 1]
    BY <1>4 DEF TimesOut
  <2>2. entries'[c] = 1 /\ faults'[c] = 0 /\ entries'[c] = 1 + faults'[c]
    BY <1>b, <2>1
  <2>3. job'[c] \in {"queued", "running"} => c \in Threaded /\ job'[c] = "running"
    BY <1>4 DEF TimesOut, BusyWorkers
  <2>. QED  BY <1>4, <1>b, <2>1, <2>2, <2>3 DEF TimesOut
<1>5. CASE Audited(c)
  BY <1>5 DEF Audited
<1>6. CASE AuditRaises(c)
  BY <1>6 DEF AuditRaises
<1>7. CASE AuditTimesOut(c)
  BY <1>7 DEF AuditTimesOut
<1>8. CASE ErrorAudited(c)
  BY <1>8 DEF ErrorAudited
<1>9. CASE ErrorAuditRaises(c)
  BY <1>9 DEF ErrorAuditRaises
<1>. QED
  BY <1>1, <1>2, <1>3, <1>4, <1>5, <1>6, <1>7, <1>8, <1>9 DEF RunnerStep

\* The tool's own code only starts and ends; what has succeeded stays so.
LEMMA JobKeeps ==
  ASSUME RunnerInv, NEW c \in Call,
         StartJob(c) \/ \E how \in {"succeeded", "failed"} : JobEnds(c, how)
  PROVE  RunnerInv'
<1>1. /\ job' \in [Call -> Job]
      /\ \A d \in Call : job[d] \in {"succeeded", "failed"} => job'[d] = job[d]
      /\ \A d \in Call : job'[d] \in {"queued", "running"} =>
           job[d] \in {"queued", "running"} /\ (job[d] = "running" => job'[d] = "running")
  BY DEF RunnerInv, RunnerTypeOK, StartJob, JobEnds, Job
<1>2. UNCHANGED <<hasAudit, pc, entries, recorded, events, reply, faults>>
  BY DEF StartJob, JobEnds
<1>. QED
  BY <1>1, <1>2 DEF RunnerInv, RunnerTypeOK, CallInv, AtStart, AtAudit, AtErrorAudit, AtReturn, AtRaise, Untold

LEMMA NextRunnerInv == RunnerInv /\ [RunnerNext]_runnerVars => RunnerInv'
<1> SUFFICES ASSUME RunnerInv, [RunnerNext]_runnerVars PROVE RunnerInv'
  OBVIOUS
<1>1. ASSUME NEW c \in Call, RunnerStep(c) \/ Begin(c) PROVE RunnerInv'
  <2>1. RunnerTypeOK' /\ CallInv(c)'
    BY <1>1, StepKeepsOwn
  <2>2. ASSUME NEW d \in Call, d # c PROVE CallInv(d)'
    <3>1. CallInv(d)
      BY DEF RunnerInv
    <3>2. /\ hasAudit' = hasAudit /\ pc'[d] = pc[d] /\ job'[d] = job[d]
          /\ entries'[d] = entries[d] /\ recorded'[d] = recorded[d]
          /\ events'[d] = events[d] /\ reply'[d] = reply[d] /\ faults'[d] = faults[d]
      BY <1>1, <2>2, OthersUntouched
    <3>. QED
      BY <3>1, <3>2 DEF CallInv, AtStart, AtAudit, AtErrorAudit, AtReturn, AtRaise, Untold
  <2>. QED  BY <2>1, <2>2 DEF RunnerInv
<1>2. ASSUME NEW c \in Call,
             StartJob(c) \/ \E how \in {"succeeded", "failed"} : JobEnds(c, how)
      PROVE RunnerInv'
  BY <1>2, JobKeeps
<1>3. CASE UNCHANGED runnerVars
  BY <1>3 DEF runnerVars, RunnerInv, RunnerTypeOK, CallInv, AtStart, AtAudit, AtErrorAudit, AtReturn, AtRaise, Untold
<1>. QED  BY <1>1, <1>2, <1>3 DEF RunnerNext, AllEnded

\* What the history and the audit trail hold of a call follows from what its
\* caller was told and from the audit writes that raised: no event for a timeout,
\* one of its type for a result or an error, a history entry for every outcome.
\* Whatever the tool, its thread, the timer and the audit backend do.
THEOREM RecordsAgree == RunnerSpec => []RecordsAgreeWithReply
<1>1. RunnerInv => RecordsAgreeWithReply
  BY DEF RunnerInv, CallInv, AtReturn, AtRaise, RecordsAgreeWithReply
<1>. QED  BY <1>1, InitRunnerInv, NextRunnerInv, PTL DEF RunnerSpec

\* Every variable keeps its type: no call is put on record more than twice, none
\* audited twice as the same.
THEOREM RunnerTypeCorrect == RunnerSpec => []RunnerTypeOK
<1>1. RunnerInv => RunnerTypeOK
  BY DEF RunnerInv
<1>. QED  BY <1>1, InitRunnerInv, NextRunnerInv, PTL DEF RunnerSpec

-----------------------------------------------------------------------------
(* MapNode.  An attempt that has not begun is idle and unbroken; the       *)
(* executor begins one only as long as it may.                             *)

ExecutorInv ==
  /\ \A a \in Attempt : a > attempt => a \notin broken /\ \A i \in Index : item[a][i] = "idle"
  /\ node \in {"ready", "sleeping"} => attempt <= MaxRetries /\ outcome = None
  /\ node = "gathering" => attempt \in Attempt /\ isList /\ outcome = None

\* What an item may do in a step, and what its attempt knows of it.
LEMMA ItemStep ==
  ASSUME MapTypeOK, ExecutorInv, NEW a \in Attempt, NEW i \in Index, ProcessItem(a, i)
  PROVE  /\ UNCHANGED <<policy, isList, attempt, node, outcome>>
         /\ item[a][i] \in Open
         /\ \E s \in {"running"} \cup Result :
              /\ item' = [item EXCEPT ![a][i] = s]
              /\ s = "running" => item[a][i] = "waiting" /\ SlotFree(a)
              /\ broken' = IF s = "raised" THEN broken \cup {a} ELSE broken
         /\ a <= attempt
<1>1. item[a][i] \in Open
  BY DEF ProcessItem, StartItem, BodyReturns, BodyRaises, Open
<1>2. a <= attempt
  BY <1>1, MapAssumption DEF ExecutorInv, Open, MapTypeOK, Attempt
<1>3. CASE StartItem(a, i)
  BY <1>1, <1>2, <1>3 DEF StartItem, Result
<1>4. CASE BodyReturns(a, i)
  BY <1>1, <1>2, <1>4 DEF BodyReturns, Result
<1>5. CASE BodyRaises(a, i)
  BY <1>1, <1>2, <1>5 DEF BodyRaises, Result
<1>. QED  BY <1>3, <1>4, <1>5 DEF ProcessItem

\* What the executor may do in a step.
LEMMA ExecutorStep ==
  ASSUME MapTypeOK, ExecutorInv, Execute
  PROVE  /\ UNCHANGED <<policy, isList, broken>>
         /\ \/ /\ isList /\ node = "ready" /\ node' = "gathering"
               /\ attempt' = attempt + 1 /\ attempt' \in Attempt /\ UNCHANGED outcome
               /\ item' = [item EXCEPT ![attempt'] = [i \in Index |-> "waiting"]]
            \/ /\ node = "sleeping" /\ node' = "ready" /\ UNCHANGED <<attempt, outcome, item>>
            \/ /\ UNCHANGED item
               /\ \E result \in Result :
                    /\ Handle(attempt', result)
                    /\ \/ /\ result = "failed" /\ ~isList
                          /\ node = "ready" /\ attempt' = attempt + 1
                       \/ /\ node = "gathering" /\ attempt' = attempt
                          /\ attempt \notin broken /\ GatherOver(attempt)
                          /\ result # "raised"
                          /\ result = "failed" <=> \E i \in Index : item[attempt][i] = "failed"
                       \/ /\ node = "gathering" /\ attempt' = attempt
                          /\ attempt \in broken /\ result = "raised"
<1>1. CASE StartAttempt
  BY <1>1, MapAssumption DEF StartAttempt, MapTypeOK, ExecutorInv, Attempt
<1>2. CASE NotAList
  BY <1>2 DEF NotAList, Result
<1>3. CASE Wake
  BY <1>3 DEF Wake
<1>4. CASE GatherReturns
  BY <1>4 DEF GatherReturns, Result
<1>5. CASE GatherRaises
  BY <1>5 DEF GatherRaises, Result
<1>. QED  BY <1>1, <1>2, <1>3, <1>4, <1>5 DEF Execute

LEMMA HandleType ==
  ASSUME NEW n, NEW result, Handle(n, result), MapTypeOK
  PROVE  /\ node' \in {"over", "sleeping"}
         /\ outcome' \in {None, "DONE", "SKIPPED", "FAILED"}
         /\ node' = "sleeping" => n <= MaxRetries /\ outcome' = outcome /\ result # "ok"
         /\ outcome' = "DONE" /\ node' = "over" => result = "ok" \/ policy = "FALLBACK"
         /\ outcome' \in {"SKIPPED", "FAILED"} /\ node' = "over" => result # "ok"
BY DEF Handle, MayRetry, MapTypeOK

LEMMA NextType ==
  MapTypeOK /\ ExecutorInv /\ [MapNext]_mapVars => MapTypeOK' /\ ExecutorInv'
<1> SUFFICES ASSUME MapTypeOK, ExecutorInv, [MapNext]_mapVars PROVE MapTypeOK' /\ ExecutorInv'
  OBVIOUS
<1>1. CASE Execute
  <2>0. UNCHANGED <<policy, isList, broken>>
    BY <1>1, ExecutorStep
  <2>1. CASE /\ isList /\ node = "ready" /\ node' = "gathering"
             /\ attempt' = attempt + 1 /\ attempt' \in Attempt /\ UNCHANGED outcome
             /\ item' = [item EXCEPT ![attempt'] = [i \in Index |-> "waiting"]]
    <3>1. item' \in [Attempt -> [Index -> {"idle"} \cup Open \cup Result]]
      BY <2>1 DEF MapTypeOK, Open
    <3>2. MapTypeOK'
      BY <2>1, <2>0, <3>1, MapAssumption DEF MapTypeOK, Attempt
    <3>3. \A a \in Attempt : a > attempt' => a > attempt /\ item'[a] = item[a]
      BY <2>1, MapAssumption DEF MapTypeOK, Attempt
    <3>. QED  BY <2>1, <2>0, <3>2, <3>3 DEF ExecutorInv
  <2>2. CASE node = "sleeping" /\ node' = "ready" /\ UNCHANGED <<attempt, outcome, item>>
    BY <1>1, <2>2, ExecutorStep DEF MapTypeOK, ExecutorInv
  <2>3. ASSUME NEW result \in Result, Handle(attempt', result), UNCHANGED item,
               \/ node = "ready" /\ attempt' = attempt + 1
               \/ node = "gathering" /\ attempt' = attempt
        PROVE  MapTypeOK' /\ ExecutorInv'
    <3>1. /\ node' \in {"over", "sleeping"}
          /\ outcome' \in {None, "DONE", "SKIPPED", "FAILED"}
          /\ node' = "sleeping" => attempt' <= MaxRetries /\ outcome' = outcome
      BY <2>3, HandleType
    <3>2. attempt' \in 0..(MaxRetries + 1) /\ attempt <= attempt' /\ attempt \in Nat
      BY <2>3, MapAssumption DEF MapTypeOK, ExecutorInv
    <3>3. MapTypeOK'
      BY <2>0, <2>3, <3>1, <3>2 DEF MapTypeOK
    <3>4. \A a \in Attempt : a > attempt' => a > attempt
      BY <3>2, MapAssumption DEF Attempt
    <3>5. node' = "sleeping" => outcome' = None
      BY <2>3, <3>1 DEF ExecutorInv
    <3>. QED  BY <2>0, <2>3, <3>1, <3>3, <3>4, <3>5 DEF ExecutorInv
  <2>. QED  BY <1>1, <2>1, <2>2, <2>3, ExecutorStep
<1>2. ASSUME NEW a \in Attempt, NEW i \in Index, ProcessItem(a, i)
      PROVE  MapTypeOK' /\ ExecutorInv'
  <2>1. PICK s \in {"running"} \cup Result :
          /\ item' = [item EXCEPT ![a][i] = s]
          /\ broken' = IF s = "raised" THEN broken \cup {a} ELSE broken
    BY <1>2, ItemStep
  <2>2. UNCHANGED <<policy, isList, attempt, node, outcome>> /\ a <= attempt
    BY <1>2, ItemStep
  <2>3. MapTypeOK'
    BY <2>1, <2>2 DEF MapTypeOK, Open
  <2>. QED  BY <2>1, <2>2, <2>3, MapAssumption DEF MapTypeOK, ExecutorInv, Attempt
<1>3. CASE UNCHANGED mapVars
  BY <1>3 DEF mapVars, MapTypeOK, ExecutorInv
<1>. QED  BY <1>1, <1>2, <1>3 DEF MapNext, Finished

LEMMA TypeInvariant == MapSpec => [](MapTypeOK /\ ExecutorInv)
<1>1. MapInit => MapTypeOK /\ ExecutorInv
  BY MapAssumption DEF MapInit, MapTypeOK, ExecutorInv, Attempt
<1>. QED  BY <1>1, NextType, PTL DEF MapSpec

(***************************************************************************)
(* The executor's counter never passes its limit, and every variable keeps *)
(* its type.                                                               *)
(***************************************************************************)
THEOREM MapTypeCorrect == MapSpec => []MapTypeOK
BY TypeInvariant, PTL

-----------------------------------------------------------------------------
(* Slots: an item starts only while its attempt has a free one.            *)

RunningItems(a) == {i \in Index : item[a][i] = "running"}

LEMMA NextSlotsHold ==
  MapTypeOK /\ ExecutorInv /\ SlotsHold /\ [MapNext]_mapVars => SlotsHold'
<1> SUFFICES ASSUME MapTypeOK, ExecutorInv, SlotsHold, [MapNext]_mapVars, NEW b \in Attempt
             PROVE  Cardinality(RunningItems(b)') <= Limit
  BY DEF SlotsHold, RunningItems
<1>f. IsFiniteSet(Index)
  BY FS_Interval, MapAssumption DEF Index
<1>0. /\ IsFiniteSet(RunningItems(b)) /\ Cardinality(RunningItems(b)) \in Nat
      /\ Cardinality(RunningItems(b)) <= Limit
  <2>1. RunningItems(b) \in SUBSET Index
    BY DEF RunningItems
  <2>. QED  BY <1>f, <2>1, FS_Subset, FS_CardinalityType DEF SlotsHold, RunningItems
<1>1. CASE RunningItems(b)' \in SUBSET RunningItems(b)
  <2>1. Cardinality(RunningItems(b)') <= Cardinality(RunningItems(b))
    BY <1>0, <1>1, FS_Subset
  <2>2. Cardinality(RunningItems(b)') \in Nat
    BY <1>0, <1>1, FS_Subset, FS_CardinalityType
  <2>. QED  BY <1>0, <2>1, <2>2, MapAssumption
<1>2. CASE Execute
  <2>1. RunningItems(b)' \in SUBSET RunningItems(b)
    BY <1>2, ExecutorStep DEF RunningItems, MapTypeOK
  <2>. QED  BY <1>1, <2>1
<1>3. ASSUME NEW a \in Attempt, NEW i \in Index, ProcessItem(a, i)
      PROVE  Cardinality(RunningItems(b)') <= Limit
  <2>1. PICK s \in {"running"} \cup Result :
          /\ item' = [item EXCEPT ![a][i] = s]
          /\ s = "running" => SlotFree(a)
    BY <1>3, ItemStep
  <2>2. CASE s = "running" /\ a = b
    <3>1. RunningItems(b)' = RunningItems(b) \cup {i}
      BY <2>1, <2>2 DEF RunningItems, MapTypeOK
    <3>2. Cardinality(RunningItems(b)) < Limit
      BY <2>1, <2>2 DEF SlotFree, HoldsSlot, RunningItems
    <3>3. \/ Cardinality(RunningItems(b) \cup {i}) = Cardinality(RunningItems(b)) + 1
          \/ Cardinality(RunningItems(b) \cup {i}) = Cardinality(RunningItems(b))
      BY <1>0, FS_AddElement
    <3>. QED  BY <1>0, <3>1, <3>2, <3>3, MapAssumption
  <2>3. CASE ~(s = "running" /\ a = b)
    <3>1. RunningItems(b)' \in SUBSET RunningItems(b)
      BY <2>1, <2>3 DEF RunningItems, MapTypeOK
    <3>. QED  BY <1>1, <3>1
  <2>. QED  BY <2>2, <2>3
<1>4. CASE UNCHANGED mapVars
  <2>1. RunningItems(b)' \in SUBSET RunningItems(b)
    BY <1>4 DEF mapVars, RunningItems
  <2>. QED  BY <1>1, <2>1
<1>. QED  BY <1>2, <1>3, <1>4 DEF MapNext, Finished

(***************************************************************************)
(* Whatever raises and is retried, no attempt runs more bodies at a time   *)
(* than max_concurrency.                                                   *)
(***************************************************************************)
THEOREM LimitIsKept == MapSpec => []SlotsHold
<1>1. MapInit => SlotsHold
  <2> SUFFICES ASSUME MapInit, NEW a \in Attempt PROVE Cardinality(RunningItems(a)) <= Limit
    BY DEF SlotsHold, RunningItems
  <2>1. RunningItems(a) = {}
    BY DEF MapInit, RunningItems
  <2>2. Cardinality(RunningItems(a)) = 0
    BY <2>1, FS_EmptySet, Zenon
  <2>. QED  BY <2>2, MapAssumption
<1>. QED  BY <1>1, NextSlotsHold, TypeInvariant, PTL DEF MapSpec

-----------------------------------------------------------------------------
(* Orphans.  gather() returns only when all items have a result.           *)

LEMMA NextOrphans ==
  MapTypeOK /\ ExecutorInv /\ OnlyOrphansOutlive /\ [MapNext]_mapVars => OnlyOrphansOutlive'
<1> SUFFICES ASSUME MapTypeOK, ExecutorInv, OnlyOrphansOutlive, [MapNext]_mapVars,
                    NEW b \in Attempt, NEW j \in Index, item'[b][j] \in Open
             PROVE  (b = attempt' /\ node' = "gathering") \/ b \in broken'
  BY DEF OnlyOrphansOutlive
<1>1. CASE Execute
  <2>0. broken' = broken
    BY <1>1, ExecutorStep
  <2>1. CASE item' = item
    <3>1. (b = attempt /\ node = "gathering") \/ b \in broken
      BY <2>1 DEF OnlyOrphansOutlive
    <3>2. CASE b = attempt /\ node = "gathering"
      <4>1. attempt \in broken \/ GatherOver(attempt)
        BY <1>1, <3>2, ExecutorStep
      <4>. QED  BY <2>0, <2>1, <3>2, <4>1 DEF GatherOver, Open, Result
    <3>. QED  BY <2>0, <3>1, <3>2
  <2>2. CASE /\ node = "ready" /\ node' = "gathering"
             /\ attempt' \in Attempt
             /\ item' = [item EXCEPT ![attempt'] = [i \in Index |-> "waiting"]]
    <3>1. b # attempt' => item'[b] = item[b]
      BY <2>2 DEF MapTypeOK
    <3>. QED  BY <2>0, <2>2, <3>1 DEF OnlyOrphansOutlive
  <2>. QED  BY <1>1, <2>1, <2>2, ExecutorStep
<1>2. ASSUME NEW a \in Attempt, NEW i \in Index, ProcessItem(a, i)
      PROVE  (b = attempt' /\ node' = "gathering") \/ b \in broken'
  <2>1. PICK s \in {"running"} \cup Result :
          /\ item' = [item EXCEPT ![a][i] = s]
          /\ broken' = IF s = "raised" THEN broken \cup {a} ELSE broken
    BY <1>2, ItemStep
  <2>2. UNCHANGED <<attempt, node>> /\ item[a][i] \in Open
    BY <1>2, ItemStep
  <2>3. \E k \in Index : item[b][k] \in Open
    BY <2>1, <2>2 DEF MapTypeOK
  <2>. QED  BY <2>1, <2>2, <2>3 DEF OnlyOrphansOutlive
<1>3. CASE UNCHANGED mapVars
  BY <1>3 DEF mapVars, OnlyOrphansOutlive
<1>. QED  BY <1>1, <1>2, <1>3 DEF MapNext, Finished

(***************************************************************************)
(* Nothing of an attempt runs on after it returned; only after it raised.  *)
(***************************************************************************)
THEOREM OrphansAreOfExceptions == MapSpec => []OnlyOrphansOutlive
<1>1. MapInit => OnlyOrphansOutlive
  BY DEF MapInit, OnlyOrphansOutlive, Open
<1>. QED  BY <1>1, NextOrphans, TypeInvariant, PTL DEF MapSpec

-----------------------------------------------------------------------------
(* Outcomes.  An item that has a result keeps it, so a failed attempt      *)
(* stays a failed one although its orphans go on.                          *)

FailedAttempt(a) == ~isList \/ \E i \in Index : item[a][i] \in {"failed", "raised"}

GivenUp(a) ==
  \/ a < attempt
  \/ a = attempt /\ (node \in {"ready", "sleeping"} \/ outcome \in {"SKIPPED", "FAILED"})

BrokenInv ==
  /\ \A a \in broken : \E i \in Index : item[a][i] = "raised"
  /\ \A a \in Attempt, i \in Index : item[a][i] = "raised" => a \in broken

OutcomeInv ==
  /\ outcome # None => node = "over" /\ attempt \in Attempt
  /\ \A a \in Attempt : GivenUp(a) => FailedAttempt(a)
  /\ outcome = "DONE" /\ policy # "FALLBACK" =>
       isList /\ \A i \in Index : item[attempt][i] = "ok"

LEMMA NextBrokenInv ==
  MapTypeOK /\ ExecutorInv /\ BrokenInv /\ [MapNext]_mapVars => BrokenInv'
<1> SUFFICES ASSUME MapTypeOK, ExecutorInv, BrokenInv, [MapNext]_mapVars PROVE BrokenInv'
  OBVIOUS
<1>1. CASE Execute
  <2>0. broken' = broken
    BY <1>1, ExecutorStep
  <2>1. CASE item' = item
    BY <2>0, <2>1 DEF BrokenInv
  <2>2. CASE /\ attempt' = attempt + 1 /\ attempt' \in Attempt
             /\ item' = [item EXCEPT ![attempt'] = [i \in Index |-> "waiting"]]
    <3>1. attempt' \notin broken /\ \A a \in Attempt \ {attempt'} : item'[a] = item[a]
      BY <2>2, MapAssumption DEF MapTypeOK, ExecutorInv
    <3>2. \A i \in Index : item'[attempt'][i] = "waiting"
      BY <2>2 DEF MapTypeOK
    <3>3. \A a \in broken : a \in Attempt \ {attempt'}
      BY <3>1 DEF MapTypeOK
    <3>. QED  BY <2>0, <3>1, <3>2, <3>3 DEF BrokenInv
  <2>. QED  BY <1>1, <2>1, <2>2, ExecutorStep
<1>2. ASSUME NEW a \in Attempt, NEW i \in Index, ProcessItem(a, i) PROVE BrokenInv'
  <2>1. PICK s \in {"running"} \cup Result :
          /\ item' = [item EXCEPT ![a][i] = s]
          /\ broken' = IF s = "raised" THEN broken \cup {a} ELSE broken
    BY <1>2, ItemStep
  <2>2. item[a][i] \in Open
    BY <1>2, ItemStep
  <2>. QED  BY <2>1, <2>2 DEF BrokenInv, MapTypeOK, Open
<1>3. CASE UNCHANGED mapVars
  BY <1>3 DEF mapVars, BrokenInv
<1>. QED  BY <1>1, <1>2, <1>3 DEF MapNext, Finished

LEMMA NextOutcomeInv ==
  MapTypeOK /\ ExecutorInv /\ BrokenInv /\ OutcomeInv /\ [MapNext]_mapVars => OutcomeInv'
<1> SUFFICES ASSUME MapTypeOK, ExecutorInv, BrokenInv, OutcomeInv, [MapNext]_mapVars PROVE OutcomeInv'
  OBVIOUS
<1>a. attempt \in Nat
  BY DEF MapTypeOK
<1>1. CASE Execute
  <2>0. UNCHANGED <<policy, isList, broken>>
    BY <1>1, ExecutorStep
  <2>1. CASE /\ node = "ready" /\ node' = "gathering"
             /\ attempt' = attempt + 1 /\ attempt' \in Attempt /\ UNCHANGED outcome
             /\ item' = [item EXCEPT ![attempt'] = [i \in Index |-> "waiting"]]
    <3>1. outcome = None
      BY <2>1 DEF ExecutorInv
    <3>2. ASSUME NEW a \in Attempt, GivenUp(a)' PROVE FailedAttempt(a)'
      <4>1. a <= attempt /\ a # attempt'
        BY <1>a, <2>1, <3>1, <3>2, MapAssumption DEF GivenUp, Attempt
      <4>2. GivenUp(a) /\ item'[a] = item[a]
        BY <1>a, <2>1, <4>1 DEF GivenUp, MapTypeOK, Attempt
      <4>. QED  BY <2>0, <4>2 DEF OutcomeInv, FailedAttempt
    <3>. QED  BY <2>1, <3>1, <3>2, MapAssumption DEF OutcomeInv
  <2>2. CASE node = "sleeping" /\ node' = "ready" /\ UNCHANGED <<attempt, outcome, item>>
    BY <2>0, <2>2 DEF OutcomeInv, GivenUp, FailedAttempt
  <2>3. ASSUME NEW result \in Result, Handle(attempt', result), UNCHANGED item,
               \/ /\ result = "failed" /\ ~isList
                  /\ node = "ready" /\ attempt' = attempt + 1
               \/ /\ node = "gathering" /\ attempt' = attempt
                  /\ attempt \notin broken /\ GatherOver(attempt)
                  /\ result # "raised"
                  /\ result = "failed" <=> \E i \in Index : item[attempt][i] = "failed"
               \/ /\ node = "gathering" /\ attempt' = attempt
                  /\ attempt \in broken /\ result = "raised"
        PROVE  OutcomeInv'
    <3>1. outcome = None /\ attempt' \in Attempt
      BY <2>3, MapAssumption DEF ExecutorInv, MapTypeOK, Attempt
    <3>2. result # "ok" => FailedAttempt(attempt')
      BY <2>3, <3>1 DEF FailedAttempt, BrokenInv, Result
    <3>3. result = "ok" => isList /\ \A i \in Index : item[attempt'][i] = "ok"
      BY <2>3, <3>1 DEF ExecutorInv, GatherOver, Result, BrokenInv
    <3>4. ASSUME NEW a \in Attempt, GivenUp(a)' PROVE FailedAttempt(a)'
      <4>1. CASE a < attempt
        BY <2>0, <2>3, <4>1 DEF GivenUp, OutcomeInv, FailedAttempt
      <4>2. CASE a = attempt /\ attempt' = attempt + 1
        <5>1. GivenUp(a)
          BY <2>3, <4>2, <1>a DEF GivenUp
        <5>. QED  BY <2>0, <2>3, <5>1 DEF OutcomeInv, FailedAttempt
      <4>3. CASE a = attempt'
        <5>1. node' \in {"ready", "sleeping"} \/ outcome' \in {"SKIPPED", "FAILED"}
          BY <1>a, <2>3, <3>1, <3>4, <4>3, MapAssumption DEF GivenUp, Attempt
        <5>2. result # "ok"
          BY <2>3, <5>1 DEF Handle
        <5>. QED  BY <2>0, <2>3, <3>2, <4>3, <5>2 DEF FailedAttempt
      <4>. QED  BY <1>a, <2>3, <3>4, <4>1, <4>2, <4>3, MapAssumption DEF GivenUp, Attempt
    <3>5. outcome' # None => node' = "over"
      BY <2>3, <3>1 DEF Handle
    <3>6. outcome' = "DONE" /\ policy # "FALLBACK" => result = "ok"
      BY <2>3, <3>1, MapAssumption DEF Handle
    <3>. QED  BY <2>0, <2>3, <3>1, <3>3, <3>4, <3>5, <3>6 DEF OutcomeInv
  <2>. QED  BY <1>1, <2>1, <2>2, <2>3, ExecutorStep
<1>2. ASSUME NEW a \in Attempt, NEW i \in Index, ProcessItem(a, i) PROVE OutcomeInv'
  <2>1. PICK s \in {"running"} \cup Result : item' = [item EXCEPT ![a][i] = s]
    BY <1>2, ItemStep
  <2>2. UNCHANGED <<policy, isList, attempt, node, outcome>> /\ item[a][i] \in Open
    BY <1>2, ItemStep
  <2>3. \A b \in Attempt, j \in Index :
          item[b][j] \in {"ok", "failed", "raised"} => item'[b][j] = item[b][j]
    BY <2>1, <2>2 DEF MapTypeOK, Open
  <2>4. \A b \in Attempt : GivenUp(b)' => FailedAttempt(b)'
    BY <2>2, <2>3 DEF OutcomeInv, GivenUp, FailedAttempt
  <2>5. outcome = "DONE" => attempt \in Attempt
    BY MapAssumption DEF OutcomeInv
  <2>. QED  BY <2>2, <2>3, <2>4, <2>5 DEF OutcomeInv
<1>3. CASE UNCHANGED mapVars
  BY <1>3 DEF mapVars, OutcomeInv, GivenUp, FailedAttempt
<1>. QED  BY <1>1, <1>2, <1>3 DEF MapNext, Finished

(***************************************************************************)
(* For every list, limit and number of retries, the executor's verdict on  *)
(* a MapNode agrees with what became of the items.                         *)
(***************************************************************************)
THEOREM VerdictIsHonest == MapSpec => []OutcomeIsHonest
<1>1. MapInit => BrokenInv /\ OutcomeInv
  BY MapAssumption DEF MapInit, BrokenInv, OutcomeInv, GivenUp, Attempt
<1>2. MapTypeOK /\ OutcomeInv => OutcomeIsHonest
  <2> SUFFICES ASSUME MapTypeOK, OutcomeInv PROVE OutcomeIsHonest
    OBVIOUS
  <2>1. \A a \in Attempt : GivenUp(a) => ~(isList /\ \A i \in Index : item[a][i] = "ok")
    BY DEF OutcomeInv, FailedAttempt
  <2>2. \A a \in 1..attempt : a \in Attempt /\ (a < attempt \/ a = attempt)
    BY MapAssumption DEF MapTypeOK, Attempt
  <2>3. outcome \in {"SKIPPED", "FAILED"} => attempt \in Attempt /\ GivenUp(attempt)
    BY MapAssumption DEF OutcomeInv, GivenUp
  <2>4. \A a \in 1..attempt : a < attempt \/ node = "sleeping" => GivenUp(a)
    BY <2>2 DEF GivenUp
  <2>. QED  BY <2>1, <2>2, <2>3, <2>4 DEF OutcomeIsHonest, OutcomeInv
<1>. QED  BY <1>1, <1>2, NextBrokenInv, NextOutcomeInv, TypeInvariant, PTL DEF MapSpec
=============================================================================
