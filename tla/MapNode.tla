------------------------------- MODULE MapNode -------------------------------
(***************************************************************************)
(* A MapNode under NodeExecutor: the body is executed for every item of a  *)
(* list, at most Limit at a time, and the executor retries the whole node  *)
(* when it fails.  asyncio.gather without return_exceptions gives up at    *)
(* the first exception but cancels nothing: the other items of the attempt *)
(* go on, and those that wait for the semaphore still start, beside a      *)
(* retry or after the node is over.                                        *)
(***************************************************************************)
EXTENDS Naturals, FiniteSets

CONSTANTS
  Items,      \* len(items)
  Limit,      \* max_concurrency
  MaxRetries, \* GraphEdge.max_retries
  None        \* Python's None

ASSUME MapAssumption ==
  /\ Items \in Nat
  /\ Limit \in Nat \ {0}
  /\ MaxRetries \in Nat
  /\ None \notin {"DONE", "SKIPPED", "FAILED"}

Index   == 1..Items
Attempt == 1..(MaxRetries + 1)
Policy  == {"FAIL_FAST", "RETRY", "SKIP", "FALLBACK"}

VARIABLES
  policy,  \* the error policy of the node's edge (never changes)
  isList,  \* the input is a list (never changes)
  attempt, \* the executor's counter
  node,    \* where the executor is
  outcome, \* NodeExecution.state when it is over
  item,    \* item[a][i]: process_item(i) of attempt a
  broken   \* the attempts whose gather() has got an exception

mapVars == <<policy, isList, attempt, node, outcome, item, broken>>

Open   == {"waiting", "running"}
Result == {"ok", "failed", "raised"}

MapTypeOK ==
  /\ policy \in Policy
  /\ isList \in BOOLEAN
  /\ attempt \in 0..(MaxRetries + 1)
  /\ node \in {"ready", "gathering", "sleeping", "over"}
  /\ outcome \in {None, "DONE", "SKIPPED", "FAILED"}
  /\ item \in [Attempt -> [Index -> {"idle"} \cup Open \cup Result]]
  /\ broken \subseteq Attempt

MapInit ==
  /\ policy \in Policy
  /\ isList \in BOOLEAN
  /\ attempt = 0
  /\ node = "ready"
  /\ outcome = None
  /\ item = [a \in Attempt |-> [i \in Index |-> "idle"]]
  /\ broken = {}

-----------------------------------------------------------------------------
(* NodeExecutor.execute.                                                   *)

MayRetry(n) == policy = "RETRY" /\ n <= MaxRetries

\* The n-th attempt has ended: execute() returned success, returned failure
\* or raised.  FALLBACK takes a failure that is returned for DONE.
Handle(n, result) ==
  \/ /\ result = "ok"
     /\ node' = "over" /\ outcome' = "DONE"
  \/ /\ result # "ok" /\ MayRetry(n)
     /\ node' = "sleeping" /\ UNCHANGED outcome
  \/ /\ result # "ok" /\ ~MayRetry(n)
     /\ node' = "over"
     /\ outcome' = CASE policy = "SKIP"                             -> "SKIPPED"
                     [] policy = "FALLBACK" /\ result = "failed"    -> "DONE"
                     [] OTHER                                       -> "FAILED"

\* gather() makes a task of every process_item.
StartAttempt ==
  /\ node = "ready"
  /\ isList
  /\ attempt' = attempt + 1
  /\ item' = [item EXCEPT ![attempt + 1] = [i \in Index |-> "waiting"]]
  /\ node' = "gathering"
  /\ UNCHANGED <<policy, isList, outcome, broken>>

NotAList ==
  /\ node = "ready"
  /\ ~isList
  /\ attempt' = attempt + 1
  /\ Handle(attempt + 1, "failed")
  /\ UNCHANGED <<policy, isList, item, broken>>

Wake ==
  /\ node = "sleeping"
  /\ node' = "ready"
  /\ UNCHANGED <<policy, isList, attempt, outcome, item, broken>>

\* Wrong on purpose: only the items that run are waited for.
GatherOverWhenIdle(a) == \A i \in Index : item[a][i] # "running"

GatherOver(a) == \A i \in Index : item[a][i] \in Result

\* All items are over, none raised; the node failed if one of them did.
GatherReturns ==
  /\ node = "gathering"
  /\ attempt \notin broken
  /\ GatherOver(attempt)
  /\ Handle(attempt, IF \E i \in Index : item[attempt][i] = "failed" THEN "failed" ELSE "ok")
  /\ UNCHANGED <<policy, isList, attempt, item, broken>>

GatherRaises ==
  /\ node = "gathering"
  /\ attempt \in broken
  /\ Handle(attempt, "raised")
  /\ UNCHANGED <<policy, isList, attempt, item, broken>>

-----------------------------------------------------------------------------
(* process_item.                                                           *)

\* Wrong on purpose: the slot of an item that raised is never given back.
HoldsSlotFrom(s) == s \in {"running", "raised"}

HoldsSlot(s) == s = "running"

SlotFree(a) == Cardinality({i \in Index : HoldsSlot(item[a][i])}) < Limit

\* The semaphore belongs to the attempt, and wakes its waiters in order.
StartItem(a, i) ==
  /\ item[a][i] = "waiting"
  /\ \A j \in 1..(i - 1) : item[a][j] # "waiting"
  /\ SlotFree(a)
  /\ item' = [item EXCEPT ![a][i] = "running"]
  /\ UNCHANGED <<policy, isList, attempt, node, outcome, broken>>

BodyReturns(a, i) ==
  /\ item[a][i] = "running"
  /\ \E r \in {"ok", "failed"} : item' = [item EXCEPT ![a][i] = r]
  /\ UNCHANGED <<policy, isList, attempt, node, outcome, broken>>

\* Wrong on purpose: gather(return_exceptions=True), its result not looked at.
BodyRaisesUnseen(a, i) ==
  /\ item[a][i] = "running"
  /\ item' = [item EXCEPT ![a][i] = "raised"]
  /\ UNCHANGED <<policy, isList, attempt, node, outcome, broken>>

BodyRaises(a, i) ==
  /\ item[a][i] = "running"
  /\ item' = [item EXCEPT ![a][i] = "raised"]
  /\ broken' = broken \cup {a}
  /\ UNCHANGED <<policy, isList, attempt, node, outcome>>

-----------------------------------------------------------------------------
Execute == StartAttempt \/ NotAList \/ Wake \/ GatherReturns \/ GatherRaises

ProcessItem(a, i) == StartItem(a, i) \/ BodyReturns(a, i) \/ BodyRaises(a, i)

Quiet == \A a \in Attempt, i \in Index : item[a][i] \notin Open

Finished == node = "over" /\ Quiet /\ UNCHANGED mapVars

MapNext ==
  \/ Execute
  \/ \E a \in Attempt, i \in Index : ProcessItem(a, i)
  \/ Finished

MapSpec == MapInit /\ [][MapNext]_mapVars

\* The event loop runs every task that can go on; the body returns or raises.
FairMapSpec ==
  /\ MapSpec
  /\ WF_mapVars(Execute)
  /\ \A a \in Attempt, i \in Index : WF_mapVars(ProcessItem(a, i))

-----------------------------------------------------------------------------
(***************************************************************************)
(* What the executor records is what the items did.  DONE (but for the     *)
(* FALLBACK policy) means that every item of the last attempt, and not of  *)
(* an earlier one, was a success; SKIPPED and FAILED that one was not; and *)
(* an attempt is repeated only when it failed.                             *)
(***************************************************************************)
OutcomeIsHonest ==
  LET AllOk(a) == isList /\ \A i \in Index : item[a][i] = "ok" IN
  /\ outcome = "DONE" /\ policy # "FALLBACK" => AllOk(attempt)
  /\ outcome \in {"SKIPPED", "FAILED"} => ~AllOk(attempt)
  /\ \A a \in 1..attempt : a < attempt \/ node = "sleeping" => ~AllOk(a)

(***************************************************************************)
(* Items that still wait or run when their attempt is over are left-overs  *)
(* of an exception: an attempt that returned has nothing running.          *)
(***************************************************************************)
OnlyOrphansOutlive ==
  \A a \in Attempt : (\E i \in Index : item[a][i] \in Open) =>
    \/ a = attempt /\ node = "gathering"
    \/ a \in broken

(***************************************************************************)
(* Never more than max_concurrency bodies of an attempt run at a time, the *)
(* orphans included.                                                       *)
(***************************************************************************)
SlotsHold ==
  \A a \in Attempt : Cardinality({i \in Index : item[a][i] = "running"}) <= Limit

(***************************************************************************)
(* The node comes to its end, and so does every item that it ever started. *)
(***************************************************************************)
EverythingEnds == <>[](node = "over" /\ Quiet)
=============================================================================
