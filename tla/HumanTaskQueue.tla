--------------------------- MODULE HumanTaskQueue ---------------------------
(***************************************************************************)
(* InMemoryHumanTaskQueue: a work queue that several people share.  Each   *)
(* operation of the queue is atomic (its body never awaits), but a person  *)
(* polls, looks at the list for as long as he likes, and only then claims: *)
(* everything interesting happens between the operations.                  *)
(*                                                                         *)
(* The queue does not know its callers: release(), delegate() and          *)
(* complete() take no user and check no status.  The people modelled here  *)
(* keep the discipline that the operations' docstrings assume: a person    *)
(* gives up, hands over or completes only what he believes is his.         *)
(***************************************************************************)
EXTENDS Naturals, FiniteSets

CONSTANTS
  Task,         \* task ids, each emitted at most once (new_id() is fresh)
  User,
  Nobody,         \* the None of claimed_by, assigned_to and result
  Rank,         \* Rank[t]: 0 critical, 1 high, 2 medium, 3 low
  Limit,        \* the limit argument of poll()
  Serves,       \* Serves[u]: the tasks whose role is the one u polls for
  MaxHandovers, \* bound: releases and delegations by people
  MaxForgets    \* bound: people who forget what they were doing

ASSUME QueueAssumption ==
  /\ IsFiniteSet(Task)
  /\ Nobody \notin User
  /\ Rank \in [Task -> 0..3]
  /\ Limit \in Nat \ {0}
  /\ Serves \in [User -> SUBSET Task]
  /\ MaxHandovers \in Nat
  /\ MaxForgets \in Nat

VARIABLES
  emittedAt,   \* the order of _tasks; 0 for a task that is not in the queue
  status,      \* HumanTask.status
  claimedBy,   \* HumanTask.claimed_by
  assignedTo,  \* HumanTask.assigned_to
  answer,      \* HumanTask.result: whose result it is
  view,        \* view[u]: what u still has on screen of its last poll()
  working,     \* working[u]: the tasks u believes to be its own
  handovers,
  forgets

record == <<emittedAt, status, claimedBy, assignedTo, answer>>
people == <<view, working>>
bounds == <<handovers, forgets>>
queueVars == <<record, people, bounds>>

\* EXPIRED and CANCELLED are never assigned.
TaskStatus == {"PENDING", "CLAIMED", "COMPLETED"}

QueueTypeOK ==
  /\ emittedAt \in [Task -> Nat]
  /\ status \in [Task -> TaskStatus]
  /\ claimedBy \in [Task -> User \cup {Nobody}]
  /\ assignedTo \in [Task -> User \cup {Nobody}]
  /\ answer \in [Task -> User \cup {Nobody}]
  /\ view \in [User -> SUBSET Task]
  /\ working \in [User -> SUBSET Task]
  /\ handovers \in Nat
  /\ forgets \in Nat

QueueInit ==
  /\ emittedAt = [t \in Task |-> 0]
  /\ status = [t \in Task |-> "PENDING"]
  /\ claimedBy = [t \in Task |-> Nobody]
  /\ assignedTo = [t \in Task |-> Nobody]
  /\ answer = [t \in Task |-> Nobody]
  /\ view = [u \in User |-> {}]
  /\ working = [u \in User |-> {}]
  /\ handovers = 0
  /\ forgets = 0

-----------------------------------------------------------------------------
(* poll()                                                                  *)

Emitted == {t \in Task : emittedAt[t] > 0}

\* Priority order; the sort is stable, so equals stay in insertion order.
Sooner(s, t) ==
  \/ Rank[s] < Rank[t]
  \/ Rank[s] = Rank[t] /\ emittedAt[s] < emittedAt[t]

\* results[:limit], as a set: a person takes any task of the list.
UpToLimit(S) == {t \in S : Cardinality({s \in S : Sooner(s, t)}) < Limit}

\* Wrong on purpose: the default of poll(), no filter on the status.
ListingOfAll(u) == UpToLimit(Emitted \cap Serves[u])

Listing(u) == UpToLimit({t \in Emitted \cap Serves[u] : status[t] = "PENDING"})

Poll(u) ==
  /\ view[u] # Listing(u)
  /\ view' = [view EXCEPT ![u] = Listing(u)]
  /\ UNCHANGED <<record, working, bounds>>

-----------------------------------------------------------------------------
(* emit(), claim(), release(), delegate(), complete()                      *)

Emit(t) ==
  /\ t \notin Emitted
  /\ emittedAt' = [emittedAt EXCEPT ![t] = Cardinality(Emitted) + 1]
  /\ UNCHANGED <<status, claimedBy, assignedTo, answer, people, bounds>>

Looked(u, t) == view' = [view EXCEPT ![u] = @ \ {t}]

\* Wrong on purpose: no check at all.
ClaimAnything(u, t) ==
  /\ t \in view[u]
  /\ status' = [status EXCEPT ![t] = "CLAIMED"]
  /\ claimedBy' = [claimedBy EXCEPT ![t] = u]
  /\ working' = [working EXCEPT ![u] = @ \cup {t}]
  /\ Looked(u, t)
  /\ UNCHANGED <<emittedAt, assignedTo, answer, bounds>>

\* CLAIMED is the only status that claim() refuses.
Claim(u, t) ==
  /\ t \in view[u]
  /\ status[t] # "CLAIMED"
  /\ status' = [status EXCEPT ![t] = "CLAIMED"]
  /\ claimedBy' = [claimedBy EXCEPT ![t] = u]
  /\ working' = [working EXCEPT ![u] = @ \cup {t}]
  /\ Looked(u, t)
  /\ UNCHANGED <<emittedAt, assignedTo, answer, bounds>>

ClaimRefused(u, t) ==
  /\ t \in view[u]
  /\ status[t] = "CLAIMED"
  /\ Looked(u, t)
  /\ UNCHANGED <<record, working, bounds>>

\* release() itself; what it leaves alone includes assigned_to and result.
PutBack(t) ==
  /\ status' = [status EXCEPT ![t] = "PENDING"]
  /\ claimedBy' = [claimedBy EXCEPT ![t] = Nobody]
  /\ UNCHANGED <<emittedAt, assignedTo, answer>>

Release(u, t) ==
  /\ t \in working[u]
  /\ handovers < MaxHandovers
  /\ PutBack(t)
  /\ working' = [working EXCEPT ![u] = @ \ {t}]
  /\ handovers' = handovers + 1
  /\ UNCHANGED <<view, forgets>>

\* Wrong on purpose: claimed_by stays with the one who delegates.
DelegateButKeep(u, w, t) ==
  /\ t \in working[u]
  /\ handovers < MaxHandovers
  /\ assignedTo' = [assignedTo EXCEPT ![t] = w]
  /\ status' = [status EXCEPT ![t] = "CLAIMED"]
  /\ working' = [working EXCEPT ![u] = @ \ {t}, ![w] = @ \cup {t}]
  /\ handovers' = handovers + 1
  /\ UNCHANGED <<emittedAt, claimedBy, answer, view, forgets>>

\* The colleague is told, and from then on believes the task to be his.
Delegate(u, w, t) ==
  /\ t \in working[u]
  /\ w # u
  /\ handovers < MaxHandovers
  /\ assignedTo' = [assignedTo EXCEPT ![t] = w]
  /\ claimedBy' = [claimedBy EXCEPT ![t] = w]
  /\ status' = [status EXCEPT ![t] = "CLAIMED"]
  /\ working' = [working EXCEPT ![u] = @ \ {t}, ![w] = @ \cup {t}]
  /\ handovers' = handovers + 1
  /\ UNCHANGED <<emittedAt, answer, view, forgets>>

Complete(u, t) ==
  /\ t \in working[u]
  /\ status' = [status EXCEPT ![t] = "COMPLETED"]
  /\ answer' = [answer EXCEPT ![t] = u]
  /\ working' = [working EXCEPT ![u] = @ \ {t}]
  /\ UNCHANGED <<emittedAt, claimedBy, assignedTo, view, bounds>>

-----------------------------------------------------------------------------
(* People also go away: nothing in the queue notices.                      *)

\* A worker's process restarts and no longer knows what it had claimed.
Forget(u) ==
  /\ forgets < MaxForgets
  /\ working[u] # {}
  /\ view' = [view EXCEPT ![u] = {}]
  /\ working' = [working EXCEPT ![u] = {}]
  /\ forgets' = forgets + 1
  /\ UNCHANGED <<record, handovers>>

\* A supervisor calls release() for a task that nobody works on.
ReleaseAbandoned(t) ==
  /\ status[t] = "CLAIMED"
  /\ \A u \in User : t \notin working[u]
  /\ PutBack(t)
  /\ UNCHANGED <<people, bounds>>

AllDone ==
  /\ \A t \in Task : status[t] = "COMPLETED"
  /\ UNCHANGED queueVars

WorkerStep(u) ==
  \/ Poll(u)
  \/ \E t \in Task : Claim(u, t) \/ ClaimRefused(u, t) \/ Complete(u, t)

QueueNext ==
  \/ \E t \in Task : Emit(t) \/ ReleaseAbandoned(t)
  \/ \E u \in User : WorkerStep(u) \/ Forget(u)
  \/ \E u \in User, t \in Task : Release(u, t)
  \/ \E u, w \in User, t \in Task : Delegate(u, w, t)
  \/ AllDone

QueueSpec == QueueInit /\ [][QueueNext]_queueVars

\* Not the code's doing: people keep polling and finish what they start, and
\* somebody looks after abandoned tasks, because claims never expire.
QueueFairness ==
  /\ \A u \in User : WF_queueVars(WorkerStep(u))
  /\ \A t \in Task : WF_queueVars(ReleaseAbandoned(t))

QueueFairSpec == QueueSpec /\ QueueFairness

-----------------------------------------------------------------------------
(***************************************************************************)
(* claim() "locks" the task: while a person believes a task to be his, the *)
(* queue says so too.  With stale lists, delegation, release, restarts and *)
(* a supervisor about, no two people work on the same task at a time.      *)
(***************************************************************************)
ClaimIsALock ==
  \A u \in User : \A t \in working[u] : status[t] = "CLAIMED" /\ claimedBy[t] = u

(***************************************************************************)
(* The result of a completed task was given by the person that claimed_by  *)
(* names, although complete() neither takes nor checks a user.             *)
(***************************************************************************)
AnsweredByClaimer ==
  \A t \in Task : status[t] = "COMPLETED" => answer[t] = claimedBy[t]

(***************************************************************************)
(* No task starves: with poll(status=PENDING), any limit and any           *)
(* priorities, every emitted task is completed in the end, even if the     *)
(* person who claimed it forgot about it.                                  *)
(***************************************************************************)
EveryTaskIsAnswered ==
  \A t \in Task : t \in Emitted ~> status[t] = "COMPLETED"
=============================================================================
