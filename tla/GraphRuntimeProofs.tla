------------------------- MODULE GraphRuntimeProofs -------------------------
(***************************************************************************)
(* What holds of GraphRuntime for every set of nodes, every graph, every   *)
(* concurrency limit and every number of resumes.                          *)
(***************************************************************************)
EXTENDS GraphRuntime, FiniteSetTheorems, SequenceTheorems, TLAPS

-----------------------------------------------------------------------------
(* Type correctness.                                                       *)

\* The fallback taken from an edge is a node of the graph or there is none.
LEMMA FallbackType ==
  ASSUME graph \in Graphs, NEW n \in Node
  PROVE  FallbackOf(n) \in Node \cup {None}
<1>1. Incoming(n) \in Seq(Edge)
  BY GraphsAssumption DEF GraphDefinition, Incoming
<1>2. CASE HasIncoming(n)
  <2>1. 1 \in 1..Len(Incoming(n))
    BY <1>1, <1>2, EmptySeq DEF HasIncoming
  <2>2. Incoming(n)[1] \in Edge
    BY <1>1, <2>1, ElementOfSeq
  <2>. QED  BY <2>2 DEF FallbackOf, Edge
<1>3. CASE ~HasIncoming(n)
  BY <1>3 DEF FallbackOf
<1>. QED  BY <1>2, <1>3

LEMMA VerdictType ==
  /\ NoVerdict \in Verdict
  /\ Aborted \in Verdict
  /\ \A kind \in {"none", "completed", "cancelled", "aborted"} :
       \A ok \in BOOLEAN : [kind |-> kind, success |-> ok] \in Verdict
BY Zenon DEF NoVerdict, Aborted, Verdict

LEMMA SuccessType == \A st : Success(st) \in BOOLEAN
<1> TAKE st
<1>1. CASE mode = "run" /\ graph.exit # {}
  <2>1. Success(st) = (\A n \in graph.exit : st[n] \in Settled)
    BY <1>1 DEF Success
  <2>. QED  BY <2>1
<1>2. CASE ~(mode = "run" /\ graph.exit # {})
  <2>1. Success(st) = (nodeErrors = {})
    BY <1>2 DEF Success
  <2>. QED  BY <2>1
<1>. QED  BY <1>1, <1>2

LEMMA InitTypeOK == Init => TypeOK
<1> SUFFICES ASSUME Init PROVE TypeOK
  OBVIOUS
<1>1. result \in Verdict
  BY VerdictType DEF Init
<1>2. cur \in [Node -> Node] /\ attempt \in [Node -> Nat]
  BY DEF Init
<1>. QED  BY <1>1, <1>2 DEF Init, TypeOK, NodeState, Output, TaskPc

LEMMA NextTypeOK == TypeOK /\ [Next]_vars => TypeOK'
<1> SUFFICES ASSUME TypeOK, [Next]_vars PROVE TypeOK'
  OBVIOUS
<1> USE DEF TypeOK, NodeState, Output, TaskPc, state, loop, call, task
<1>1. CASE Run
  BY <1>1, GraphsAssumption DEF Run, GraphDefinition
<1>2. CASE Cancel
  BY <1>2 DEF Cancel
<1>3. ASSUME NEW n \in Node, NEW v \in Output, Resume(n, v) PROVE TypeOK'
  BY <1>3, VerdictType DEF Resume
<1>4. CASE LoopStep
  <2>1. CASE BeginWave
    BY <2>1 DEF BeginWave
  <2>2. CASE StopCancelled
    BY <2>2, VerdictType, SuccessType DEF StopCancelled, Return
  <2>3. CASE Finish
    BY <2>3, VerdictType, SuccessType DEF Finish, Return
  <2>4. CASE EndWave
    <3>1. phase' \in {"idle", "loop", "wave", "save", "finished"} /\ mode' = mode /\ forced' = forced
      BY <2>4 DEF EndWave, AfterWave, Abort
    <3>2. result' \in Verdict /\ resumes' = resumes
      BY <2>4, VerdictType DEF EndWave, Abort
    <3>3. frontier' \subseteq Node
      BY <2>4 DEF EndWave, NextFrontier
    <3>4. /\ nodeState' \in [Node -> NodeState]
          /\ nodeErrors' \subseteq Node
          /\ closed' \in [Node -> Nat]
      BY <2>4 DEF EndWave
    <3>. QED  BY <2>4, <3>1, <3>2, <3>3, <3>4 DEF EndWave
  <2>5. CASE SaveState
    BY <2>5 DEF SaveState, Snapshot, StateDict
  <2>6. CASE SaveFails
    BY <2>6, VerdictType DEF SaveFails, Abort
  <2>. QED  BY <1>4, <2>1, <2>2, <2>3, <2>4, <2>5, <2>6 DEF LoopStep
<1>5. ASSUME NEW r \in Node, TaskStep(r) PROVE TypeOK'
  <2>1. CASE StartNode(r)
    BY <2>1 DEF StartNode
  <2>2. CASE BuildInput(r)
    BY <2>2 DEF BuildInput
  <2>3. ASSUME NEW v \in Output, Succeeds(r, v) PROVE TypeOK'
    BY <2>3 DEF Succeeds, Record
  <2>4. CASE RetryLater(r)
    BY <2>4 DEF RetryLater
  <2>5. CASE Retry(r)
    BY <2>5 DEF Retry
  <2>6. CASE Skip(r)
    BY <2>6 DEF Skip, Record
  <2>7. CASE FallbackRecordedDone(r)
    BY <2>7 DEF FallbackRecordedDone, Record
  <2>8. CASE Fails(r)
    BY <2>8 DEF Fails, Record
  <2>9. CASE NoFallback(r)
    BY <2>9 DEF NoFallback
  <2>10. CASE StartFallback(r)
    BY <2>10, FallbackType DEF StartFallback
  <2>. QED
    BY <1>5, <2>1, <2>2, <2>3, <2>4, <2>5, <2>6, <2>7, <2>8, <2>9, <2>10 DEF TaskStep
<1>6. CASE UNCHANGED vars
  BY <1>6 DEF vars
<1>. QED  BY <1>1, <1>2, <1>3, <1>4, <1>5, <1>6 DEF Next, Returned

\* Every variable keeps its type: in particular a task never runs a node that
\* is not in the graph, whatever fallback its edges name.
THEOREM TypeCorrect == Spec => []TypeOK
BY InitTypeOK, NextTypeOK, PTL DEF Spec

-----------------------------------------------------------------------------
(* The loop: what is known of the frontier, of its tasks and of the turns  *)
(* taken so far.  The safety limit is never reached because every wave     *)
(* takes at least one node out of PENDING for good.                        *)

Touched == {n \in Node : nodeState[n] # "PENDING"}

FreshFrontier == \A r \in frontier : nodeState[r] = "PENDING"

\* Tasks exist during a wave, one for each frontier node.
TaskInv ==
  /\ phase # "wave" => \A r \in Node : pc[r] = "none" /\ cur[r] = r
  /\ phase = "wave" => /\ frontier # {}
                       /\ \A r \in Node : pc[r] # "none" <=> r \in frontier
  /\ \A r \in Node : pc[r] = "queued" => cur[r] = r
  /\ \A r \in Node : pc[r] \notin {"none", "queued"} => nodeState[r] # "PENDING"

\* At most one turn per touched node; during a wave the turn may be ahead of
\* the nodes it is going to touch.
TurnInv ==
  /\ phase = "idle" => iteration = 0 /\ Touched = {}
  /\ phase \in {"loop", "save"} => FreshFrontier /\ iteration <= Cardinality(Touched)
  /\ phase = "wave" =>
       \/ iteration <= Cardinality(Touched)
       \/ FreshFrontier /\ iteration <= Cardinality(Touched) + 1

LoopInv == TaskInv /\ TurnInv

LEMMA TouchedFinite ==
  TypeOK => /\ IsFiniteSet(Touched)
            /\ Cardinality(Touched) \in Nat
            /\ Cardinality(Node) \in Nat
BY NodeAssumption, FS_Subset, FS_CardinalityType DEF Touched

\* No step puts a node back to PENDING.
LEMMA NeverPendingAgain ==
  ASSUME TypeOK, [Next]_vars
  PROVE  \A n \in Node : nodeState[n] # "PENDING" => nodeState'[n] # "PENDING"
<1> USE DEF TypeOK, state, loop, call, task
<1>1. CASE Run \/ Cancel \/ UNCHANGED vars
  BY <1>1 DEF Run, Cancel, vars
<1>2. ASSUME NEW n \in Node, NEW v \in Output, Resume(n, v)
      PROVE  \A m \in Node : nodeState[m] # "PENDING" => nodeState'[m] # "PENDING"
  BY <1>2 DEF Resume
<1>3. CASE LoopStep
  BY <1>3 DEF LoopStep, BeginWave, StopCancelled, Finish, EndWave, SaveState, SaveFails
<1>4. ASSUME NEW r \in Node, TaskStep(r)
      PROVE  \A m \in Node : nodeState[m] # "PENDING" => nodeState'[m] # "PENDING"
  <2>1. CASE StartNode(r) \/ BuildInput(r) \/ RetryLater(r) \/ Retry(r) \/ NoFallback(r)
    BY <2>1 DEF StartNode, BuildInput, RetryLater, Retry, NoFallback
  <2>2. CASE Skip(r) \/ FallbackRecordedDone(r) \/ Fails(r) \/ \E v \in Output : Succeeds(r, v)
    BY <2>2 DEF Skip, FallbackRecordedDone, Fails, Succeeds, Record
  <2>3. CASE StartFallback(r)
    BY <2>3, FallbackType DEF StartFallback
  <2>. QED  BY <1>4, <2>1, <2>2, <2>3 DEF TaskStep
<1>. QED  BY <1>1, <1>2, <1>3, <1>4 DEF Next, Returned

LEMMA TouchedGrows ==
  ASSUME TypeOK, TypeOK', [Next]_vars
  PROVE  /\ Touched \subseteq Touched'
         /\ Cardinality(Touched) <= Cardinality(Touched')
         /\ Touched # Touched' => Cardinality(Touched) + 1 <= Cardinality(Touched')
<1>1. Touched \subseteq Touched'
  BY NeverPendingAgain DEF Touched
<1>2. IsFiniteSet(Touched) /\ IsFiniteSet(Touched')
  BY NodeAssumption, FS_Subset DEF Touched
<1>3. /\ Cardinality(Touched) \in Nat
      /\ Cardinality(Touched') \in Nat
      /\ Cardinality(Touched) <= Cardinality(Touched')
      /\ Cardinality(Touched) = Cardinality(Touched') => Touched = Touched'
  BY <1>1, <1>2, FS_Subset, FS_CardinalityType
<1>. QED  BY <1>1, <1>3

LEMMA InitLoopInv == Init => LoopInv
BY FS_EmptySet DEF Init, LoopInv, TaskInv, TurnInv, Touched

LEMMA NextTaskInv ==
  ASSUME TypeOK, TypeOK', LoopInv, [Next]_vars
  PROVE  TaskInv'
<1> USE DEF TypeOK, state, loop, call, task
<1>0. TaskInv /\ TurnInv
  BY DEF LoopInv
<1>1. CASE Run \/ Cancel \/ UNCHANGED vars
  BY <1>0, <1>1 DEF Run, Cancel, vars, TaskInv
<1>2. ASSUME NEW n \in Node, NEW v \in Output, Resume(n, v) PROVE TaskInv'
  BY <1>0, <1>2 DEF Resume, TaskInv
<1>3. CASE LoopStep
  <2>1. CASE BeginWave
    BY <1>0, <2>1 DEF BeginWave, LoopGoesOn, TaskInv
  <2>2. CASE StopCancelled \/ Finish \/ SaveState \/ SaveFails
    BY <1>0, <2>2 DEF StopCancelled, Finish, SaveState, SaveFails, Return, Abort, TaskInv
  <2>3. CASE EndWave
    <3>1. phase' \in {"finished", "save", "loop"}
      BY <2>3 DEF EndWave, AfterWave, Abort
    <3>2. \A r \in Node : pc'[r] = "none" /\ cur'[r] = r
      BY <2>3 DEF EndWave
    <3>. QED  BY <3>1, <3>2 DEF TaskInv
  <2>. QED  BY <1>3, <2>1, <2>2, <2>3 DEF LoopStep
<1>4. ASSUME NEW r \in Node, TaskStep(r) PROVE TaskInv'
  <2>1. CASE StartNode(r)
    BY <1>0, <2>1 DEF StartNode, TaskInv
  <2>2. CASE BuildInput(r) \/ RetryLater(r) \/ Retry(r) \/ NoFallback(r)
    BY <1>0, <2>2 DEF BuildInput, RetryLater, Retry, NoFallback, TaskInv
  <2>3. CASE Skip(r) \/ FallbackRecordedDone(r) \/ Fails(r) \/ \E v \in Output : Succeeds(r, v)
    BY <1>0, <2>3 DEF Skip, FallbackRecordedDone, Fails, Succeeds, Record, TaskInv
  <2>4. CASE StartFallback(r)
    BY <1>0, <2>4, FallbackType DEF StartFallback, TaskInv
  <2>. QED  BY <1>4, <2>1, <2>2, <2>3, <2>4 DEF TaskStep
<1>. QED  BY <1>1, <1>2, <1>3, <1>4 DEF Next, Returned

\* A step of a task stays within the wave, whatever it does to the nodes.
LEMMA TaskStepTurnInv ==
  ASSUME TypeOK, TypeOK', LoopInv, [Next]_vars,
         phase = "wave", UNCHANGED loop
  PROVE  TurnInv'
<1>1. CASE Touched = Touched'
  BY <1>1 DEF LoopInv, TurnInv, FreshFrontier, Touched, loop, TypeOK
<1>2. CASE Touched # Touched'
  <2>1. Cardinality(Touched) + 1 <= Cardinality(Touched')
    BY <1>2, TouchedGrows
  <2>2. iteration <= Cardinality(Touched) + 1
    BY TouchedFinite DEF LoopInv, TurnInv, TypeOK
  <2>3. Cardinality(Touched) \in Nat /\ Cardinality(Touched') \in Nat
    BY TouchedFinite, NodeAssumption, FS_Subset, FS_CardinalityType DEF Touched
  <2>. QED  BY <2>1, <2>2, <2>3 DEF TurnInv, loop, TypeOK
<1>. QED  BY <1>1, <1>2

LEMMA NextTurnInv ==
  ASSUME TypeOK, TypeOK', LoopInv, [Next]_vars
  PROVE  TurnInv'
<1> USE DEF TypeOK, state, loop, call, task
<1>0. TaskInv /\ TurnInv
  BY DEF LoopInv
<1>00. /\ Cardinality(Touched) \in Nat
       /\ Cardinality(Touched') \in Nat
       /\ Cardinality(Touched) <= Cardinality(Touched')
  BY TouchedGrows, NodeAssumption, FS_Subset, FS_CardinalityType DEF Touched
<1>1. CASE Run
  BY <1>0, <1>00, <1>1 DEF Run, TurnInv, FreshFrontier, Touched
<1>2. CASE Cancel \/ UNCHANGED vars
  BY <1>0, <1>2 DEF Cancel, vars, TurnInv, FreshFrontier, Touched
<1>3. ASSUME NEW n \in Node, NEW v \in Output, Resume(n, v) PROVE TurnInv'
  BY <1>00, <1>3 DEF Resume, Ready, TurnInv, FreshFrontier
<1>4. CASE LoopStep
  <2>1. CASE BeginWave
    BY <1>0, <1>00, <2>1 DEF BeginWave, TurnInv, FreshFrontier, Touched
  <2>2. CASE StopCancelled \/ Finish \/ SaveFails
    BY <2>2 DEF StopCancelled, Finish, SaveFails, Return, Abort, TurnInv
  <2>3. CASE SaveState
    BY <1>0, <2>3 DEF SaveState, TurnInv, FreshFrontier, Touched
  <2>4. CASE EndWave
    <3>1. phase' = "finished" \/ (phase' \in {"save", "loop"} /\ frontier' = NextFrontier(nodeState', nodeOutput))
      BY <2>4 DEF EndWave, AfterWave, Abort
    <3>2. phase' \in {"save", "loop"} => FreshFrontier'
      BY <3>1 DEF NextFrontier, Ready, FreshFrontier
    <3>3. PICK r \in frontier : pc[r] \in {"ended", "raised"}
      BY <1>0, <2>4 DEF EndWave, WaveOver, TaskInv
    <3>4. ~FreshFrontier
      BY <1>0, <3>3 DEF TaskInv, FreshFrontier
    <3>5. iteration <= Cardinality(Touched) /\ iteration' = iteration
      BY <1>0, <2>4, <3>4 DEF EndWave, TurnInv
    <3>. QED  BY <1>00, <3>1, <3>2, <3>5 DEF TurnInv
  <2>. QED  BY <1>4, <2>1, <2>2, <2>3, <2>4 DEF LoopStep
<1>5. ASSUME NEW r \in Node, TaskStep(r) PROVE TurnInv'
  <2>1. UNCHANGED loop
    BY <1>5 DEF TaskStep, StartNode, BuildInput, Succeeds, RetryLater, Retry, Skip,
                FallbackRecordedDone, Fails, NoFallback, StartFallback, Record
  <2>2. phase = "wave"
    <3>1. pc[r] # "none"
      BY <1>5 DEF TaskStep, StartNode, BuildInput, Succeeds, RetryLater, Retry, Skip,
                  FallbackRecordedDone, Fails, NoFallback, StartFallback
    <3>. QED  BY <1>0, <3>1 DEF TaskInv
  <2>. QED  BY <2>1, <2>2, TaskStepTurnInv
<1>. QED  BY <1>1, <1>2, <1>3, <1>4, <1>5 DEF Next, Returned

LEMMA LoopInvariant == Spec => [](TypeOK /\ LoopInv)
<1>1. Init => TypeOK /\ LoopInv
  BY InitTypeOK, InitLoopInv
<1>2. TypeOK /\ LoopInv /\ [Next]_vars => (TypeOK /\ LoopInv)'
  BY NextTypeOK, NextTaskInv, NextTurnInv DEF LoopInv
<1>. QED  BY <1>1, <1>2, PTL DEF Spec

LEMMA LoopInvLimit == TypeOK /\ LoopInv => LimitNeverBinds
<1> SUFFICES ASSUME TypeOK, LoopInv, phase = "loop", frontier # {}
             PROVE  iteration < MaxIterations
  BY DEF LimitNeverBinds
<1>1. FreshFrontier /\ iteration <= Cardinality(Touched)
  BY DEF LoopInv, TurnInv
<1>2. Touched \subseteq Node /\ Touched # Node
  BY <1>1 DEF Touched, FreshFrontier, TypeOK
<1>3. Cardinality(Touched) < Cardinality(Node)
  BY <1>2, NodeAssumption, TouchedFinite, FS_Subset
<1>. QED  BY <1>1, <1>3, TouchedFinite DEF MaxIterations, TypeOK

\* The 3 * len(nodes) turns that _execute_graph allows itself are never used
\* up while there is work: a graph is never abandoned half way in silence.
THEOREM LimitIsSlack == Spec => []LimitNeverBinds
BY LoopInvariant, LoopInvLimit, PTL

-----------------------------------------------------------------------------
(* What a completed run has not left behind.                               *)

\* Between two waves the frontier holds every ready node; nothing changes any
\* more once a run is over.
WorklistInv ==
  /\ phase = "idle" => mode = "run" /\ \A n \in Node : nodeState[n] = "PENDING"
  /\ phase \in {"loop", "save"} /\ mode = "run" =>
       \A n \in Node : Ready(n, nodeState, nodeOutput) => n \in frontier
  /\ NothingReadyAtTheEnd

LEMMA InitWorklistInv == Init => WorklistInv
BY DEF Init, WorklistInv, NothingReadyAtTheEnd

LEMMA NextWorklistInv ==
  ASSUME TypeOK, TypeOK', LoopInv, WorklistInv, [Next]_vars
  PROVE  WorklistInv'
<1> USE DEF TypeOK, state, loop, call, task
<1>1. CASE Run
  <2>1. ASSUME NEW n \in Node, Ready(n, nodeState, nodeOutput) PROVE n \in graph.entry
    <3>1. ~HasIncoming(n)
      <4>. SUFFICES ASSUME HasIncoming(n) PROVE FALSE
        OBVIOUS
      <4>1. Incoming(n) \in Seq(Edge)
        BY GraphsAssumption DEF GraphDefinition, Incoming
      <4>2. 1 \in DOMAIN Incoming(n) /\ Incoming(n)[1] \in Edge
        BY <4>1, EmptySeq, ElementOfSeq, LenProperties DEF HasIncoming
      <4>3. Incoming(n)[1].src \in Node /\ Incoming(n)[1].src \in Preds(n)
        BY <4>2 DEF Edge, Preds
      <4>4. nodeState[Incoming(n)[1].src] \in Settled
        BY <2>1, <4>3 DEF Ready
      <4>. QED  BY <1>1, <4>3, <4>4 DEF Run, WorklistInv, Settled
    <3>. QED  BY <2>1, <3>1 DEF Ready
  <2>. QED  BY <1>1, <2>1 DEF Run, WorklistInv, NothingReadyAtTheEnd, Ready, Preds, Incoming, HasIncoming
<1>2. CASE Cancel \/ UNCHANGED vars
  BY <1>2 DEF Cancel, vars, WorklistInv, NothingReadyAtTheEnd, Ready, Preds, Incoming, HasIncoming
<1>3. ASSUME NEW n \in Node, NEW v \in Output, Resume(n, v) PROVE WorklistInv'
  BY <1>3 DEF Resume, WorklistInv, NothingReadyAtTheEnd
<1>4. CASE LoopStep
  <2>1. CASE BeginWave
    BY <2>1 DEF BeginWave, WorklistInv, NothingReadyAtTheEnd
  <2>2. CASE StopCancelled
    BY <2>2 DEF StopCancelled, Return, WorklistInv, NothingReadyAtTheEnd
  <2>3. CASE Finish
    <3>1. frontier = {}
      BY <2>3, LoopInvLimit DEF Finish, LoopGoesOn, LimitNeverBinds
    <3>. QED
      BY <2>3, <3>1 DEF Finish, Return, WorklistInv, NothingReadyAtTheEnd, Ready, Preds, Incoming, HasIncoming
  <2>4. CASE EndWave
    <3>1. CASE phase' = "finished"
      BY <2>4, <3>1 DEF EndWave, AfterWave, Abort, Aborted, WorklistInv, NothingReadyAtTheEnd
    <3>2. CASE phase' # "finished"
      <4>1. /\ phase' \in {"save", "loop"}
            /\ frontier' = NextFrontier(nodeState', nodeOutput')
            /\ graph' = graph
        BY <2>4, <3>2 DEF EndWave, AfterWave, Abort
      <4>. QED
        BY <4>1 DEF WorklistInv, NothingReadyAtTheEnd, NextFrontier, Ready, Preds, Incoming, HasIncoming
    <3>. QED  BY <3>1, <3>2
  <2>5. CASE SaveState
    BY <2>5 DEF SaveState, WorklistInv, NothingReadyAtTheEnd, Ready, Preds, Incoming, HasIncoming
  <2>6. CASE SaveFails
    BY <2>6 DEF SaveFails, Abort, Aborted, WorklistInv, NothingReadyAtTheEnd
  <2>. QED  BY <1>4, <2>1, <2>2, <2>3, <2>4, <2>5, <2>6 DEF LoopStep
<1>5. ASSUME NEW r \in Node, TaskStep(r) PROVE WorklistInv'
  <2>1. UNCHANGED loop
    BY <1>5 DEF TaskStep, StartNode, BuildInput, Succeeds, RetryLater, Retry, Skip,
                FallbackRecordedDone, Fails, NoFallback, StartFallback, Record
  <2>2. phase = "wave"
    <3>1. pc[r] # "none"
      BY <1>5 DEF TaskStep, StartNode, BuildInput, Succeeds, RetryLater, Retry, Skip,
                  FallbackRecordedDone, Fails, NoFallback, StartFallback
    <3>. QED  BY <3>1 DEF LoopInv, TaskInv
  <2>. QED  BY <2>1, <2>2 DEF WorklistInv, NothingReadyAtTheEnd
<1>. QED  BY <1>1, <1>2, <1>3, <1>4, <1>5 DEF Next, Returned

\* A run that completes has dispatched everything that was ready: what is left
\* PENDING waits for a node that failed or for an edge that does not fire.
THEOREM RunIsExhaustive == Spec => []NothingReadyAtTheEnd
<1>1. Init => TypeOK /\ LoopInv /\ WorklistInv
  BY InitTypeOK, InitLoopInv, InitWorklistInv
<1>2. TypeOK /\ LoopInv /\ WorklistInv /\ [Next]_vars => (TypeOK /\ LoopInv /\ WorklistInv)'
  BY NextTypeOK, NextTaskInv, NextTurnInv, NextWorklistInv DEF LoopInv
<1>3. WorklistInv => NothingReadyAtTheEnd
  BY DEF WorklistInv
<1>. QED  BY <1>1, <1>2, <1>3, PTL DEF Spec

-----------------------------------------------------------------------------
(* Causality, for graphs whose fallback nodes are exclusive.  What makes it *)
(* inductive: a fallback node is PENDING as long as the one node it stands *)
(* in for may still fail, so starting it undoes nothing that has settled.  *)

\* ... unless resume() made one DONE before its time.
PredsSettled(n) == \A p \in Preds(n) : nodeState[p] \in Settled \/ p \in forced

FrontierInv ==
  \A r \in frontier : r \notin FallbackNodes /\ (r \notin graph.entry => PredsSettled(r))

\* Where a task is, and the state of the node it executes.
PositionInv ==
  \A r \in Node :
    /\ pc[r] # "none" => cur[r] \in {r, FallbackOf(r)}
    /\ pc[r] = "queued" => nodeState[r] = "PENDING"
    /\ pc[r] \in {"started", "executing", "sleeping"} => nodeState[cur[r]] = "RUNNING"
    /\ pc[r] = "failed" => nodeState[cur[r]] = "FAILED"
    /\ pc[r] = "raised" => cur[r] = r /\ nodeState[r] = "RUNNING"

\* Node n has not started, or it is running and has not settled yet.
MayStillFail(n) ==
  \/ nodeState[n] = "PENDING"
  \/ pc[n] \in {"started", "executing", "sleeping", "failed"} /\ cur[n] = n

FallbackInv ==
  \A n \in Node :
    MayStillFail(n) /\ FallbackOf(n) # None =>
      /\ started[FallbackOf(n)] = 0
      /\ nodeState[FallbackOf(n)] = "PENDING" \/ FallbackOf(n) \in forced

StartInv ==
  \A n \in Node :
    /\ started[n] <= 1
    /\ nodeState[n] = "PENDING" => started[n] = 0
    /\ started[n] > 0 /\ n \notin graph.entry => PredsSettled(n)

CauseInv ==
  ExclusiveFallbacks => FrontierInv /\ PositionInv /\ FallbackInv /\ StartInv

LEMMA GraphFixed ==
  ASSUME [Next]_vars
  PROVE  /\ graph' = graph
         /\ \A n \in Node : Preds(n)' = Preds(n) /\ FallbackOf(n)' = FallbackOf(n)
         /\ FallbackNodes' = FallbackNodes
         /\ ExclusiveFallbacks' <=> ExclusiveFallbacks
<1>1. graph' = graph
  <2>1. ASSUME NEW r \in Node, TaskStep(r) PROVE graph' = graph
    BY <2>1 DEF TaskStep, StartNode, BuildInput, Succeeds, RetryLater, Retry, Skip,
                FallbackRecordedDone, Fails, NoFallback, StartFallback, Record
  <2>2. CASE LoopStep
    BY <2>2 DEF LoopStep, BeginWave, StopCancelled, Finish, EndWave, SaveState, SaveFails
  <2>3. ASSUME NEW n \in Node, NEW v \in Output, Resume(n, v) PROVE graph' = graph
    BY <2>3 DEF Resume
  <2>. QED  BY <2>1, <2>2, <2>3 DEF Next, Run, Cancel, Returned, vars
<1>. QED
  BY <1>1 DEF Preds, FallbackOf, HasIncoming, PolicyOf, Incoming, FallbackNodes,
              ExclusiveFallbacks, DedicatedFallbacks

\* A fallback node is a leaf of the failure handling: it has no predecessor,
\* no fallback of its own, builds no input, and is never on the frontier.
LEMMA ExclusiveFacts ==
  ASSUME TypeOK, ExclusiveFallbacks
  PROVE  /\ \A n \in Node : FallbackOf(n) # None =>
              /\ FallbackOf(n) \in Node
              /\ FallbackOf(n) \in FallbackNodes
              /\ FallbackOf(n) # n
         /\ \A m, n \in Node :
              FallbackOf(m) = FallbackOf(n) /\ FallbackOf(m) # None => m = n
         /\ \A f \in FallbackNodes :
              /\ f \notin graph.entry
              /\ Preds(f) = {}
              /\ FallbackOf(f) = None
              /\ ~TransformRaises(f)
              /\ \A st, out : ~Ready(f, st, out)
<1>1. \A f \in FallbackNodes : ~HasIncoming(f) /\ f \notin graph.entry
  BY DEF ExclusiveFallbacks, DedicatedFallbacks
<1>2. ASSUME NEW f, ~HasIncoming(f)
      PROVE  /\ Preds(f) = {}
             /\ FallbackOf(f) = None
             /\ ~TransformRaises(f)
  BY <1>2 DEF HasIncoming, Preds, FallbackOf, TransformRaises
<1>3. \A f \in FallbackNodes : \A st, out : ~Ready(f, st, out)
  BY <1>1 DEF Ready
<1>4. \A n \in Node : FallbackOf(n) # None =>
        FallbackOf(n) \in Node /\ FallbackOf(n) \in FallbackNodes
  BY FallbackType DEF FallbackNodes, TypeOK
<1>5. \A n \in Node : FallbackOf(n) # None => FallbackOf(n) # n
  BY <1>1, <1>2, <1>4
<1>. QED
  BY <1>1, <1>2, <1>3, <1>4, <1>5 DEF ExclusiveFallbacks

\* Two tasks never execute the same node.
LEMMA DistinctNodes ==
  ASSUME TypeOK, LoopInv, ExclusiveFallbacks, FrontierInv, PositionInv,
         NEW r \in Node, NEW s \in Node, r # s, pc[r] # "none", pc[s] # "none"
  PROVE  cur[r] # cur[s]
<1>1. r \in frontier /\ s \in frontier
  BY DEF LoopInv, TaskInv
<1>2. r \notin FallbackNodes /\ s \notin FallbackNodes
  BY <1>1 DEF FrontierInv
<1>3. cur[r] \in {r, FallbackOf(r)} /\ cur[s] \in {s, FallbackOf(s)}
  BY DEF PositionInv
<1>4. cur[r] \in Node /\ cur[s] \in Node
  BY DEF TypeOK
<1>. QED  BY <1>2, <1>3, <1>4, ExclusiveFacts, NodeAssumption

LEMMA PredsType ==
  ASSUME graph \in Graphs, NEW n \in Node
  PROVE  Preds(n) \subseteq Node
<1>1. Incoming(n) \in Seq(Edge)
  BY GraphsAssumption DEF GraphDefinition, Incoming
<1>2. \A i \in DOMAIN Incoming(n) : Incoming(n)[i] \in Edge
  BY <1>1, ElementOfSeq, LenProperties
<1>. QED  BY <1>2 DEF Preds, Edge

LEMMA InitCauseInv == Init => CauseInv
BY FallbackType DEF Init, CauseInv, FrontierInv, PositionInv, FallbackInv, MayStillFail, StartInv, Settled

\* Only resume() makes nodes DONE before their time, and for good.
LEMMA ForcedGrows ==
  ASSUME [Next]_vars
  PROVE  forced \subseteq forced'
<1>1. ASSUME NEW r \in Node, TaskStep(r) PROVE forced' = forced
  BY <1>1 DEF TaskStep, StartNode, BuildInput, Succeeds, RetryLater, Retry, Skip,
              FallbackRecordedDone, Fails, NoFallback, StartFallback, Record, call
<1>2. CASE LoopStep
  BY <1>2 DEF LoopStep, BeginWave, StopCancelled, Finish, EndWave, SaveState, SaveFails,
              Return, Abort, call
<1>3. ASSUME NEW n \in Node, NEW v \in Output, Resume(n, v) PROVE forced \subseteq forced'
  BY <1>3 DEF Resume
<1>4. CASE Run \/ Cancel \/ UNCHANGED vars
  BY <1>4 DEF Run, Cancel, vars, call
<1>. QED  BY <1>1, <1>2, <1>3, <1>4 DEF Next, Returned

\* Predecessors that have settled stay settled if every node does.
LEMMA PredsStaySettled ==
  ASSUME TypeOK, [Next]_vars,
         \A p \in Node : nodeState[p] \in Settled => nodeState'[p] \in Settled \/ p \in forced
  PROVE  \A n \in Node : PredsSettled(n) => PredsSettled(n)'
<1> TAKE n \in Node
<1>1. Preds(n)' = Preds(n) /\ Preds(n) \subseteq Node
  BY GraphFixed, PredsType DEF TypeOK
<1>2. forced \subseteq forced'
  BY ForcedGrows
<1>. QED  BY <1>1, <1>2 DEF PredsSettled, Settled

LEMMA LoopStepCauseInv ==
  ASSUME TypeOK, TypeOK', LoopInv, CauseInv, [Next]_vars, ExclusiveFallbacks, LoopStep
  PROVE  (FrontierInv /\ PositionInv /\ FallbackInv /\ StartInv)'
<1> USE DEF TypeOK, state, loop, call, task
<1>0. FrontierInv /\ PositionInv /\ FallbackInv /\ StartInv /\ TaskInv /\ TurnInv
  BY DEF CauseInv, LoopInv
<1>1. CASE BeginWave
  <2>1. nodeState' = nodeState /\ frontier' = frontier /\ started' = started /\ cur' = cur
    BY <1>1 DEF BeginWave
  <2>2. \A n \in Node : PredsSettled(n) => PredsSettled(n)'
    BY <2>1, PredsStaySettled
  <2>3. FreshFrontier
    BY <1>0, <1>1 DEF BeginWave, TurnInv
  <2>4. FrontierInv' /\ StartInv'
    BY <1>0, <2>1, <2>2, GraphFixed DEF FrontierInv, StartInv
  <2>5. \A r \in Node : pc'[r] = (IF r \in frontier THEN "queued" ELSE "none") /\ cur[r] = r
    BY <1>0, <1>1 DEF BeginWave, TaskInv
  <2>6. PositionInv'
    BY <2>1, <2>3, <2>5, GraphFixed DEF PositionInv, FreshFrontier
  <2>7. FallbackInv'
    BY <1>0, <2>1, <2>5, GraphFixed, ForcedGrows DEF FallbackInv, MayStillFail
  <2>. QED  BY <2>4, <2>6, <2>7
<1>2. CASE StopCancelled
  <2>1. /\ \A n \in Node : nodeState'[n] # nodeState[n] =>
             nodeState[n] \in {"RUNNING", "PENDING"} /\ nodeState'[n] = "CANCELLED"
        /\ frontier' = frontier /\ started' = started
        /\ pc' = pc /\ cur' = cur /\ phase = "loop"
        /\ mode = "run" => \A n \in Node : nodeState'[n] # "PENDING"
        /\ mode # "run" => \A n \in Node : nodeState'[n] = nodeState[n]
    BY <1>2 DEF StopCancelled
  <2>2. \A n \in Node : PredsSettled(n) => PredsSettled(n)'
    BY <2>1, PredsStaySettled DEF Settled
  <2>3. FrontierInv' /\ StartInv'
    BY <1>0, <2>1, <2>2, GraphFixed DEF FrontierInv, StartInv
  <2>4. \A r \in Node : pc[r] = "none"
    BY <1>0, <2>1 DEF TaskInv
  <2>5. PositionInv' /\ FallbackInv'
    BY <1>0, <2>1, <2>4, GraphFixed, ForcedGrows, ExclusiveFacts DEF PositionInv, FallbackInv, MayStillFail
  <2>. QED  BY <2>3, <2>5
<1>3. CASE Finish \/ SaveState \/ SaveFails
  <2>1. /\ nodeState' = nodeState /\ frontier' = frontier /\ started' = started
        /\ pc' = pc /\ cur' = cur
    BY <1>3 DEF Finish, SaveState, SaveFails
  <2>2. \A n \in Node : PredsSettled(n) => PredsSettled(n)'
    BY <2>1, PredsStaySettled
  <2>. QED
    BY <1>0, <2>1, <2>2, GraphFixed, ForcedGrows
    DEF FrontierInv, StartInv, PositionInv, FallbackInv, MayStillFail
<1>4. CASE EndWave
  <2>1. /\ \A n \in Node : nodeState'[n] # nodeState[n] =>
             pc[n] = "raised" /\ nodeState'[n] = "FAILED"
        /\ started' = started
        /\ \A n \in Node : pc'[n] = "none" /\ cur'[n] = n
    BY <1>4 DEF EndWave
  <2>2. \A n \in Node : nodeState'[n] # nodeState[n] => nodeState[n] = "RUNNING"
    BY <1>0, <2>1 DEF PositionInv
  <2>3. \A n \in Node : PredsSettled(n) => PredsSettled(n)'
    BY <2>1, <2>2, PredsStaySettled DEF Settled
  <2>4. StartInv'
    BY <1>0, <2>1, <2>2, <2>3, GraphFixed DEF StartInv
  <2>5. PositionInv' /\ FallbackInv'
    BY <1>0, <2>1, <2>2, GraphFixed, ForcedGrows, ExclusiveFacts DEF PositionInv, FallbackInv, MayStillFail
  <2>6. \A r \in frontier' : Ready(r, nodeState', nodeOutput)
    BY <1>4 DEF EndWave, NextFrontier
  <2>7. FrontierInv'
    <3>1. \A r \in frontier' : r \notin FallbackNodes
      BY <2>6, ExclusiveFacts
    <3>2. ASSUME NEW r \in frontier', r \notin graph.entry PROVE PredsSettled(r)'
      BY <2>6, <3>2, GraphFixed DEF Ready, PredsSettled
    <3>. QED  BY <3>1, <3>2, GraphFixed DEF FrontierInv
  <2>. QED  BY <2>4, <2>5, <2>7
<1>. QED  BY <1>1, <1>2, <1>3, <1>4 DEF LoopStep

LEMMA TaskStepCauseInv ==
  ASSUME TypeOK, TypeOK', LoopInv, CauseInv, [Next]_vars, ExclusiveFallbacks,
         NEW r \in Node, TaskStep(r)
  PROVE  (FrontierInv /\ PositionInv /\ FallbackInv /\ StartInv)'
<1> USE DEF TypeOK, state, loop, call, task
<1>0. FrontierInv /\ PositionInv /\ FallbackInv /\ StartInv /\ TaskInv /\ TurnInv
  BY DEF CauseInv, LoopInv
<1>00. /\ frontier' = frontier
       /\ pc[r] # "none"
       /\ r \in frontier
       /\ r \notin FallbackNodes
  <2>1. frontier' = frontier /\ pc[r] # "none"
    BY DEF TaskStep, StartNode, BuildInput, Succeeds, RetryLater, Retry, Skip,
           FallbackRecordedDone, Fails, NoFallback, StartFallback, Record
  <2>. QED  BY <1>0, <2>1 DEF TaskInv, FrontierInv
<1>1. CASE StartNode(r)
  <2>1. /\ nodeState[r] = "PENDING" /\ cur[r] = r
        /\ nodeState' = [nodeState EXCEPT ![r] = "RUNNING"]
        /\ started' = [started EXCEPT ![r] = @ + 1]
        /\ pc[r] = "queued" /\ pc' = [pc EXCEPT ![r] = "started"] /\ cur' = cur
    BY <1>0, <1>1 DEF StartNode, PositionInv, TaskInv
  <2>2. \A n \in Node : PredsSettled(n) => PredsSettled(n)'
    BY <2>1, PredsStaySettled DEF Settled
  <2>3. FrontierInv'
    BY <1>0, <1>00, <2>2, GraphFixed DEF FrontierInv
  <2>4. r \notin graph.entry => PredsSettled(r)
    BY <1>0, <1>00 DEF FrontierInv
  <2>5. StartInv'
    BY <1>0, <2>1, <2>2, <2>4, GraphFixed DEF StartInv
  <2>6. \A s \in Node : s # r /\ pc[s] # "none" => cur[s] # r
    BY <1>0, <1>00, <2>1, DistinctNodes
  <2>7. PositionInv'
    BY <1>0, <2>1, <2>6, GraphFixed, ExclusiveFacts DEF PositionInv
  <2>8. FallbackInv'
    BY <1>0, <1>00, <2>1, GraphFixed, ForcedGrows, ExclusiveFacts DEF FallbackInv, MayStillFail
  <2>. QED  BY <2>3, <2>5, <2>7, <2>8
<1>2. CASE BuildInput(r) \/ RetryLater(r) \/ Retry(r) \/ NoFallback(r)
  <2>1. nodeState' = nodeState /\ started' = started /\ cur' = cur
    BY <1>2 DEF BuildInput, RetryLater, Retry, NoFallback
  <2>2. \A n \in Node : PredsSettled(n) => PredsSettled(n)'
    BY <2>1, PredsStaySettled
  <2>3. FrontierInv' /\ StartInv'
    BY <1>0, <1>00, <2>1, <2>2, GraphFixed DEF FrontierInv, StartInv
  <2>4. PositionInv'
    <3>1. CASE BuildInput(r)
      <4>1. TransformRaises(cur[r]) => cur[r] = r
        BY <1>0, <1>00, ExclusiveFacts, NodeAssumption DEF PositionInv
      <4>. QED  BY <1>0, <2>1, <3>1, <4>1, GraphFixed DEF BuildInput, PositionInv
    <3>2. CASE RetryLater(r) \/ Retry(r) \/ NoFallback(r)
      BY <1>0, <2>1, <3>2, GraphFixed DEF RetryLater, Retry, NoFallback, PositionInv
    <3>. QED  BY <1>2, <3>1, <3>2
  <2>5. FallbackInv'
    BY <1>0, <1>2, <2>1, GraphFixed
    DEF BuildInput, RetryLater, Retry, NoFallback, FallbackInv, MayStillFail
  <2>. QED  BY <2>3, <2>4, <2>5
<1>3. CASE Skip(r) \/ FallbackRecordedDone(r) \/ Fails(r) \/ \E v \in Output : Succeeds(r, v)
  <2>1. /\ pc[r] = "executing" /\ nodeState[cur[r]] = "RUNNING" /\ cur[r] \in Node
        /\ started' = started /\ cur' = cur
        /\ \/ pc' = [pc EXCEPT ![r] = "ended"] /\ \E st \in Settled : nodeState' = [nodeState EXCEPT ![cur[r]] = st]
           \/ pc' = [pc EXCEPT ![r] = "failed"] /\ nodeState' = [nodeState EXCEPT ![cur[r]] = "FAILED"]
    BY <1>0, <1>3 DEF Skip, FallbackRecordedDone, Fails, Succeeds, Record, PositionInv, Settled
  <2>2. \A n \in Node : PredsSettled(n) => PredsSettled(n)'
    BY <2>1, PredsStaySettled DEF Settled
  <2>3. FrontierInv' /\ StartInv'
    BY <1>0, <1>00, <2>1, <2>2, GraphFixed DEF FrontierInv, StartInv, Settled
  <2>4. \A s \in Node : s # r /\ pc[s] # "none" => cur[s] # cur[r]
    BY <1>0, <1>00, DistinctNodes
  <2>5. PositionInv'
    <3>1. \A s \in Node : s # r /\ pc[s] # "none" => nodeState'[cur[s]] = nodeState[cur[s]]
      BY <2>1, <2>4
    <3>2. \A s \in Node : s # r /\ pc[s] \in {"queued", "raised"} => nodeState'[s] = nodeState[s]
      BY <1>0, <2>1, <2>4 DEF PositionInv, TaskInv
    <3>. QED  BY <1>0, <2>1, <3>1, <3>2, GraphFixed DEF PositionInv, Settled
  <2>6. FallbackInv'
    BY <1>0, <2>1, GraphFixed, ForcedGrows, ExclusiveFacts DEF FallbackInv, MayStillFail, Settled
  <2>. QED  BY <2>3, <2>5, <2>6
<1>4. CASE StartFallback(r)
  <2> DEFINE f == FallbackOf(cur[r])
  <2>1. /\ pc[r] = "failed" /\ f # None /\ f \in Node /\ cur[r] = r
        /\ nodeState[r] = "FAILED" /\ started[f] = 0
        /\ nodeState[f] = "PENDING" \/ f \in forced
        /\ f \in FallbackNodes /\ f # r /\ FallbackOf(f) = None
    <3>1. pc[r] = "failed" /\ f # None /\ cur[r] \in Node
      BY <1>4 DEF StartFallback
    <3>2. cur[r] = r
      <4>1. cur[r] \in {r, FallbackOf(r)}
        BY <1>0, <3>1 DEF PositionInv
      <4>2. cur[r] \notin FallbackNodes
        BY <3>1, ExclusiveFacts
      <4>. QED  BY <3>1, <4>1, <4>2, ExclusiveFacts, NodeAssumption
    <3>. QED  BY <1>0, <3>1, <3>2, ExclusiveFacts DEF PositionInv, FallbackInv, MayStillFail
  <2>2. /\ nodeState' = [nodeState EXCEPT ![r] = "SKIPPED", ![f] = "RUNNING"]
        /\ started' = [started EXCEPT ![f] = @ + 1]
        /\ pc' = [pc EXCEPT ![r] = "started"]
        /\ cur' = [cur EXCEPT ![r] = f]
    BY <1>4, <2>1 DEF StartFallback
  <2>3. \A n \in Node : PredsSettled(n) => PredsSettled(n)'
    BY <2>1, <2>2, PredsStaySettled DEF Settled
  <2>4. FrontierInv'
    BY <1>0, <1>00, <2>3, GraphFixed DEF FrontierInv
  <2>5. PredsSettled(f)
    BY <2>1, ExclusiveFacts DEF PredsSettled
  <2>6. StartInv'
    BY <1>0, <2>1, <2>2, <2>3, <2>5, GraphFixed DEF StartInv
  <2>7. PositionInv'
    <3>1. ASSUME NEW s \in Node, s # r, pc[s] # "none"
          PROVE  cur[s] # r /\ cur[s] # f /\ s # f
      BY <1>0, <1>00, <2>1, <3>1, DistinctNodes, ExclusiveFacts
         DEF PositionInv, TaskInv, FrontierInv
    <3>. QED  BY <1>0, <2>1, <2>2, <3>1, GraphFixed DEF PositionInv
  <2>8. FallbackInv'
    BY <1>0, <2>1, <2>2, GraphFixed, ForcedGrows, ExclusiveFacts DEF FallbackInv, MayStillFail
  <2>. QED  BY <2>4, <2>6, <2>7, <2>8
<1>. QED  BY <1>1, <1>2, <1>3, <1>4 DEF TaskStep

LEMMA ResumeCauseInv ==
  ASSUME TypeOK, TypeOK', LoopInv, CauseInv, [Next]_vars, ExclusiveFallbacks,
         NEW n \in Node, NEW v \in Output, Resume(n, v)
  PROVE  (FrontierInv /\ PositionInv /\ FallbackInv /\ StartInv)'
<1> USE DEF TypeOK, state, loop, call, task
<1>0. FrontierInv /\ PositionInv /\ FallbackInv /\ StartInv /\ TaskInv
  BY DEF CauseInv, LoopInv
<1>1. /\ forced' = IF nodeState[n] = "PENDING" THEN forced \cup {n} ELSE forced
      /\ nodeState' = [nodeState EXCEPT ![n] = "DONE"]
      /\ started' = started /\ pc' = pc /\ cur' = cur
      /\ \A r \in Node : pc[r] = "none"
      /\ \A r \in frontier' : Ready(r, nodeState', nodeOutput')
  BY <1>0 DEF Resume, TaskInv
<1>2. \A m \in Node : PredsSettled(m) => PredsSettled(m)'
  BY <1>1, PredsStaySettled DEF Settled
<1>3. FrontierInv'
  <2>1. \A r \in frontier' : r \notin FallbackNodes
    BY <1>1, ExclusiveFacts
  <2>2. ASSUME NEW r \in frontier', r \notin graph.entry PROVE PredsSettled(r)'
    BY <1>1, <2>2, GraphFixed DEF Ready, PredsSettled
  <2>. QED  BY <2>1, <2>2, GraphFixed DEF FrontierInv
<1>4. StartInv'
  BY <1>0, <1>1, <1>2, GraphFixed DEF StartInv
<1>5. PositionInv' /\ FallbackInv'
  BY <1>0, <1>1, GraphFixed, ForcedGrows, ExclusiveFacts DEF PositionInv, FallbackInv, MayStillFail
<1>. QED  BY <1>3, <1>4, <1>5

LEMMA NextCauseInv ==
  ASSUME TypeOK, TypeOK', LoopInv, CauseInv, [Next]_vars
  PROVE  CauseInv'
<1> SUFFICES ASSUME ExclusiveFallbacks
             PROVE  (FrontierInv /\ PositionInv /\ FallbackInv /\ StartInv)'
  BY GraphFixed DEF CauseInv
<1> USE DEF TypeOK, state, loop, call, task
<1>0. FrontierInv /\ PositionInv /\ FallbackInv /\ StartInv /\ TurnInv
  BY DEF CauseInv, LoopInv
<1>1. CASE Run
  <2>1. /\ nodeState' = nodeState /\ started' = started /\ pc' = pc /\ cur' = cur
        /\ frontier' = graph.entry
    BY <1>1 DEF Run
  <2>2. \A n \in Node : PredsSettled(n) => PredsSettled(n)'
    BY <2>1, PredsStaySettled
  <2>3. FrontierInv'
    BY <2>1, GraphFixed, ExclusiveFacts DEF FrontierInv
  <2>. QED
    BY <1>0, <2>1, <2>2, <2>3, GraphFixed, ForcedGrows DEF StartInv, PositionInv, FallbackInv, MayStillFail
<1>2. CASE Cancel \/ UNCHANGED vars
  <2>1. /\ nodeState' = nodeState /\ frontier' = frontier /\ started' = started
        /\ pc' = pc /\ cur' = cur
    BY <1>2 DEF Cancel, vars
  <2>2. \A n \in Node : PredsSettled(n) => PredsSettled(n)'
    BY <2>1, PredsStaySettled
  <2>. QED
    BY <1>0, <2>1, <2>2, GraphFixed, ForcedGrows
    DEF FrontierInv, StartInv, PositionInv, FallbackInv, MayStillFail
<1>. QED
  BY <1>1, <1>2, LoopStepCauseInv, TaskStepCauseInv, ResumeCauseInv DEF Next, Returned

LEMMA CauseInvariant == Spec => [](TypeOK /\ LoopInv /\ CauseInv)
<1>1. Init => TypeOK /\ LoopInv /\ CauseInv
  BY InitTypeOK, InitLoopInv, InitCauseInv
<1>2. TypeOK /\ LoopInv /\ CauseInv /\ [Next]_vars => (TypeOK /\ LoopInv /\ CauseInv)'
  BY NextTypeOK, NextTaskInv, NextTurnInv, NextCauseInv DEF LoopInv
<1>. QED  BY <1>1, <1>2, PTL DEF Spec

\* No node runs on the output of a predecessor that is not finished for good,
\* whatever is retried, skipped, replaced, cancelled or resumed.
THEOREM CausalOrder == Spec => []Causality
<1>1. CauseInv => Causality
  BY DEF CauseInv, StartInv, PredsSettled, Causality
<1>. QED  BY <1>1, CauseInvariant, PTL

\* No node runs twice in the life of an execution, resumed or not.
THEOREM RunsOnce == Spec => []StartedOnce
<1>1. CauseInv => StartedOnce
  BY DEF CauseInv, StartInv, StartedOnce
<1>. QED  BY <1>1, CauseInvariant, PTL

-----------------------------------------------------------------------------
(* What is open, what began, and what is saved.                            *)

LEMMA DedicatedFacts ==
  ASSUME TypeOK, DedicatedFallbacks, NEW n \in Node, FallbackOf(n) # None
  PROVE  /\ FallbackOf(n) \in Node /\ FallbackOf(n) # n
         /\ FallbackOf(FallbackOf(n)) = None
         /\ ~TransformRaises(FallbackOf(n))
<1>1. FallbackOf(n) \in Node /\ FallbackOf(n) \in FallbackNodes
  BY FallbackType DEF FallbackNodes, TypeOK
<1>2. HasIncoming(n) /\ ~HasIncoming(FallbackOf(n))
  BY <1>1 DEF DedicatedFallbacks, FallbackOf
<1>. QED  BY <1>1, <1>2 DEF FallbackOf, HasIncoming, TransformRaises

AtWork == {"started", "executing", "sleeping", "raised"}

\* The tasks that owe node n a NodeCompleted or NodeFailed.
OpenAt(n) == {r \in Node : pc[r] \in AtWork /\ cur[r] = n}

\* Where a task is, for graphs whose fallback nodes may be shared.
PlaceInv ==
  \A r \in Node :
    /\ cur[r] \in {r, FallbackOf(r)}
    /\ pc[r] = "raised" => cur[r] = r

OpenInv ==
  \A n \in Node :
    /\ started[n] = closed[n] + Cardinality(OpenAt(n))
    /\ nodeState[n] = "RUNNING" => OpenAt(n) # {}

AccountInv == DedicatedFallbacks => PlaceInv /\ OpenInv

LEMMA InitAccountInv == Init => AccountInv
<1> SUFFICES ASSUME Init PROVE PlaceInv /\ OpenInv
  BY DEF AccountInv
<1>1. \A n \in Node : OpenAt(n) = {}
  BY DEF Init, OpenAt, AtWork
<1>. QED  BY <1>1, FS_EmptySet DEF Init, PlaceInv, OpenInv

LEMMA OpenType ==
  ASSUME NEW n
  PROVE  IsFiniteSet(OpenAt(n)) /\ Cardinality(OpenAt(n)) \in Nat
BY NodeAssumption, FS_Subset, FS_CardinalityType DEF OpenAt

LEMMA NextPlaceInv ==
  ASSUME TypeOK, LoopInv, DedicatedFallbacks, PlaceInv, [Next]_vars
  PROVE  PlaceInv'
<1> USE DEF TypeOK, state, loop, call, task, PlaceInv
<1>1. CASE Run \/ Cancel \/ UNCHANGED vars
  BY <1>1, GraphFixed DEF Run, Cancel, vars
<1>2. ASSUME NEW n \in Node, NEW v \in Output, Resume(n, v) PROVE PlaceInv'
  BY <1>2, GraphFixed DEF Resume
<1>3. CASE LoopStep
  <2>1. \A r \in Node : \/ pc'[r] = pc[r] /\ cur'[r] = cur[r]
                        \/ pc'[r] \in {"queued", "none"} /\ cur'[r] \in {cur[r], r}
    BY <1>3 DEF LoopStep, BeginWave, StopCancelled, Finish, EndWave, SaveState, SaveFails
  <2>. QED  BY <2>1, GraphFixed
<1>4. ASSUME NEW r \in Node, TaskStep(r) PROVE PlaceInv'
  <2>1. CASE StartFallback(r)
    <3>1. cur[r] = r
      BY <2>1, DedicatedFacts, NodeAssumption DEF StartFallback
    <3>. QED  BY <2>1, <3>1, GraphFixed DEF StartFallback
  <2>2. CASE BuildInput(r)
    <3>1. TransformRaises(cur[r]) => cur[r] = r
      BY DedicatedFacts, NodeAssumption
    <3>. QED  BY <2>2, <3>1, GraphFixed DEF BuildInput
  <2>3. CASE StartNode(r) \/ RetryLater(r) \/ Retry(r) \/ NoFallback(r)
    BY <2>3, GraphFixed DEF StartNode, RetryLater, Retry, NoFallback
  <2>4. CASE Skip(r) \/ FallbackRecordedDone(r) \/ Fails(r) \/ \E v \in Output : Succeeds(r, v)
    BY <2>4, GraphFixed DEF Skip, FallbackRecordedDone, Fails, Succeeds, Record
  <2>. QED  BY <1>4, <2>1, <2>2, <2>3, <2>4 DEF TaskStep
<1>. QED  BY <1>1, <1>2, <1>3, <1>4 DEF Next, Returned

\* Nothing is open outside a wave.
LEMMA IdleIsClosed ==
  TaskInv /\ phase # "wave" => \A n \in Node : OpenAt(n) = {}
BY DEF TaskInv, OpenAt, AtWork

\* Steps that open and close nothing and start no node.
LEMMA OpenKept ==
  ASSUME OpenInv, UNCHANGED <<started, closed>>,
         \A n \in Node : OpenAt(n)' = OpenAt(n),
         \A n \in Node : nodeState'[n] = "RUNNING" => nodeState[n] = "RUNNING"
  PROVE  OpenInv'
BY DEF OpenInv

LEMMA LoopStepOpenInv ==
  ASSUME TypeOK, TypeOK', LoopInv, TaskInv', PlaceInv, OpenInv, LoopStep
  PROVE  OpenInv'
<1> USE DEF TypeOK, state, loop, call, task
<1>1. CASE EndWave
  <2>1. \A n \in Node : OpenAt(n) = IF pc[n] = "raised" THEN {n} ELSE {}
    <3>1. \A r \in Node : pc[r] \in {"none", "ended", "raised"}
      BY <1>1 DEF EndWave, WaveOver, LoopInv, TaskInv
    <3>. QED  BY <3>1 DEF OpenAt, AtWork, PlaceInv
  <2>2. \A n \in Node : Cardinality(OpenAt(n)) = IF pc[n] = "raised" THEN 1 ELSE 0
    BY <2>1, FS_EmptySet, FS_Singleton
  <2>3. \A n \in Node : OpenAt(n)' = {}
    BY <1>1 DEF EndWave, OpenAt, AtWork
  <2>4. \A n \in Node : /\ closed'[n] = IF pc[n] = "raised" THEN closed[n] + 1 ELSE closed[n]
                        /\ nodeState'[n] = IF pc[n] = "raised" THEN "FAILED" ELSE nodeState[n]
                        /\ started'[n] = started[n]
    BY <1>1 DEF EndWave, LoopInv, TaskInv
  <2>5. \A n \in Node : started'[n] = closed'[n] + 0 /\ nodeState'[n] # "RUNNING"
    BY <2>1, <2>2, <2>4 DEF OpenInv
  <2>. QED  BY <2>3, <2>5, FS_EmptySet DEF OpenInv
<1>2. CASE BeginWave
  <2>1. \A n \in Node : OpenAt(n) = {} /\ OpenAt(n)' = {}
    BY <1>2, IdleIsClosed DEF BeginWave, LoopInv, OpenAt, AtWork
  <2>. QED  BY <1>2, <2>1, OpenKept DEF BeginWave
<1>3. CASE StopCancelled \/ Finish \/ SaveState \/ SaveFails
  <2>1. /\ UNCHANGED <<started, closed, pc, cur>>
        /\ \A n \in Node : nodeState'[n] = "RUNNING" => nodeState[n] = "RUNNING"
    BY <1>3 DEF StopCancelled, Finish, SaveState, SaveFails
  <2>2. \A n \in Node : OpenAt(n)' = OpenAt(n)
    BY <2>1 DEF OpenAt
  <2>. QED  BY <2>1, <2>2, OpenKept
<1>. QED  BY <1>1, <1>2, <1>3 DEF LoopStep

LEMMA TaskStepOpenInv ==
  ASSUME TypeOK, TypeOK', LoopInv, DedicatedFallbacks, PlaceInv, OpenInv,
         NEW r \in Node, TaskStep(r)
  PROVE  OpenInv'
<1> USE DEF TypeOK, state, loop, call, task
<1>1. CASE StartNode(r)
  <2>1. /\ cur[r] = r /\ pc[r] = "queued" /\ pc' = [pc EXCEPT ![r] = "started"] /\ cur' = cur
        /\ started' = [started EXCEPT ![r] = @ + 1] /\ closed' = closed
        /\ nodeState' = [nodeState EXCEPT ![r] = "RUNNING"]
    BY <1>1 DEF StartNode, LoopInv, TaskInv
  <2>2. OpenAt(r)' = OpenAt(r) \cup {r} /\ r \notin OpenAt(r)
    BY <2>1 DEF OpenAt, AtWork
  <2>3. \A n \in Node : n # r => OpenAt(n)' = OpenAt(n)
    BY <2>1 DEF OpenAt, AtWork
  <2>4. Cardinality(OpenAt(r)') = Cardinality(OpenAt(r)) + 1
    <3>1. IsFiniteSet(OpenAt(r))
      BY OpenType
    <3>2. Cardinality(OpenAt(r) \cup {r}) = Cardinality(OpenAt(r)) + 1
      BY <2>2, <3>1, FS_AddElement
    <3>. QED  BY <2>2, <3>2
  <2>5. \A n \in Node : Cardinality(OpenAt(n)) \in Nat
    BY OpenType
  <2>6. started'[r] = closed'[r] + Cardinality(OpenAt(r)')
    BY <2>1, <2>4, <2>5 DEF OpenInv
  <2>7. \A n \in Node : n # r => started'[n] = closed'[n] + Cardinality(OpenAt(n)')
    BY <2>1, <2>3 DEF OpenInv
  <2>8. \A n \in Node : nodeState'[n] = "RUNNING" => OpenAt(n)' # {}
    BY <2>1, <2>2, <2>3 DEF OpenInv
  <2>. QED  BY <2>6, <2>7, <2>8 DEF OpenInv
<1>2. CASE BuildInput(r) \/ RetryLater(r) \/ Retry(r) \/ NoFallback(r)
  <2>1. /\ UNCHANGED <<started, closed, cur, nodeState>>
        /\ \E next \in TaskPc :
             pc' = [pc EXCEPT ![r] = next] /\ (next \in AtWork <=> pc[r] \in AtWork)
    BY <1>2 DEF BuildInput, RetryLater, Retry, NoFallback, AtWork, TaskPc
  <2>2. \A n \in Node : OpenAt(n)' = OpenAt(n)
    BY <2>1 DEF OpenAt
  <2>. QED  BY <2>1, <2>2, OpenKept
<1>3. CASE Skip(r) \/ FallbackRecordedDone(r) \/ Fails(r) \/ \E v \in Output : Succeeds(r, v)
  <2>1. PICK m \in Node :
        /\ pc[r] = "executing" /\ m = cur[r] /\ cur' = cur /\ started' = started
        /\ closed' = [closed EXCEPT ![m] = @ + 1]
        /\ \E next \in {"ended", "failed"} : pc' = [pc EXCEPT ![r] = next]
        /\ \E st \in {"DONE", "SKIPPED", "FAILED"} : nodeState' = [nodeState EXCEPT ![m] = st]
    BY <1>3 DEF Skip, FallbackRecordedDone, Fails, Succeeds, Record
  <2>2. OpenAt(m)' = OpenAt(m) \ {r} /\ r \in OpenAt(m)
    BY <2>1 DEF OpenAt, AtWork
  <2>3. \A n \in Node : n # m => OpenAt(n)' = OpenAt(n)
    BY <2>1 DEF OpenAt, AtWork
  <2>4. Cardinality(OpenAt(m)') = Cardinality(OpenAt(m)) - 1
    BY <2>2, OpenType, FS_RemoveElement
  <2>5. \A n \in Node : Cardinality(OpenAt(n)) \in Nat
    BY OpenType
  <2>6. started'[m] = closed'[m] + Cardinality(OpenAt(m)')
    BY <2>1, <2>4, <2>5 DEF OpenInv
  <2>7. \A n \in Node : n # m => started'[n] = closed'[n] + Cardinality(OpenAt(n)')
    BY <2>1, <2>3 DEF OpenInv
  <2>8. \A n \in Node : nodeState'[n] = "RUNNING" => OpenAt(n)' # {}
    BY <2>1, <2>3 DEF OpenInv
  <2>. QED  BY <2>6, <2>7, <2>8 DEF OpenInv
<1>4. CASE StartFallback(r)
  <2>1. PICK f \in Node :
        /\ pc[r] = "failed" /\ pc' = [pc EXCEPT ![r] = "started"]
        /\ cur' = [cur EXCEPT ![r] = f] /\ closed' = closed
        /\ started' = [started EXCEPT ![f] = @ + 1]
        /\ nodeState' = [nodeState EXCEPT ![cur[r]] = "SKIPPED", ![f] = "RUNNING"]
    BY <1>4, DedicatedFacts DEF StartFallback
  <2>2. OpenAt(f)' = OpenAt(f) \cup {r} /\ r \notin OpenAt(f)
    BY <2>1 DEF OpenAt, AtWork
  <2>3. \A n \in Node : n # f => OpenAt(n)' = OpenAt(n)
    BY <2>1 DEF OpenAt, AtWork
  <2>4. Cardinality(OpenAt(f)') = Cardinality(OpenAt(f)) + 1
    <3>1. IsFiniteSet(OpenAt(f))
      BY OpenType
    <3>2. Cardinality(OpenAt(f) \cup {r}) = Cardinality(OpenAt(f)) + 1
      BY <2>2, <3>1, FS_AddElement
    <3>. QED  BY <2>2, <3>2
  <2>5. \A n \in Node : Cardinality(OpenAt(n)) \in Nat
    BY OpenType
  <2>6. started'[f] = closed'[f] + Cardinality(OpenAt(f)')
    BY <2>1, <2>4, <2>5 DEF OpenInv
  <2>7. \A n \in Node : n # f => started'[n] = closed'[n] + Cardinality(OpenAt(n)')
    BY <2>1, <2>3 DEF OpenInv
  <2>8. \A n \in Node : nodeState'[n] = "RUNNING" => OpenAt(n)' # {}
    BY <2>1, <2>2, <2>3 DEF OpenInv
  <2>. QED  BY <2>6, <2>7, <2>8 DEF OpenInv
<1>. QED  BY <1>1, <1>2, <1>3, <1>4 DEF TaskStep

LEMMA NextAccountInv ==
  ASSUME TypeOK, TypeOK', LoopInv, TaskInv', AccountInv, [Next]_vars
  PROVE  AccountInv'
<1>1. DedicatedFallbacks' <=> DedicatedFallbacks
  BY GraphFixed DEF DedicatedFallbacks, HasIncoming, Incoming
<1> SUFFICES ASSUME DedicatedFallbacks PROVE (PlaceInv /\ OpenInv)'
  BY <1>1 DEF AccountInv
<1>2. PlaceInv /\ OpenInv
  BY DEF AccountInv
<1>3. PlaceInv'
  BY <1>2, NextPlaceInv
<1>4. CASE Run \/ Cancel \/ UNCHANGED vars
  <2>1. UNCHANGED <<started, closed, pc, cur, nodeState>>
    BY <1>4 DEF Run, Cancel, vars, task, state
  <2>2. \A n \in Node : OpenAt(n)' = OpenAt(n)
    BY <2>1 DEF OpenAt
  <2>. QED  BY <1>2, <1>3, <2>1, <2>2, OpenKept
<1>5. ASSUME NEW n \in Node, NEW v \in Output, Resume(n, v) PROVE OpenInv'
  <2>1. /\ UNCHANGED <<started, closed, pc, cur>>
        /\ \A m \in Node : nodeState'[m] = "RUNNING" => nodeState[m] = "RUNNING"
    BY <1>5 DEF Resume, task, TypeOK
  <2>2. \A m \in Node : OpenAt(m)' = OpenAt(m)
    BY <2>1 DEF OpenAt
  <2>. QED  BY <1>2, <2>1, <2>2, OpenKept
<1>. QED
  BY <1>2, <1>3, <1>4, <1>5, LoopStepOpenInv, TaskStepOpenInv DEF Next, Returned

\* As long as run() is at it, a node is PENDING until it is started, and no
\* node is cancelled.
BeganInv ==
  /\ \A r \in Node : pc[r] \notin {"none", "queued"} => nodeState[cur[r]] # "PENDING"
  /\ mode = "run" /\ phase # "finished" =>
       \A n \in Node : /\ nodeState[n] # "CANCELLED"
                       /\ nodeState[n] = "PENDING" <=> started[n] = 0

LEMMA InitBeganInv == Init => BeganInv
BY DEF Init, BeganInv

LEMMA NextBeganInv ==
  ASSUME TypeOK, TypeOK', LoopInv, TaskInv', BeganInv, [Next]_vars
  PROVE  BeganInv'
<1> USE DEF TypeOK, state, loop, call, task, BeganInv
<1>1. CASE Run \/ Cancel \/ UNCHANGED vars
  BY <1>1 DEF Run, Cancel, vars
<1>2. ASSUME NEW n \in Node, NEW v \in Output, Resume(n, v) PROVE BeganInv'
  BY <1>2 DEF Resume
<1>3. CASE LoopStep
  <2>1. CASE BeginWave
    BY <2>1 DEF BeginWave
  <2>2. CASE StopCancelled
    <3>1. \A r \in Node : pc'[r] = "none"
      BY <2>2 DEF StopCancelled, LoopInv, TaskInv
    <3>. QED  BY <2>2, <3>1 DEF StopCancelled, Return
  <2>3. CASE Finish \/ SaveState \/ SaveFails
    BY <2>3 DEF Finish, SaveState, SaveFails, Return, Abort
  <2>4. CASE EndWave
    <3>1. \A n \in Node : /\ started'[n] = started[n] /\ pc'[n] = "none"
                          /\ \/ nodeState'[n] = nodeState[n]
                             \/ nodeState'[n] = "FAILED" /\ pc[n] = "raised"
      BY <2>4 DEF EndWave
    <3>2. \A n \in Node : pc[n] = "raised" => nodeState[n] # "PENDING"
      BY DEF LoopInv, TaskInv
    <3>3. mode' = "run" /\ phase' # "finished" => mode = "run" /\ phase # "finished"
      BY <2>4 DEF EndWave, Abort
    <3>. QED  BY <3>1, <3>2, <3>3
  <2>. QED  BY <1>3, <2>1, <2>2, <2>3, <2>4 DEF LoopStep
<1>4. ASSUME NEW r \in Node, TaskStep(r) PROVE BeganInv'
  <2>0. mode' = mode /\ phase' = phase
    BY <1>4 DEF TaskStep, StartNode, BuildInput, Succeeds, RetryLater, Retry, Skip,
                FallbackRecordedDone, Fails, NoFallback, StartFallback, Record
  <2>1. CASE StartNode(r)
    BY <2>0, <2>1 DEF StartNode, LoopInv, TaskInv
  <2>2. CASE BuildInput(r) \/ RetryLater(r) \/ Retry(r) \/ NoFallback(r)
    BY <2>0, <2>2 DEF BuildInput, RetryLater, Retry, NoFallback
  <2>3. CASE Skip(r) \/ FallbackRecordedDone(r) \/ Fails(r) \/ \E v \in Output : Succeeds(r, v)
    BY <2>0, <2>3 DEF Skip, FallbackRecordedDone, Fails, Succeeds, Record
  <2>4. CASE StartFallback(r)
    BY <2>0, <2>4, FallbackType DEF StartFallback
  <2>. QED  BY <1>4, <2>1, <2>2, <2>3, <2>4 DEF TaskStep
<1>. QED  BY <1>1, <1>2, <1>3, <1>4 DEF Next, Returned

\* Between two waves no node is running.
LEMMA NobodyRuns ==
  ASSUME LoopInv, AccountInv, DedicatedFallbacks, phase # "wave"
  PROVE  \A n \in Node : nodeState[n] # "RUNNING" /\ Cardinality(OpenAt(n)) = 0
BY IdleIsClosed, FS_EmptySet DEF LoopInv, AccountInv, OpenInv

LEMMA NextCancelCut ==
  ASSUME TypeOK, LoopInv, AccountInv, BeganInv, CancelCutsCleanly, [Next]_vars
  PROVE  CancelCutsCleanly'
<1> SUFFICES ASSUME DedicatedFallbacks,
                    phase' = "finished", mode' = "run", result'.kind = "cancelled"
             PROVE  /\ \A n \in Node : nodeState'[n] = "CANCELLED" <=> started'[n] = 0
                    /\ frontier' # {} /\ \A n \in frontier' : nodeState'[n] = "CANCELLED"
                    /\ \A n \in Node : nodeState'[n] # "RUNNING"
  <2>1. DedicatedFallbacks' <=> DedicatedFallbacks
    BY GraphFixed DEF DedicatedFallbacks, HasIncoming, Incoming
  <2>. QED  BY <2>1 DEF CancelCutsCleanly
<1> USE DEF TypeOK, state, loop, call, task
<1>1. CASE StopCancelled
  <2>1. /\ phase = "loop" /\ mode = "run" /\ frontier # {}
        /\ frontier' = frontier /\ started' = started
        /\ \A n \in Node : nodeState'[n] =
             IF nodeState[n] \in {"RUNNING", "PENDING"} THEN "CANCELLED" ELSE nodeState[n]
    BY <1>1 DEF StopCancelled, Return, LoopGoesOn
  <2>2. \A n \in Node : nodeState[n] # "RUNNING"
    BY <2>1, NobodyRuns
  <2>3. \A n \in Node : nodeState[n] # "CANCELLED" /\ (nodeState[n] = "PENDING" <=> started[n] = 0)
    BY <2>1 DEF BeganInv
  <2>4. \A n \in frontier : nodeState[n] = "PENDING"
    BY <2>1 DEF LoopInv, TurnInv, FreshFrontier
  <2>. QED  BY <2>1, <2>2, <2>3, <2>4
<1>2. CASE Cancel \/ UNCHANGED vars
  BY <1>2 DEF Cancel, vars, CancelCutsCleanly
<1>3. CASE Run \/ BeginWave \/ SaveState
  BY <1>3 DEF Run, BeginWave, SaveState
<1>4. CASE Finish \/ EndWave \/ SaveFails
  BY <1>4 DEF Finish, EndWave, AfterWave, SaveFails, Return, Abort, Aborted
<1>5. ASSUME NEW n \in Node, NEW v \in Output, Resume(n, v) PROVE FALSE
  BY <1>5 DEF Resume
<1>6. ASSUME NEW r \in Node, TaskStep(r) PROVE FALSE
  <2>1. phase' = phase /\ pc[r] # "none"
    BY <1>6 DEF TaskStep, StartNode, BuildInput, Succeeds, RetryLater, Retry, Skip,
                FallbackRecordedDone, Fails, NoFallback, StartFallback, Record
  <2>. QED  BY <2>1 DEF LoopInv, TaskInv
<1>. QED  BY <1>1, <1>2, <1>3, <1>4, <1>5, <1>6 DEF Next, LoopStep, Returned

\* A node that is saved as ended is never touched again: no task is at it.
KeptInv ==
  /\ mode = "run" => forced = {}
  /\ ExclusiveFallbacks /\ mode = "run" /\ saved # None =>
       \A n \in Node : saved.states[n] # "PENDING" =>
         /\ saved.states[n] \in {"DONE", "SKIPPED", "FAILED"}
         /\ nodeState[n] = saved.states[n]
         /\ nodeOutput[n] = saved.outputs[n]
         /\ n \in nodeErrors <=> n \in saved.errors
         /\ \A r \in Node : pc[r] # "none" => r # n /\ cur[r] # n

\* Whenever the loop turns, the last wave is in the store.
StoreInv ==
  /\ HasStore /\ phase = "loop" /\ iteration > 0 => saved = Snapshot
  /\ SavedIsComplete

LEMMA InitKeptInv == Init => KeptInv /\ StoreInv
BY DEF Init, KeptInv, StoreInv, SavedIsComplete, RanAWave, NoVerdict

\* A step that stays in run(), saves nothing and changes only nodes that are
\* saved as PENDING keeps the invariant.
LEMMA KeptStep ==
  ASSUME TypeOK, TypeOK', KeptInv, [Next]_vars, saved' = saved, mode' = mode, forced' = forced,
         \A n \in Node :
           (\A r \in Node : pc[r] # "none" => r # n /\ cur[r] # n) /\ nodeState[n] \notin {"PENDING", "RUNNING"} =>
             /\ nodeState'[n] = nodeState[n] /\ nodeOutput'[n] = nodeOutput[n]
             /\ n \in nodeErrors' <=> n \in nodeErrors
             /\ \A r \in Node : pc'[r] # "none" => r # n /\ cur'[r] # n
  PROVE  KeptInv'
<1>1. ExclusiveFallbacks' <=> ExclusiveFallbacks
  BY GraphFixed
<1>. SUFFICES ASSUME ExclusiveFallbacks, mode = "run", saved # None,
                     NEW n \in Node, saved.states[n] # "PENDING"
              PROVE  /\ saved.states[n] \in {"DONE", "SKIPPED", "FAILED"}
                     /\ nodeState'[n] = saved.states[n]
                     /\ nodeOutput'[n] = saved.outputs[n]
                     /\ n \in nodeErrors' <=> n \in saved.errors
                     /\ \A r \in Node : pc'[r] # "none" => r # n /\ cur'[r] # n
  BY <1>1 DEF KeptInv
<1>2. /\ saved.states[n] \in {"DONE", "SKIPPED", "FAILED"}
      /\ nodeState[n] = saved.states[n]
      /\ nodeOutput[n] = saved.outputs[n]
      /\ n \in nodeErrors <=> n \in saved.errors
      /\ \A r \in Node : pc[r] # "none" => r # n /\ cur[r] # n
  BY DEF KeptInv
<1>. QED  BY <1>2

LEMMA TaskStepKeptInv ==
  ASSUME TypeOK, TypeOK', LoopInv, CauseInv, KeptInv, [Next]_vars,
         NEW r \in Node, TaskStep(r)
  PROVE  KeptInv'
<1>. USE DEF TypeOK, state, loop, call, task
<1>1. /\ pc[r] # "none" /\ cur[r] \in Node
      /\ saved' = saved /\ mode' = mode /\ forced' = forced
  BY DEF TaskStep, StartNode, BuildInput, Succeeds, RetryLater, Retry, Skip,
         FallbackRecordedDone, Fails, NoFallback, StartFallback, Record
<1>2. CASE StartNode(r)
  <2>1. /\ nodeState' = [nodeState EXCEPT ![r] = "RUNNING"]
        /\ UNCHANGED <<nodeOutput, nodeErrors, cur>>
        /\ \A m \in Node : pc'[m] # "none" => pc[m] # "none"
    BY <1>1, <1>2 DEF StartNode
  <2>. QED  BY <1>1, <2>1, KeptStep
<1>3. CASE BuildInput(r) \/ RetryLater(r) \/ Retry(r) \/ NoFallback(r)
  <2>1. /\ UNCHANGED <<nodeState, nodeOutput, nodeErrors, cur>>
        /\ \A m \in Node : pc'[m] # "none" => pc[m] # "none"
    BY <1>1, <1>3 DEF BuildInput, RetryLater, Retry, NoFallback
  <2>. QED  BY <1>1, <2>1, KeptStep
<1>4. CASE Skip(r) \/ FallbackRecordedDone(r) \/ Fails(r) \/ \E v \in Output : Succeeds(r, v)
  <2>1. /\ cur' = cur
        /\ \A n \in Node : n # cur[r] =>
             /\ nodeState'[n] = nodeState[n] /\ nodeOutput'[n] = nodeOutput[n]
             /\ n \in nodeErrors' <=> n \in nodeErrors
        /\ \A m \in Node : pc'[m] # "none" => pc[m] # "none"
    BY <1>1, <1>4 DEF Skip, FallbackRecordedDone, Fails, Succeeds, Record
  <2>. QED  BY <1>1, <2>1, KeptStep
<1>5. CASE StartFallback(r)
  <2>. SUFFICES ASSUME ExclusiveFallbacks, mode = "run" PROVE KeptInv'
    BY <1>1, GraphFixed DEF KeptInv
  <2>0. PositionInv /\ FallbackInv
    BY DEF CauseInv
  <2>1. PICK f \in Node :
          /\ f = FallbackOf(cur[r]) /\ pc[r] = "failed" /\ cur[r] \in {r, FallbackOf(r)}
          /\ nodeState' = [nodeState EXCEPT ![cur[r]] = "SKIPPED", ![f] = "RUNNING"]
          /\ UNCHANGED <<nodeOutput, nodeErrors>>
          /\ cur' = [cur EXCEPT ![r] = f]
          /\ \A m \in Node : pc'[m] # "none" => pc[m] # "none"
    BY <1>1, <1>5, <2>0, FallbackType DEF StartFallback, PositionInv
  <2>2. cur[r] = r
    BY <2>1, ExclusiveFacts, NodeAssumption
  <2>3. nodeState[f] = "PENDING"
    BY <2>0, <2>1, <2>2, NodeAssumption DEF FallbackInv, MayStillFail, KeptInv
  <2>. QED  BY <1>1, <2>1, <2>3, KeptStep
<1>. QED  BY <1>2, <1>3, <1>4, <1>5 DEF TaskStep

LEMMA NextKeptInv ==
  ASSUME TypeOK, TypeOK', LoopInv, CauseInv, AccountInv, BeganInv, KeptInv, [Next]_vars
  PROVE  KeptInv'
<1>. USE DEF TypeOK, state, loop, call, task
<1>1. CASE Run \/ Cancel \/ UNCHANGED vars
  <2>1. /\ UNCHANGED <<saved, mode, forced, nodeState, nodeOutput, nodeErrors, pc, cur>>
    BY <1>1 DEF Run, Cancel, vars
  <2>. QED  BY <2>1, KeptStep
<1>2. ASSUME NEW n \in Node, NEW v \in Output, Resume(n, v) PROVE KeptInv'
  BY <1>2 DEF Resume, KeptInv
<1>3. CASE LoopStep
  <2>1. CASE BeginWave
    <3>1. /\ UNCHANGED <<saved, mode, forced, nodeState, nodeOutput, nodeErrors, cur>>
          /\ \A n \in Node : cur[n] = n /\ (pc'[n] # "none" => nodeState[n] = "PENDING")
      BY <2>1 DEF BeginWave, LoopInv, TaskInv, TurnInv, FreshFrontier
    <3>. QED  BY <3>1, KeptStep
  <2>2. CASE StopCancelled
    <3>1. /\ UNCHANGED <<saved, mode, forced, nodeOutput, nodeErrors, pc, cur>>
          /\ \A n \in Node : nodeState[n] \notin {"PENDING", "RUNNING"} => nodeState'[n] = nodeState[n]
      BY <2>2 DEF StopCancelled, Return
    <3>. QED  BY <3>1, KeptStep
  <2>3. CASE Finish \/ SaveFails
    <3>1. /\ UNCHANGED <<saved, mode, forced, nodeState, nodeOutput, nodeErrors, pc, cur>>
      BY <2>3 DEF Finish, SaveFails, Return, Abort
    <3>. QED  BY <3>1, KeptStep
  <2>4. CASE EndWave
    <3>1. /\ UNCHANGED <<saved, mode, forced, nodeOutput>>
          /\ \A n \in Node : /\ pc'[n] = "none"
                             /\ pc[n] = "none" => /\ nodeState'[n] = nodeState[n]
                                                  /\ n \in nodeErrors' <=> n \in nodeErrors
      BY <2>4 DEF EndWave, Abort
    <3>. QED  BY <3>1, KeptStep
  <2>5. CASE SaveState
    <3>0. ExclusiveFallbacks' <=> ExclusiveFallbacks
      BY GraphFixed
    <3>1. /\ UNCHANGED <<mode, forced, nodeState, nodeOutput, nodeErrors, pc, cur>>
          /\ saved' = Snapshot /\ phase = "save"
          /\ \A n \in Node : pc[n] = "none"
      BY <2>5 DEF SaveState, LoopInv, TaskInv
    <3>2. /\ saved'.states = nodeState /\ saved'.outputs = nodeOutput /\ saved'.errors = nodeErrors
      BY <3>1 DEF Snapshot
    <3>3. ASSUME ExclusiveFallbacks, mode = "run", NEW n \in Node
          PROVE  nodeState[n] \in {"PENDING", "DONE", "SKIPPED", "FAILED"}
      <4>1. nodeState[n] # "RUNNING"
        BY <3>1, <3>3, NobodyRuns DEF ExclusiveFallbacks
      <4>2. nodeState[n] # "CANCELLED"
        BY <3>1, <3>3 DEF BeganInv
      <4>. QED  BY <4>1, <4>2 DEF NodeState
    <3>. QED  BY <3>0, <3>1, <3>2, <3>3 DEF KeptInv
  <2>. QED  BY <1>3, <2>1, <2>2, <2>3, <2>4, <2>5 DEF LoopStep
<1>. QED  BY <1>1, <1>2, <1>3, TaskStepKeptInv DEF Next, Returned

LEMMA SnapshotIsSaved ==
  ASSUME TypeOK, saved = Snapshot
  PROVE  /\ saved # None /\ saved.outputs = nodeOutput
         /\ saved.errors = nodeErrors /\ saved.states = nodeState
<1>1. Snapshot \in StateDict
  BY DEF Snapshot, StateDict, TypeOK
<1>. QED  BY <1>1, NoneAssumption DEF Snapshot

LEMMA NextStoreInv ==
  ASSUME TypeOK, TypeOK', LoopInv, StoreInv, [Next]_vars
  PROVE  StoreInv'
<1>. USE DEF TypeOK, state, loop, call, task
<1>1. CASE Run
  BY <1>1 DEF Run, StoreInv, SavedIsComplete, LoopInv, TurnInv
<1>2. CASE Cancel \/ UNCHANGED vars
  BY <1>2 DEF Cancel, vars, StoreInv, SavedIsComplete, RanAWave, Snapshot
<1>3. ASSUME NEW n \in Node, NEW v \in Output, Resume(n, v) PROVE StoreInv'
  <2>1. /\ iteration' = 0
        /\ phase' = "loop" \/ (phase' = "finished" /\ result' = Aborted)
    BY <1>3 DEF Resume
  <2>. QED  BY <2>1 DEF StoreInv, SavedIsComplete, Aborted
<1>4. CASE BeginWave \/ EndWave
  <2>1. phase' = "finished" => result' = Aborted
    BY <1>4 DEF BeginWave, EndWave, Abort, AfterWave
  <2>2. phase' = "loop" => ~HasStore
    BY <1>4 DEF BeginWave, EndWave, Abort, AfterWave
  <2>. QED  BY <2>1, <2>2 DEF StoreInv, SavedIsComplete, Aborted
<1>5. CASE SaveState
  BY <1>5 DEF SaveState, StoreInv, SavedIsComplete, Snapshot
<1>6. CASE SaveFails
  BY <1>6 DEF SaveFails, Abort, Aborted, StoreInv, SavedIsComplete
<1>7. CASE Finish
  <2>1. /\ phase = "loop" /\ phase' = "finished" /\ result'.kind = "completed"
        /\ UNCHANGED <<nodeState, nodeOutput, nodeErrors, saved, iteration>>
    BY <1>7 DEF Finish, Return
  <2>2. HasStore /\ iteration > 0 => saved = Snapshot
    BY <2>1 DEF StoreInv
  <2>3. saved = Snapshot => /\ saved # None /\ saved.outputs = nodeOutput
                            /\ saved.errors = nodeErrors /\ saved.states = nodeState
    BY SnapshotIsSaved
  <2>. QED  BY <2>1, <2>2, <2>3 DEF StoreInv, SavedIsComplete, RanAWave
<1>8. CASE StopCancelled
  <2>1. /\ phase = "loop" /\ phase' = "finished" /\ result'.kind = "cancelled"
        /\ UNCHANGED <<nodeOutput, nodeErrors, saved>> /\ iteration' = iteration + 1
        /\ \A n \in Node : nodeState'[n] # nodeState[n] => nodeState'[n] = "CANCELLED"
    BY <1>8 DEF StopCancelled, Return
  <2>2. HasStore /\ iteration > 0 => saved = Snapshot
    BY <2>1 DEF StoreInv
  <2>3. saved = Snapshot => /\ saved # None /\ saved.outputs = nodeOutput
                            /\ saved.errors = nodeErrors /\ saved.states = nodeState
    BY SnapshotIsSaved
  <2>. QED  BY <2>1, <2>2, <2>3 DEF StoreInv, SavedIsComplete, RanAWave
<1>9. ASSUME NEW r \in Node, TaskStep(r) PROVE StoreInv'
  <2>1. phase' = phase /\ pc[r] # "none"
    BY <1>9 DEF TaskStep, StartNode, BuildInput, Succeeds, RetryLater, Retry, Skip,
                FallbackRecordedDone, Fails, NoFallback, StartFallback, Record
  <2>2. phase = "wave"
    BY <2>1 DEF LoopInv, TaskInv
  <2>. QED  BY <2>1, <2>2 DEF StoreInv, SavedIsComplete
<1>. QED
  BY <1>1, <1>2, <1>3, <1>4, <1>5, <1>6, <1>7, <1>8, <1>9 DEF Next, LoopStep, Returned

LEMMA FullInvariant ==
  Spec => [](TypeOK /\ LoopInv /\ CauseInv /\ AccountInv /\ BeganInv /\ CancelCutsCleanly
            /\ KeptInv /\ StoreInv)
<1> DEFINE Books == TypeOK /\ LoopInv /\ CauseInv /\ AccountInv /\ BeganInv
<1>1. Init => Books /\ CancelCutsCleanly /\ KeptInv /\ StoreInv
  <2>1. Init => CancelCutsCleanly /\ KeptInv /\ StoreInv
    BY InitKeptInv DEF Init, CancelCutsCleanly
  <2>. QED
    BY <2>1, InitTypeOK, InitLoopInv, InitCauseInv, InitAccountInv, InitBeganInv
<1>2. Books /\ [Next]_vars => Books'
  BY NextTypeOK, NextTaskInv, NextTurnInv, NextCauseInv, NextAccountInv, NextBeganInv DEF LoopInv
<1>3. Books /\ CancelCutsCleanly /\ [Next]_vars => CancelCutsCleanly'
  BY NextCancelCut
<1>4. Books /\ KeptInv /\ StoreInv /\ [Next]_vars => KeptInv' /\ StoreInv'
  BY <1>2, NextKeptInv, NextStoreInv
<1>. QED  BY <1>1, <1>2, <1>3, <1>4, PTL DEF Spec

\* When a run is over, however it ended, no node is left half done and every
\* NodeStarted has been answered by one NodeCompleted or NodeFailed.
THEOREM RunIsClosed == Spec => []NothingLeftOpen
<1>1. TypeOK /\ LoopInv /\ AccountInv => NothingLeftOpen
  <2> SUFFICES ASSUME TypeOK, LoopInv, AccountInv, phase = "finished", DedicatedFallbacks
               PROVE  (\A n \in Node : nodeState[n] # "RUNNING") /\ started = closed
    BY DEF NothingLeftOpen
  <2>1. \A n \in Node : nodeState[n] # "RUNNING" /\ Cardinality(OpenAt(n)) = 0
    BY NobodyRuns
  <2>2. \A n \in Node : started[n] = closed[n]
    BY <2>1 DEF AccountInv, OpenInv, TypeOK
  <2>. QED  BY <2>1, <2>2 DEF TypeOK
<1>. QED  BY <1>1, FullInvariant, PTL

\* A cancelled run lets what is on its way finish and marks exactly the nodes
\* that never began.
THEOREM CancelIsClean == Spec => []CancelCutsCleanly
BY FullInvariant, PTL

\* What the StateStore holds stays true as long as run() goes on, and it is all
\* that a call that returned has done, cancellation aside.
THEOREM SavedIsTrue == Spec => []StoreIsRight
<1>1. KeptInv => SavedStaysTrue
  BY DEF KeptInv, SavedStaysTrue
<1>2. StoreInv => SavedIsComplete
  BY DEF StoreInv
<1>. QED  BY <1>1, <1>2, FullInvariant, PTL DEF StoreIsRight
=============================================================================
