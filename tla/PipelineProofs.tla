--------------------------- MODULE PipelineProofs ---------------------------
(***************************************************************************)
(* What holds of a runtime's event queue, of its compensations and of the  *)
(* books its middlewares keep, for every number of calls, every chain of   *)
(* nodes and every bound of the module Pipeline.                           *)
(*                                                                         *)
(* FeedInv: what was emitted and not yet yielded is in the queue, in the   *)
(* order in which it was emitted, so the head of the queue is the event    *)
(* the Feed hands out next; a stream is opened once only, because its call *)
(* is idle before.  UndoInv: how far CompensationNode is in a list that    *)
(* add_action() moves under it.  BookInv: what each middleware has yet to  *)
(* write down of the node a call is at.  StoryInv: what a call that is     *)
(* alone on its runtime has told so far.                                   *)
(***************************************************************************)
EXTENDS Pipeline, Integers, FiniteSetTheorems, TLAPS

Taken == [event : Event, by : Call]

FeedType ==
  /\ scenario \in Scenarios
  /\ pc \in [Call -> {"idle", "start", "before", "body", "asking", "looping", "undoing",
                      "after", "close", "wave", "finish", "returned"}]
  /\ at \in [Call -> Nat]
  /\ sent \in Seq(Event)
  /\ queue \in Seq(Event)
  /\ taken \in Seq(Taken)
  /\ consumer \in [Call -> {"none", "reading", "left", "ended"}]

Backlog ==
  /\ Len(sent) = Len(taken) + Len(queue)
  /\ \A k \in 1..Len(queue) : queue[k] = sent[Len(taken) + k]

Unread == \A c \in Call : pc[c] = "idle" => consumer[c] = "none"

FeedInv == FeedType /\ Backlog /\ Unread

\* What a step does to the events and their readers.
Opens(c)  == /\ pc[c] = "idle"
             /\ consumer' = [consumer EXCEPT ![c] = "reading"]
             /\ UNCHANGED <<sent, queue, taken>>
Emits(c)  == \E type \in {"NodeStarted", "NodeCompleted", "NodeFailed", "GraphCompleted"} :
               Emit(c, type)
FeedStep  == \/ UNCHANGED feed
             \/ \E c \in Call : Opens(c) \/ Emits(c) \/ Take(c) \/ Leave(c) \/ EndStream(c)

\* What it does to the coroutines.
NobodyGoesIdle == \A c \in Call : pc'[c] = "idle" => pc[c] = "idle" /\ consumer'[c] = consumer[c]

PlaceType == pc' \in [Call -> {"idle", "start", "before", "body", "asking", "looping", "undoing",
                               "after", "close", "wave", "finish", "returned"}]
             /\ at' \in [Call -> Nat] /\ scenario' = scenario

-----------------------------------------------------------------------------
\* The end of node.execute() moves the coroutine on, and nothing else here.
LEMMA ConcludeKeeps ==
  ASSUME FeedType, NEW c \in Call, NEW o, Conclude(c, o), scenario' = scenario, UNCHANGED feed
  PROVE  FeedStep /\ PlaceType /\ NobodyGoesIdle
<1>1. UNCHANGED at /\ pc' \in {[pc EXCEPT ![c] = p] : p \in {"body", "after", "close"}}
  BY DEF Conclude, TryAgain, Succeed, Skip, FallBack, Fail, Settle
<1>2. QED
  BY <1>1 DEF FeedStep, PlaceType, NobodyGoesIdle, FeedType, feed

LEMMA WorkKeeps ==
  ASSUME FeedType, Unread, NEW c \in Call, Work(c)
  PROVE  FeedStep /\ PlaceType /\ NobodyGoesIdle
<1> USE DEF FeedType, FeedStep, PlaceType, NobodyGoesIdle, Emits, Emit, Goto, feed, node,
            state, bodies, meters
<1>1. CASE StartNode(c)  BY <1>1 DEF StartNode
<1>2. CASE BeforeNode(c)  BY <1>2 DEF BeforeNode
<1>3. CASE Execute(c)  BY <1>3, ConcludeKeeps DEF Execute
<1>4. CASE EmitTask(c)  BY <1>4 DEF EmitTask
<1>5. CASE GetTask(c)  BY <1>5, ConcludeKeeps DEF GetTask
<1>6. CASE QueueRaises(c)  BY <1>6, ConcludeKeeps DEF QueueRaises
<1>7. CASE BeginLoop(c)  BY <1>7 DEF BeginLoop
<1>8. CASE LoopRound(c)  BY <1>8, ConcludeKeeps DEF LoopRound
<1>9. CASE BeginUndo(c)  BY <1>9 DEF BeginUndo
<1>10. CASE UndoNext(c)  BY <1>10 DEF UndoNext
<1>11. CASE EndUndo(c)  BY <1>11, ConcludeKeeps DEF EndUndo
<1>12. CASE AfterNode(c)  BY <1>12 DEF AfterNode
<1>13. CASE CloseNode(c)  BY <1>13 DEF CloseNode
<1>14. CASE NextNode(c)  BY <1>14 DEF NextNode
<1>15. CASE NothingReady(c)  BY <1>15 DEF NothingReady
<1>16. CASE ConditionRaises(c)  BY <1>16 DEF ConditionRaises
<1>17. CASE Finish(c)  BY <1>17 DEF Finish
<1>18. CASE TransformRaises(c)  BY <1>18 DEF TransformRaises
<1>19. QED
  BY <1>1, <1>2, <1>3, <1>4, <1>5, <1>6, <1>7, <1>8, <1>9, <1>10, <1>11, <1>12, <1>13,
     <1>14, <1>15, <1>16, <1>17, <1>18 DEF Work

LEMMA StepKeeps ==
  ASSUME FeedType, Unread, [Next]_vars
  PROVE  FeedStep /\ PlaceType /\ NobodyGoesIdle
<1> USE DEF FeedType, FeedStep, PlaceType, NobodyGoesIdle, feed, node, state, bodies, meters
<1>1. ASSUME NEW c \in Call, Begin(c) PROVE FeedStep /\ PlaceType /\ NobodyGoesIdle
  BY <1>1 DEF Begin, Goto, Opens, Unread
<1>2. ASSUME NEW c \in Call, Read(c) PROVE FeedStep /\ PlaceType /\ NobodyGoesIdle
  BY <1>2 DEF Read, Take, EndStream, TaskDone, Unread
<1>3. ASSUME NEW c \in Call, Leave(c) PROVE FeedStep /\ PlaceType /\ NobodyGoesIdle
  BY <1>3 DEF Leave, Unread
<1>4. ASSUME NEW c \in Call, NEW i \in Stages, Resume(c, i)
      PROVE  FeedStep /\ PlaceType /\ NobodyGoesIdle
  <2>1. i \in Nat
    BY PipelineAssumption DEF Stages, Pipe, Scenario
  <2>2. /\ scenario' = scenario /\ UNCHANGED feed
        /\ \/ pc' = [pc EXCEPT ![c] = "start"] /\ at' = [at EXCEPT ![c] = i + 1]
           \/ pc' = pc /\ at' = at
    BY <1>4 DEF Resume
  <2>3. i + 1 \in Nat
    BY <2>1
  <2>4. PlaceType
    BY <2>2, <2>3
  <2>5. NobodyGoesIdle
    BY <2>2
  <2>6. QED  BY <2>2, <2>4, <2>5
<1>5. ASSUME NEW a \in Action, AddAction(a) PROVE FeedStep /\ PlaceType /\ NobodyGoesIdle
  BY <1>5 DEF AddAction
<1>6. CASE Quiet \/ UNCHANGED vars
  BY <1>6 DEF Quiet, vars
<1>7. QED
  BY <1>1, <1>2, <1>3, <1>4, <1>5, <1>6, WorkKeeps DEF Next
-----------------------------------------------------------------------------
LEMMA InitInv == Init => FeedInv
<1> SUFFICES ASSUME Init PROVE FeedInv
  OBVIOUS
<1>1. 1 \in Nat /\ << >> \in Seq(Event) /\ << >> \in Seq(Taken)
  OBVIOUS
<1>2. FeedType
  BY <1>1 DEF Init, FeedType
<1>3. QED
  BY <1>2 DEF Init, FeedInv, Backlog, Unread

LEMMA NextInv == FeedInv /\ [Next]_vars => FeedInv'
<1> SUFFICES ASSUME FeedInv, [Next]_vars PROVE FeedInv'
  OBVIOUS
<1>1. FeedStep /\ PlaceType /\ NobodyGoesIdle
  BY StepKeeps DEF FeedInv
<1>2. Unread'
  BY <1>1 DEF FeedInv, Unread, NobodyGoesIdle
<1>3. FeedType' /\ Backlog'
  <2> USE DEF FeedInv, FeedType, Backlog, PlaceType
  <2>1. CASE UNCHANGED feed
    BY <1>1, <2>1 DEF feed
  <2>2. ASSUME NEW c \in Call, Opens(c) PROVE FeedType' /\ Backlog'
    <3>1. UNCHANGED <<sent, queue, taken>> /\ consumer' = [consumer EXCEPT ![c] = "reading"]
      BY <2>2 DEF Opens
    <3>2. FeedType'
      BY <1>1, <3>1
    <3>3. Backlog'
      BY <3>1
    <3>4. QED  BY <3>2, <3>3
  <2>3. ASSUME NEW c \in Call, Emits(c) PROVE FeedType' /\ Backlog'
    <3>1. PICK e \in Event : /\ sent' = Append(sent, e) /\ queue' = Append(queue, e)
                            /\ UNCHANGED <<taken, consumer>>
      BY <2>3 DEF Emits, Emit, Event
    <3>2. FeedType'
      BY <1>1, <3>1
    <3>3. Len(sent') = Len(sent) + 1 /\ Len(queue') = Len(queue) + 1
      BY <3>1
    <3>4. ASSUME NEW k \in 1..Len(queue') PROVE queue'[k] = sent'[Len(taken) + k]
      <4>1. CASE k = Len(queue) + 1
        BY <3>1, <4>1
      <4>2. CASE k \in 1..Len(queue)
        BY <3>1, <4>2
      <4>3. Len(queue) \in Nat /\ k \in 1..(Len(queue) + 1)
        BY <3>3
      <4>4. k = Len(queue) + 1 \/ k \in 1..Len(queue)
        BY <4>3
      <4>5. QED  BY <4>1, <4>2, <4>4
    <3>5. Backlog'
      BY <3>1, <3>3, <3>4
    <3>6. QED  BY <3>2, <3>5
  <2>4. ASSUME NEW c \in Call, Take(c) PROVE FeedType' /\ Backlog'
    <3>1. /\ queue # << >> /\ queue' = Tail(queue)
          /\ taken' = Append(taken, [event |-> Head(queue), by |-> c])
          /\ UNCHANGED <<sent, consumer>>
      BY <2>4 DEF Take
    <3>2. FeedType'
      BY <1>1, <3>1 DEF Taken
    <3>3. /\ Len(queue) > 0
          /\ Len(queue') = Len(queue) - 1
          /\ \A k \in 1..Len(queue') : queue'[k] = queue[k + 1]
      <4>1. queue \in Seq(Event) /\ queue # << >> /\ queue' = Tail(queue)
        BY <3>1
      <4>2. QED  BY ONLY <4>1
    <3>4. Len(taken') = Len(taken) + 1
      BY <3>1
    <3>5. Len(sent) = Len(taken') + Len(queue')
      BY <3>3, <3>4
    <3>6. ASSUME NEW k \in 1..Len(queue') PROVE queue'[k] = sent'[Len(taken') + k]
      <4>1. k + 1 \in 1..Len(queue) /\ Len(taken) \in Nat
        BY <3>3
      <4>2. Len(taken') + k = Len(taken) + (k + 1)
        BY <3>4, <4>1
      <4>3. queue'[k] = sent[Len(taken) + (k + 1)]
        BY <3>3, <4>1
      <4>4. QED  BY <3>1, <4>2, <4>3
    <3>7. Backlog'
      BY <3>1, <3>5, <3>6
    <3>8. QED  BY <3>2, <3>7
  <2>5. ASSUME NEW c \in Call, Leave(c) PROVE FeedType' /\ Backlog'
    BY <1>1, <2>5 DEF Leave
  <2>6. ASSUME NEW c \in Call, EndStream(c) PROVE FeedType' /\ Backlog'
    BY <1>1, <2>6 DEF EndStream
  <2>7. QED
    BY <1>1, <2>1, <2>2, <2>3, <2>4, <2>5, <2>6 DEF FeedStep
<1>4. QED
  BY <1>2, <1>3 DEF FeedInv

-----------------------------------------------------------------------------
LEMMA InitRefines == Init => F!Init
BY DEF Init, F!Init, Streams, Ended

LEMMA StepRefines == FeedInv /\ [Next]_vars => [F!Next]_(F!feed)
<1> SUFFICES ASSUME FeedInv, [Next]_vars PROVE F!Next \/ UNCHANGED F!feed
  OBVIOUS
<1>1. FeedStep
  BY StepKeeps DEF FeedInv
<1> USE DEF FeedInv, FeedType, Streams, Ended, F!Next
<1>2. CASE UNCHANGED feed
  BY <1>2 DEF feed, F!feed
<1>3. ASSUME NEW c \in Call, Opens(c) PROVE F!Open(c)
  BY <1>3 DEF Opens, Unread, F!Open
<1>4. ASSUME NEW c \in Call, Emits(c) PROVE F!Happen
  <2>1. PICK e \in Event : sent' = Append(sent, e) /\ UNCHANGED <<taken, consumer>>
    BY <1>4 DEF Emits, Emit, Event
  <2>2. Len(sent') = Len(sent) + 1 /\ SubSeq(sent', 1, Len(sent)) = sent
    BY <2>1
  <2>3. QED  BY <2>1, <2>2 DEF F!Happen
<1>5. ASSUME NEW c \in Call, Take(c) PROVE F!Take(c)
  <2>1. /\ Len(taken) < Len(sent)
        /\ Head(queue) = sent[Len(taken) + 1]
    BY <1>5 DEF Take, Backlog
  <2>2. QED  BY <1>5, <2>1 DEF Take, F!Take
<1>6. ASSUME NEW c \in Call, Leave(c) PROVE F!Leave(c)
  BY <1>6 DEF Leave, F!Leave
<1>7. ASSUME NEW c \in Call, EndStream(c) PROVE F!Tell(c)
  BY <1>7 DEF EndStream, Backlog, F!Tell
<1>8. QED
  BY <1>1, <1>2, <1>3, <1>4, <1>5, <1>6, <1>7 DEF FeedStep

\* stream(): every event is yielded to one consumer, in the order of the
\* events, and a stream ends only when nothing is left, on any graph.
THEOREM QueueImplementsFeed == Spec => FeedIsKept
<1>1. Init => FeedInv /\ F!Init
  BY InitInv, InitRefines
<1>2. FeedInv /\ [Next]_vars => FeedInv' /\ [F!Next]_(F!feed)
  BY NextInv, StepRefines
<1>3. QED
  BY <1>1, <1>2, PTL DEF Spec, FeedIsKept, F!Spec

-----------------------------------------------------------------------------
(* CompensationNode: everything that was registered is undone, in reverse, *)
(* although add_action() moves the list under the loop.                    *)

\* a is undone for the first time at i.
First(s, i, a) == s[i].action = a /\ \A h \in 1..(i - 1) : s[h].action # a

Covers(s, a) == \E i \in 1..Len(s) : First(s, i, a)

Firsts(s) == \A i \in 1..Len(s) : Covers(s, s[i].action)

InOrder(s, due) ==
  \A j, k \in 1..Len(due), i \in 1..Len(s) :
    j < k /\ First(s, i, due[k]) => \E h \in 1..(i - 1) : First(s, h, due[j])

Undone == [action : Action, ok : BOOLEAN]

UndoType ==
  /\ undo \in Seq(Action)
  /\ \A i, j \in 1..Len(undo) : undo[i] = undo[j] => i = j
  /\ registered \in [Call -> Seq(Action)]
  /\ undone \in [Call -> Seq(Undone)]
  /\ adds \in Nat

KindInv ==
  \A c \in Call :
    /\ pc[c] = "asking"  => Here(c).kind = "human"
    /\ pc[c] = "looping" => Here(c).kind = "loop"
    /\ pc[c] = "undoing" => Here(c).kind = "compensation"

\* What was registered is the end of the list; the loop is as far in it as
\* it has undone actions, minus those added in front since.
Added(c) == Len(undo) - Len(registered[c])

UnderWay(c) ==
  LET s == undone[c]  due == registered[c] IN
  /\ Added(c) >= 0
  /\ \A j \in 1..Len(due) : undo[Added(c) + j] = due[j]
  /\ Firsts(s) /\ InOrder(s, due)
  /\ \A j \in 1..Len(due) : j + Added(c) <= Len(s) => Covers(s, due[j])
  /\ adds = 0 => /\ Added(c) = 0 /\ Len(s) <= Len(due)
                 /\ \A i \in 1..Len(s) : s[i].action = due[i]

Finished(c) ==
  LET s == undone[c]  due == registered[c] IN
  /\ Firsts(s) /\ InOrder(s, due)
  /\ \A j \in 1..Len(due) : Covers(s, due[j])
  /\ adds = 0 => /\ Len(s) = Len(due)
                 /\ \A i \in 1..Len(s) : s[i].action = due[i]

UndoInv ==
  /\ UndoType
  /\ KindInv
  /\ \A c \in Call :
       /\ pc[c] = "undoing" => UnderWay(c)
       /\ pc[c] \in {"after", "close"} /\ Here(c).kind = "compensation" => Finished(c)

\* One more action is undone: it has been before, or comes first here.
OneMore(s, u, t) ==
  /\ t \in Seq(Undone) /\ Len(t) = Len(s) + 1 /\ Len(s) \in Nat
  /\ \A i \in 1..Len(s) : t[i] = s[i]
  /\ t[Len(s) + 1] = u
  /\ \A a : \A i \in 1..Len(s) : First(t, i, a) <=> First(s, i, a)
  /\ \A a : First(t, Len(s) + 1, a) => ~Covers(s, a) /\ a = u.action
  /\ \A a : Covers(s, a) => Covers(t, a)
  /\ Covers(t, u.action)
  /\ Firsts(t)

LEMMA UndoOne ==
  ASSUME NEW s \in Seq(Undone), Firsts(s), NEW u \in Undone, NEW t, t = Append(s, u)
  PROVE  OneMore(s, u, t)
<1>1. /\ t \in Seq(Undone) /\ Len(t) = Len(s) + 1 /\ Len(s) \in Nat
      /\ \A i \in 1..Len(s) : t[i] = s[i]
      /\ t[Len(s) + 1] = u
  OBVIOUS
<1>2. ASSUME NEW a, NEW i \in 1..Len(s) PROVE First(t, i, a) <=> First(s, i, a)
  <2>1. \A h \in 1..(i - 1) : h \in 1..Len(s)
    BY <1>1
  <2>. QED  BY <1>1, <2>1 DEF First
<1>3. ASSUME NEW a, Covers(s, a) PROVE Covers(t, a)
  <2>1. \A i \in 1..Len(s) : i \in 1..Len(t)
    BY <1>1
  <2>. QED  BY <1>2, <1>3, <2>1 DEF Covers
<1>4. Covers(t, u.action)
  <2>1. CASE \E i \in 1..Len(s) : s[i].action = u.action
    BY <1>3, <2>1 DEF Firsts
  <2>2. CASE \A i \in 1..Len(s) : s[i].action # u.action
    <3>1. /\ Len(s) + 1 \in 1..Len(t) /\ (Len(s) + 1) - 1 = Len(s)
      BY <1>1
    <3>2. First(t, Len(s) + 1, u.action)
      BY <1>1, <2>2, <3>1 DEF First
    <3>. QED  BY <3>1, <3>2 DEF Covers
  <2>. QED  BY <2>1, <2>2
<1>5. ASSUME NEW a, First(t, Len(s) + 1, a) PROVE ~Covers(s, a) /\ a = u.action
  <2>1. (Len(s) + 1) - 1 = Len(s)
    BY <1>1
  <2>2. \A h \in 1..Len(s) : s[h].action # a
    BY <1>1, <1>5, <2>1 DEF First
  <2>. QED  BY <1>1, <1>5, <2>2 DEF First, Covers
<1>6. Firsts(t)
  <2> SUFFICES ASSUME NEW i \in 1..Len(t) PROVE Covers(t, t[i].action)
    BY DEF Firsts
  <2>1. i \in 1..Len(s) \/ i = Len(s) + 1
    BY <1>1
  <2>. QED  BY <1>1, <1>3, <1>4, <2>1 DEF Firsts
<1>. QED  BY <1>1, <1>2, <1>3, <1>4, <1>5, <1>6 DEF OneMore

\* What the steps of the other nodes leave alone.
Elsewhere ==
  /\ UNCHANGED <<scenario, undo, undone, registered, adds>>
  /\ \A c \in Call :
       /\ pc'[c] \in {"asking", "looping", "undoing", "after", "close"} =>
            at'[c] = at[c]
       /\ pc'[c] \in {"asking", "looping", "undoing"} =>
            \/ pc'[c] = pc[c]
            \/ pc'[c] = "asking" /\ Here(c).kind = "human"
            \/ pc'[c] = "looping" /\ Here(c).kind = "loop"
       /\ pc'[c] \in {"after", "close"} =>
            pc[c] \in {"after", "close"} \/ Here(c).kind # "compensation"

LEMMA ConcludeElsewhere ==
  ASSUME FeedType, NEW c \in Call, NEW o, Conclude(c, o), Here(c).kind # "compensation",
         UNCHANGED <<scenario, undo, undone, registered, adds>>
  PROVE  Elsewhere
<1>1. UNCHANGED at /\ pc' \in {[pc EXCEPT ![c] = p] : p \in {"body", "after", "close"}}
  BY DEF Conclude, TryAgain, Succeed, Skip, FallBack, Fail, Settle
<1>2. QED
  BY <1>1 DEF Elsewhere, FeedType

LEMMA WorkElsewhere ==
  ASSUME FeedType, KindInv, NEW c \in Call, Work(c),
         ~BeginUndo(c), ~UndoNext(c), ~EndUndo(c)
  PROVE  Elsewhere
<1> USE DEF FeedType, Elsewhere, Goto, feed, node, state, bodies, meters
<1>1. CASE StartNode(c)  BY <1>1 DEF StartNode
<1>2. CASE BeforeNode(c)  BY <1>2 DEF BeforeNode
<1>3. CASE Execute(c)
  <2>1. PICK o \in Bodies(Here(c).kind, Input(c)) : Conclude(c, o)
    BY <1>3 DEF Execute
  <2>2. Here(c).kind # "compensation"
    BY <2>1 DEF Bodies
  <2>3. UNCHANGED <<scenario, undo, undone, registered, adds>>
    BY <1>3 DEF Execute
  <2>. HIDE DEF Elsewhere
  <2>. QED  BY <2>1, <2>2, <2>3, ConcludeElsewhere
<1>4. CASE EmitTask(c)  BY <1>4 DEF EmitTask
<1>5. CASE GetTask(c)
  <2>1. PICK o : Conclude(c, o)
    BY <1>5 DEF GetTask
  <2>2. Here(c).kind # "compensation" /\ UNCHANGED <<scenario, undo, undone, registered, adds>>
    BY <1>5 DEF GetTask, KindInv
  <2>. HIDE DEF Elsewhere
  <2>. QED  BY <2>1, <2>2, ConcludeElsewhere
<1>6. CASE QueueRaises(c)
  <2>1. /\ Conclude(c, Raised) /\ Here(c).kind # "compensation"
        /\ UNCHANGED <<scenario, undo, undone, registered, adds>>
    BY <1>6 DEF QueueRaises
  <2>. HIDE DEF Elsewhere
  <2>. QED  BY <2>1, ConcludeElsewhere
<1>7. CASE BeginLoop(c)  BY <1>7 DEF BeginLoop
<1>8. CASE LoopRound(c)
  <2>1. /\ Here(c).kind # "compensation" /\ pc[c] = "looping"
        /\ UNCHANGED <<scenario, undo, undone, registered, adds>>
    BY <1>8 DEF LoopRound, KindInv
  <2>2. (\E o : Conclude(c, o)) \/ UNCHANGED <<pc, at>>
    BY <1>8 DEF LoopRound
  <2>3. CASE UNCHANGED <<pc, at>>
    BY <2>1, <2>3
  <2>4. CASE \E o : Conclude(c, o)
    <3>. HIDE DEF Elsewhere
    <3>. QED  BY <2>1, <2>4, ConcludeElsewhere
  <2>. QED  BY <2>2, <2>3, <2>4
<1>9. CASE AfterNode(c)  BY <1>9 DEF AfterNode
<1>10. CASE CloseNode(c)  BY <1>10 DEF CloseNode
<1>11. CASE NextNode(c)  BY <1>11 DEF NextNode
<1>12. CASE NothingReady(c)  BY <1>12 DEF NothingReady
<1>13. CASE ConditionRaises(c)  BY <1>13 DEF ConditionRaises
<1>14. CASE Finish(c)  BY <1>14 DEF Finish
<1>15. CASE TransformRaises(c)  BY <1>15 DEF TransformRaises
<1>. QED
  BY <1>1, <1>2, <1>3, <1>4, <1>5, <1>6, <1>7, <1>8, <1>9, <1>10, <1>11, <1>12, <1>13,
     <1>14, <1>15 DEF Work

LEMMA StepElsewhere ==
  ASSUME FeedType, KindInv, [Next]_vars
  PROVE  \/ Elsewhere
         \/ \E a \in Action : AddAction(a)
         \/ \E c \in Call : BeginUndo(c) \/ UndoNext(c) \/ EndUndo(c)
<1> USE DEF FeedType, feed, node, state, bodies, meters
<1>1. ASSUME NEW c \in Call, Begin(c) PROVE Elsewhere
  BY <1>1 DEF Begin, Goto, Elsewhere
<1>2. ASSUME NEW c \in Call, Read(c) \/ Leave(c) PROVE Elsewhere
  BY <1>2 DEF Read, Take, EndStream, Leave, Elsewhere
<1>3. ASSUME NEW c \in Call, NEW i \in Stages, Resume(c, i) PROVE Elsewhere
  <2>1. /\ UNCHANGED <<scenario, undo, undone, registered, adds>>
        /\ \/ pc' = [pc EXCEPT ![c] = "start"] /\ at' = [at EXCEPT ![c] = i + 1]
           \/ pc' = pc /\ at' = at
    BY <1>3 DEF Resume
  <2>. QED  BY <2>1 DEF Elsewhere
<1>4. CASE Quiet \/ UNCHANGED vars
  BY <1>4 DEF Quiet, vars, Elsewhere
<1>. QED
  BY <1>1, <1>2, <1>3, <1>4, WorkElsewhere DEF Next

-----------------------------------------------------------------------------
LEMMA InitUndo == Init => UndoInv
<1> SUFFICES ASSUME Init PROVE UndoInv
  OBVIOUS
<1>1. undo = scenario.undo /\ scenario \in Scenarios
  BY DEF Init
<1>2. undo \in Seq(Action) /\ \A i, j \in DOMAIN undo : undo[i] = undo[j] => i = j
  BY <1>1, PipelineAssumption DEF Scenario
<1>3. UndoType
  <2>1. DOMAIN undo = 1..Len(undo)
    BY <1>2
  <2>2. << >> \in Seq(Action) /\ << >> \in Seq(Undone) /\ 0 \in Nat
    OBVIOUS
  <2>. QED  BY <1>2, <2>1, <2>2 DEF Init, UndoType
<1>. QED  BY <1>3 DEF Init, UndoInv, KindInv

LEMMA NextKind ==
  ASSUME FeedType, KindInv, [Next]_vars
  PROVE  KindInv'
<1> USE DEF FeedType, node, state, bodies, meters
<1>1. CASE Elsewhere
  <2>1. ASSUME NEW c \in Call, pc'[c] \in {"asking", "looping", "undoing"}
        PROVE  /\ at'[c] = at[c] /\ Here(c)' = Here(c)
               /\ \/ pc'[c] = pc[c]
                  \/ pc'[c] = "asking" /\ Here(c).kind = "human"
                  \/ pc'[c] = "looping" /\ Here(c).kind = "loop"
    BY <1>1, <2>1 DEF Elsewhere, Here, Pipe
  <2>. QED  BY <2>1 DEF KindInv
<1>2. ASSUME NEW a \in Action, AddAction(a) PROVE KindInv'
  BY <1>2 DEF AddAction, KindInv, Here, Pipe
<1>3. ASSUME NEW c \in Call, BeginUndo(c) PROVE KindInv'
  BY <1>3 DEF BeginUndo, Goto, KindInv, Here, Pipe
<1>4. ASSUME NEW c \in Call, UndoNext(c) PROVE KindInv'
  BY <1>4 DEF UndoNext, KindInv, Here, Pipe
<1>5. ASSUME NEW c \in Call, EndUndo(c) PROVE KindInv'
  <2>1. /\ UNCHANGED <<at, scenario>>
        /\ pc' \in {[pc EXCEPT ![c] = p] : p \in {"body", "after", "close"}}
    BY <1>5 DEF EndUndo, Conclude, TryAgain, Succeed, Skip, FallBack, Fail, Settle
  <2>. QED  BY <2>1 DEF KindInv, Here, Pipe
<1>. QED  BY <1>1, <1>2, <1>3, <1>4, <1>5, StepElsewhere

\* add_action() while the node is at work: the list moves, what is undone
\* stays, and less is due so far.
LEMMA AddKeeps ==
  ASSUME UndoType, NEW a \in Action, AddAction(a)
  PROVE  /\ UndoType'
         /\ \A c \in Call : UnderWay(c) => UnderWay(c)'
         /\ \A c \in Call : Finished(c) => Finished(c)'
<1>1. /\ undo' = <<a>> \o undo /\ adds' = adds + 1 /\ UNCHANGED <<undone, registered>>
      /\ \A i \in DOMAIN undo : undo[i] # a
  BY DEF AddAction
<1>2. /\ undo' \in Seq(Action) /\ Len(undo') = Len(undo) + 1 /\ Len(undo) \in Nat
      /\ undo'[1] = a
      /\ \A i \in 1..Len(undo) : undo'[i + 1] = undo[i] /\ undo[i] # a
  <2>1. undo \in Seq(Action) /\ <<a>> \in Seq(Action) /\ DOMAIN undo = 1..Len(undo)
    BY DEF UndoType
  <2>. QED  BY <1>1, <2>1
<1>3. adds' \in Nat /\ adds' # 0
  BY <1>1 DEF UndoType
<1>4. ASSUME NEW i \in 1..Len(undo'), NEW j \in 1..Len(undo'), undo'[i] = undo'[j]
      PROVE  i = j
  <2>1. \A k \in 1..Len(undo') : k # 1 => k - 1 \in 1..Len(undo) /\ undo'[k] = undo[k - 1]
    <3> SUFFICES ASSUME NEW k \in 1..Len(undo'), k # 1
                 PROVE  k - 1 \in 1..Len(undo) /\ undo'[k] = undo[k - 1]
      OBVIOUS
    <3>1. k - 1 \in 1..Len(undo) /\ (k - 1) + 1 = k
      BY <1>2
    <3>. QED  BY <1>2, <3>1
  <2>2. CASE i = 1 \/ j = 1
    BY <1>2, <1>4, <2>1, <2>2
  <2>3. CASE i # 1 /\ j # 1
    <3>1. i - 1 = j - 1
      BY <1>4, <2>1, <2>3 DEF UndoType
    <3>. QED  BY <3>1
  <2>. QED  BY <2>2, <2>3
<1>5. UndoType'
  BY <1>1, <1>2, <1>3, <1>4 DEF UndoType
<1>6. ASSUME NEW c \in Call, UnderWay(c) PROVE UnderWay(c)'
  <2>. DEFINE s == undone[c]
              due == registered[c]
              n == Added(c)
  <2>1. Len(s) \in Nat /\ Len(due) \in Nat
    BY DEF UndoType
  <2>2. n \in Nat /\ Added(c)' = n + 1
    BY <1>1, <1>2, <1>6, <2>1 DEF UnderWay, Added
  <2>3. ASSUME NEW j \in 1..Len(due) PROVE undo'[(n + 1) + j] = due[j]
    <3>1. n + j \in 1..Len(undo) /\ (n + 1) + j = (n + j) + 1
      <4>1. n + Len(due) = Len(undo) /\ Len(undo) \in Nat
        BY <1>2, <2>1 DEF Added
      <4>2. j \in Nat /\ 1 <= j /\ j <= Len(due)
        BY <2>1
      <4>. HIDE DEF n, due
      <4>. QED  BY <2>1, <2>2, <4>1, <4>2
    <3>2. undo[n + j] = due[j]
      BY <1>6 DEF UnderWay
    <3>. QED  BY <1>2, <3>1, <3>2
  <2>4. ASSUME NEW j \in 1..Len(due), j + (n + 1) <= Len(s) PROVE Covers(s, due[j])
    <3>1. j + n <= Len(s)
      BY <2>1, <2>2, <2>4
    <3>. QED  BY <1>6, <3>1 DEF UnderWay
  <2>5. Firsts(s) /\ InOrder(s, due)
    BY <1>6 DEF UnderWay
  <2>6. n + 1 >= 0
    BY <2>2
  <2>7. s' = s /\ due' = due
    BY <1>1
  <2>. HIDE DEF s, due, n
  <2>. QED
    BY <1>3, <2>2, <2>3, <2>4, <2>5, <2>6, <2>7 DEF UnderWay, s, due
<1>7. ASSUME NEW c \in Call, Finished(c) PROVE Finished(c)'
  BY <1>1, <1>3, <1>7 DEF Finished
<1>. QED  BY <1>5, <1>6, <1>7

\* The loop stands after s in the list; n of the list were added in front.
Stands(list, due, n, s) ==
  /\ \A i, j \in 1..Len(list) : list[i] = list[j] => i = j
  /\ n = Len(list) - Len(due)
  /\ \A j \in 1..Len(due) : list[n + j] = due[j]
  /\ Firsts(s) /\ InOrder(s, due)
  /\ \A j \in 1..Len(due) : j + n <= Len(s) => Covers(s, due[j])

\* The next action in the list is due next, or was put in front.
LEMMA NextInList ==
  ASSUME NEW list \in Seq(Action), NEW due \in Seq(Action), NEW n \in Nat,
         NEW s \in Seq(Undone), Stands(list, due, n, s), Len(s) < Len(list),
         NEW u \in Undone, u.action = list[Len(s) + 1], NEW t, OneMore(s, u, t)
  PROVE  Stands(list, due, n, t)
<1>1. Len(s) \in Nat /\ Len(due) \in Nat /\ Len(list) \in Nat
  OBVIOUS
<1>2. Len(s) + 1 \in 1..Len(list)
  BY <1>1
<1>2a. /\ \A i, j \in 1..Len(list) : list[i] = list[j] => i = j
       /\ n = Len(list) - Len(due)
       /\ \A j \in 1..Len(due) : list[n + j] = due[j]
       /\ InOrder(s, due)
       /\ \A j \in 1..Len(due) : j + n <= Len(s) => Covers(s, due[j])
  BY DEF Stands
<1>3. /\ t \in Seq(Undone) /\ Len(t) = Len(s) + 1
      /\ \A a : \A i \in 1..Len(s) : First(t, i, a) <=> First(s, i, a)
      /\ \A a : First(t, Len(s) + 1, a) => ~Covers(s, a) /\ a = u.action
      /\ \A a : Covers(s, a) => Covers(t, a)
      /\ Covers(t, u.action)
      /\ Firsts(t)
  BY DEF OneMore
<1>4. ASSUME NEW j \in 1..Len(due), u.action = due[j]
      PROVE  Len(s) + 1 = n + j
  <2>1. n + j \in 1..Len(list)
    BY <1>1, <1>2a
  <2>2. list[n + j] = list[Len(s) + 1]
    BY <1>2a, <1>4
  <2>. QED  BY <1>2, <1>2a, <2>1, <2>2
<1>5. ASSUME NEW j \in 1..Len(due), j + n <= Len(t) PROVE Covers(t, due[j])
  <2>1. CASE j + n <= Len(s)
    BY <1>2a, <1>3, <2>1
  <2>2. CASE ~(j + n <= Len(s))
    <3>1. Len(s) + 1 = n + j
      <4>1. j \in Int /\ j + n <= Len(s) + 1
        BY <1>3, <1>5
      <4>. QED  BY <1>1, <2>2, <4>1
    <3>2. u.action = due[j]
      BY <1>2a, <3>1
    <3>. QED  BY <1>3, <3>2
  <2>. QED  BY <2>1, <2>2
<1>6. ASSUME NEW j \in 1..Len(due), NEW k \in 1..Len(due), NEW i \in 1..Len(t),
             j < k, First(t, i, due[k])
      PROVE  \E h \in 1..(i - 1) : First(t, h, due[j])
  <2>1. i \in 1..Len(s) \/ i = Len(s) + 1
    BY <1>1, <1>3
  <2>2. CASE i \in 1..Len(s)
    <3>1. First(s, i, due[k])
      BY <1>3, <1>6, <2>2
    <3>2. PICK h \in 1..(i - 1) : First(s, h, due[j])
      BY <1>2a, <1>6, <2>2, <3>1 DEF InOrder
    <3>3. h \in 1..Len(s)
      BY <1>1, <2>2
    <3>. QED  BY <1>3, <3>2, <3>3
  <2>3. CASE i = Len(s) + 1
    <3>1. Len(s) + 1 = n + k
      BY <1>3, <1>4, <1>6, <2>3
    <3>2. j + n <= Len(s)
      BY <1>1, <1>6, <3>1
    <3>3. PICK h \in 1..Len(s) : First(s, h, due[j])
      BY <1>2a, <3>2 DEF Covers
    <3>4. h \in 1..(i - 1)
      BY <1>1, <2>3
    <3>. QED  BY <1>3, <3>3, <3>4
  <2>. QED  BY <2>1, <2>2, <2>3
<1>7. InOrder(t, due)
  BY <1>6 DEF InOrder
<1>. QED  BY <1>2a, <1>3, <1>5, <1>7 DEF Stands

LEMMA NextUndone ==
  ASSUME UndoType, NEW c \in Call, UnderWay(c), UndoNext(c)
  PROVE  UndoType' /\ UnderWay(c)'
<1>1. /\ Len(undone[c]) < Len(undo)
      /\ UNCHANGED <<undo, registered, adds>>
  BY DEF UndoNext
<1>2. PICK u : /\ u \in [action : {undo[Len(undone[c]) + 1]}, ok : BOOLEAN]
               /\ undone' = [undone EXCEPT ![c] = Append(undone[c], u)]
  BY DEF UndoNext
<1>3. PICK s, t, due, n :
        /\ s = undone[c] /\ t = Append(s, u) /\ due = registered[c] /\ n = Added(c)
  OBVIOUS
<1>4. /\ s \in Seq(Undone) /\ due \in Seq(Action) /\ undo \in Seq(Action)
      /\ Len(s) \in Nat /\ Len(due) \in Nat /\ Len(undo) \in Nat
  BY <1>3 DEF UndoType
<1>5. n \in Nat /\ n = Len(undo) - Len(due)
  BY <1>3, <1>4 DEF UnderWay, Added
<1>6. u \in Undone /\ u.action = undo[Len(s) + 1]
  <2>1. Len(s) + 1 \in 1..Len(undo)
    BY <1>1, <1>3, <1>4
  <2>2. undo[Len(s) + 1] \in Action
    BY <1>4, <2>1
  <2>. QED  BY <1>2, <1>3, <2>2 DEF Undone
<1>7. /\ Stands(undo, due, n, s)
      /\ adds = 0 => /\ n = 0 /\ Len(s) <= Len(due)
                     /\ \A i \in 1..Len(s) : s[i].action = due[i]
  BY <1>3, <1>5 DEF UndoType, UnderWay, Stands
<1>7a. OneMore(s, u, t)
  <2>1. Firsts(s)
    BY <1>7 DEF Stands
  <2>. QED  BY <1>3, <1>4, <1>6, <2>1, UndoOne
<1>8. t \in Seq(Undone) /\ Stands(undo, due, n, t)
  <2>1. t \in Seq(Undone)
    BY <1>7a DEF OneMore
  <2>. QED  BY <1>1, <1>3, <1>4, <1>5, <1>6, <1>7, <1>7a, <2>1, NextInList
<1>8a. ASSUME adds = 0
       PROVE  /\ n = 0 /\ Len(t) <= Len(due)
              /\ \A i \in 1..Len(t) : t[i].action = due[i]
  <2>1. /\ Len(t) = Len(s) + 1
        /\ \A i \in 1..Len(s) : t[i] = s[i]
        /\ t[Len(s) + 1] = u
    BY <1>7a DEF OneMore
  <2>2. n = 0 /\ Len(undo) = Len(due) /\ Len(s) < Len(due)
    BY <1>1, <1>3, <1>4, <1>5, <1>7, <1>8a
  <2>3. Len(t) <= Len(due)
    BY <1>4, <2>1, <2>2
  <2>4. ASSUME NEW i \in 1..Len(t) PROVE t[i].action = due[i]
    <3>1. i \in 1..Len(s) \/ i = Len(s) + 1
      BY <1>4, <2>1
    <3>2. CASE i \in 1..Len(s)
      BY <1>7, <1>8a, <2>1, <3>2
    <3>3. CASE i = Len(s) + 1
      <4>1. i \in 1..Len(due) /\ n + i = i
        BY <1>4, <2>2, <3>3
      <4>2. undo[i] = due[i]
        BY <1>7, <4>1 DEF Stands
      <4>. QED  BY <1>6, <2>1, <3>3, <4>2
    <3>. QED  BY <3>1, <3>2, <3>3
  <2>. QED  BY <2>2, <2>3, <2>4
<1>9. /\ undone' = [undone EXCEPT ![c] = t] /\ undone'[c] = t
      /\ registered'[c] = due /\ undo' = undo /\ Added(c)' = n /\ adds' = adds
  BY <1>1, <1>2, <1>3 DEF UndoType, Added
<1>10. UndoType'
  BY <1>1, <1>8, <1>9 DEF UndoType
<1>11. UnderWay(c)'
  <2>1. /\ n >= 0 /\ \A j \in 1..Len(due) : undo[n + j] = due[j]
        /\ Firsts(t) /\ InOrder(t, due)
        /\ \A j \in 1..Len(due) : j + n <= Len(t) => Covers(t, due[j])
    BY <1>5, <1>8 DEF Stands
  <2>. QED  BY <1>8a, <1>9, <2>1 DEF UnderWay
<1>. QED  BY <1>10, <1>11

LEMMA NextUndo ==
  ASSUME FeedType, FeedType', UndoInv, [Next]_vars
  PROVE  UndoInv'
<1> USE DEF FeedType, node, state, bodies, meters
<1>1. KindInv'
  BY NextKind DEF UndoInv
<1>2. CASE Elsewhere
  <2>1. UndoType'
    BY <1>2 DEF UndoInv, UndoType, Elsewhere
  <2>2. ASSUME NEW c \in Call
        PROVE  /\ UnderWay(c) => UnderWay(c)'
               /\ Finished(c) => Finished(c)'
    BY <1>2 DEF Elsewhere, UnderWay, Finished, Added
  <2>3. ASSUME NEW c \in Call
        PROVE  /\ pc'[c] = "undoing" => pc[c] = "undoing"
               /\ pc'[c] \in {"after", "close"} /\ (Here(c).kind = "compensation")' =>
                    pc[c] \in {"after", "close"} /\ Here(c).kind = "compensation"
    BY <1>2 DEF Elsewhere, Here, Pipe
  <2>. QED  BY <1>1, <2>1, <2>2, <2>3 DEF UndoInv
<1>3. ASSUME NEW a \in Action, AddAction(a) PROVE UndoInv'
  <2>1. UNCHANGED <<pc, at, scenario>>
    BY <1>3 DEF AddAction
  <2>2. \A c \in Call : (Here(c).kind = "compensation")' <=> Here(c).kind = "compensation"
    BY <2>1 DEF Here, Pipe
  <2>. QED  BY <1>1, <1>3, <2>1, <2>2, AddKeeps DEF UndoInv
<1>4. ASSUME NEW c \in Call,
             UNCHANGED <<at, scenario, undo, adds>>,
             UndoType', \A d \in Call \ {c} : pc'[d] = pc[d] /\ UNCHANGED <<undone[d], registered[d]>>,
             pc'[c] = "undoing" => UnderWay(c)',
             pc'[c] \in {"after", "close"} => Finished(c)'
      PROVE  UndoInv'
  <2>1. ASSUME NEW d \in Call \ {c}
        PROVE  /\ UnderWay(d) => UnderWay(d)'
               /\ Finished(d) => Finished(d)'
               /\ (Here(d).kind = "compensation")' <=> Here(d).kind = "compensation"
    BY <1>4 DEF UnderWay, Finished, Added, Here, Pipe
  <2>. QED  BY <1>1, <1>4, <2>1 DEF UndoInv
<1>5. ASSUME NEW c \in Call, BeginUndo(c) PROVE UndoInv'
  <2>1. /\ UNCHANGED <<at, scenario, undo, adds>>
        /\ undone' = [undone EXCEPT ![c] = << >>]
        /\ registered' = [registered EXCEPT ![c] = undo]
        /\ pc' = [pc EXCEPT ![c] = "undoing"]
    BY <1>5 DEF BeginUndo, Goto
  <2>2. undone'[c] = << >> /\ registered'[c] = undo
    BY <2>1 DEF UndoInv, UndoType
  <2>3. UndoType'
    <3>1. << >> \in Seq(Undone)
      OBVIOUS
    <3>. QED  BY <2>1, <3>1 DEF UndoInv, UndoType
  <2>4. UnderWay(c)'
    <3>1. Len(undo) \in Nat /\ Len(<< >>) = 0
      BY DEF UndoInv, UndoType
    <3>2. Added(c)' = 0
      BY <2>1, <2>2, <3>1 DEF Added
    <3>3. \A j \in 1..Len(undo) : 0 + j = j /\ ~(j + 0 <= 0)
      BY <3>1
    <3>4. Firsts(<< >>) /\ InOrder(<< >>, undo)
      BY <3>1 DEF Firsts, InOrder
    <3>. QED  BY <2>1, <2>2, <3>1, <3>2, <3>3, <3>4 DEF UnderWay
  <2>. QED  BY <1>4, <2>1, <2>3, <2>4 DEF UndoInv, UndoType
<1>6. ASSUME NEW c \in Call, UndoNext(c) PROVE UndoInv'
  <2>1. /\ UNCHANGED <<at, pc, scenario, undo, adds, registered>> /\ pc[c] = "undoing"
        /\ \E u : undone' = [undone EXCEPT ![c] = u]
    BY <1>6 DEF UndoNext
  <2>2. UndoType' /\ UnderWay(c)'
    BY <1>6, <2>1, NextUndone DEF UndoInv
  <2>. QED  BY <1>4, <2>1, <2>2 DEF UndoInv, UndoType
<1>7. ASSUME NEW c \in Call, EndUndo(c) PROVE UndoInv'
  <2>1. /\ UNCHANGED <<at, scenario, undo, adds, undone, registered>>
        /\ pc' \in {[pc EXCEPT ![c] = p] : p \in {"body", "after", "close"}}
        /\ pc[c] = "undoing" /\ Len(undone[c]) = Len(undo)
    BY <1>7 DEF EndUndo, Conclude, TryAgain, Succeed, Skip, FallBack, Fail, Settle
  <2>2. UndoType'
    BY <2>1 DEF UndoInv, UndoType
  <2>3. Finished(c)
    <3>1. UnderWay(c) /\ Len(undo) \in Nat /\ Len(registered[c]) \in Nat
      BY <2>1 DEF UndoInv, UndoType
    <3>2. \A j \in 1..Len(registered[c]) : j + Added(c) <= Len(undone[c])
      BY <2>1, <3>1 DEF Added
    <3>3. adds = 0 => Len(undone[c]) = Len(registered[c])
      BY <2>1, <3>1 DEF Added, UnderWay
    <3>. QED  BY <3>1, <3>2, <3>3 DEF UnderWay, Finished
  <2>4. Finished(c)'
    BY <2>1, <2>3 DEF Finished
  <2>. QED  BY <1>4, <2>1, <2>2, <2>4
<1>. QED
  BY <1>2, <1>3, <1>5, <1>6, <1>7, StepElsewhere DEF UndoInv

\* The first place of an action, as the property has it.
FirstOf(ran, a) ==
  CHOOSE k \in DOMAIN ran : ran[k] = a /\ \A j \in 1..(k - 1) : ran[j] # a

LEMMA FirstIsFirst ==
  ASSUME NEW s \in Seq(Undone), NEW a, NEW i \in 1..Len(s), First(s, i, a),
         NEW ran, ran = [k \in DOMAIN s |-> s[k].action]
  PROVE  FirstOf(ran, a) = i
<1>1. DOMAIN ran = 1..Len(s) /\ Len(s) \in Nat /\ \A k \in 1..Len(s) : ran[k] = s[k].action
  OBVIOUS
<1>2. ran[i] = a /\ \A j \in 1..(i - 1) : ran[j] # a
  <2>1. \A j \in 1..(i - 1) : j \in 1..Len(s)
    BY <1>1
  <2>. QED  BY <1>1, <2>1 DEF First
<1>3. ASSUME NEW k \in 1..Len(s), ran[k] = a, \A j \in 1..(k - 1) : ran[j] # a
      PROVE  k = i
  <2>1. ~(i \in 1..(k - 1)) /\ ~(k \in 1..(i - 1))
    BY <1>2, <1>3
  <2>. QED  BY <1>1, <2>1
<1>. QED  BY <1>1, <1>2, <1>3 DEF FirstOf

\* When a CompensationNode has ended, all that was registered is undone, the
\* newest first, whichever action fails and whatever is added meanwhile.
THEOREM CompensationIsComplete == Spec => []UndoneInReverse
<1>1. Init => FeedInv /\ UndoInv
  BY InitInv, InitUndo
<1>2. FeedInv /\ UndoInv /\ [Next]_vars => FeedInv' /\ UndoInv'
  BY NextInv, NextUndo DEF FeedInv
<1>3. UndoInv => UndoneInReverse
  <2>1. ASSUME UndoInv, NEW c \in Call,
               pc[c] \in {"after", "close"}, Here(c).kind = "compensation",
               NEW s, s = undone[c], NEW due, due = registered[c],
               NEW ran, ran = [k \in DOMAIN s |-> s[k].action]
        PROVE  /\ \A j \in DOMAIN due : \E k \in DOMAIN ran : ran[k] = due[j]
               /\ \A j, k \in DOMAIN due : j < k => FirstOf(ran, due[j]) < FirstOf(ran, due[k])
               /\ adds = 0 => ran = due
    <3>1. s \in Seq(Undone) /\ due \in Seq(Action)
      BY <2>1 DEF UndoInv, UndoType
    <3>2. /\ DOMAIN s = 1..Len(s) /\ DOMAIN due = 1..Len(due) /\ DOMAIN ran = 1..Len(s)
          /\ Len(s) \in Nat /\ Len(due) \in Nat
          /\ \A k \in 1..Len(s) : ran[k] = s[k].action
      BY <2>1, <3>1
    <3>3. Finished(c)
      BY <2>1 DEF UndoInv
    <3>4. /\ InOrder(s, due) /\ \A j \in 1..Len(due) : Covers(s, due[j])
          /\ adds = 0 => Len(s) = Len(due) /\ \A i \in 1..Len(s) : s[i].action = due[i]
      BY <2>1, <3>3 DEF Finished
    <3>5. ASSUME NEW j \in DOMAIN due PROVE \E k \in DOMAIN ran : ran[k] = due[j]
      <4>1. PICK k \in 1..Len(s) : First(s, k, due[j])
        BY <3>2, <3>4 DEF Covers
      <4>2. ran[k] = due[j]
        BY <3>2, <4>1 DEF First
      <4>. QED  BY <3>2, <4>2
    <3>6. ASSUME NEW j \in DOMAIN due, NEW k \in DOMAIN due, j < k
          PROVE  FirstOf(ran, due[j]) < FirstOf(ran, due[k])
      <4>1. PICK i \in 1..Len(s) : First(s, i, due[k])
        BY <3>2, <3>4 DEF Covers
      <4>2. PICK h \in 1..(i - 1) : First(s, h, due[j])
        BY <3>2, <3>4, <3>6, <4>1 DEF InOrder
      <4>3. h \in 1..Len(s) /\ h < i
        BY <3>2
      <4>4. FirstOf(ran, due[k]) = i
        BY <2>1, <3>1, <4>1, FirstIsFirst
      <4>5. FirstOf(ran, due[j]) = h
        BY <2>1, <3>1, <4>2, <4>3, FirstIsFirst
      <4>. QED  BY <4>3, <4>4, <4>5
    <3>7. ASSUME adds = 0 PROVE ran = due
      <4>1. Len(s) = Len(due) /\ \A i \in 1..Len(s) : ran[i] = due[i]
        BY <3>2, <3>4, <3>7
      <4>2. ran = [i \in 1..Len(s) |-> due[i]]
        BY <2>1, <3>2, <4>1
      <4>3. due = [i \in 1..Len(s) |-> due[i]]
        BY <3>1, <3>2, <4>1
      <4>. QED  BY <4>2, <4>3
    <3>. QED  BY <3>5, <3>6, <3>7
  <2>2. ASSUME UndoInv, NEW c \in Call,
               pc[c] \in {"after", "close"}, Here(c).kind = "compensation"
        PROVE  LET ran == [k \in DOMAIN undone[c] |-> undone[c][k].action]
                   due == registered[c]
               IN  /\ \A j \in DOMAIN due : \E k \in DOMAIN ran : ran[k] = due[j]
                   /\ \A j, k \in DOMAIN due : j < k => FirstOf(ran, due[j]) < FirstOf(ran, due[k])
                   /\ adds = 0 => ran = due
    <3>1. PICK s, due : s = undone[c] /\ due = registered[c]
      OBVIOUS
    <3>2. PICK ran : ran = [k \in DOMAIN s |-> s[k].action]
      OBVIOUS
    <3>3. /\ \A j \in DOMAIN due : \E k \in DOMAIN ran : ran[k] = due[j]
          /\ \A j, k \in DOMAIN due : j < k => FirstOf(ran, due[j]) < FirstOf(ran, due[k])
          /\ adds = 0 => ran = due
      BY <2>1, <2>2, <3>1, <3>2
    <3>4. ran = [k \in DOMAIN undone[c] |-> undone[c][k].action]
      BY <3>1, <3>2
    <3>. QED  BY <3>1, <3>3, <3>4
  <2>. QED  BY <2>2, Zenon DEF UndoneInReverse, FirstOf
<1>. QED  BY <1>1, <1>2, <1>3, PTL DEF Spec
-----------------------------------------------------------------------------
(* The middlewares: what they write down agrees with what was done.        *)

Inside  == {"before", "body", "asking", "looping", "undoing", "after", "close"}
Booking == {"before", "after", "close"}

BookType ==
  /\ at \in [Call -> Stages]
  /\ record \in [Call -> NodeState]
  /\ output = [c \in Call |-> output[c]] /\ \A c \in Call : output[c].tokens \in Nat
  /\ nodeState \in [Call -> [Stages -> NodeState]]
  /\ resumes \in [Call -> Nat]
  /\ audit \in [Call -> [Stages -> AuditTrail]]
  /\ cost \in Nat /\ spent \in Nat

\* What the executor and the state know of the node a call is at.
PlaceInv ==
  \A c \in Call :
    /\ pc[c] = "after" => record[c] \in Settled
    /\ pc[c] = "close" => record[c] \in Settled \cup {"FAILED"}
    /\ pc[c] \in Inside => nodeState[c][at[c]] = "RUNNING"
    /\ pc[c] \in {"idle", "start"} /\ resumes[c] = 0 => nodeState[c][at[c]] = "PENDING"

\* The steps that no middleware hears of.
Aside ==
  /\ UNCHANGED <<scenario, record, output, nodeState, resumes, sent, audit, cost, spent>>
  /\ at' \in [Call -> Stages]
  /\ \A c \in Call :
       \/ pc'[c] = pc[c] /\ at'[c] = at[c]
       \/ /\ at'[c] = at[c]
          /\ {pc[c], pc'[c]} \subseteq {"body", "asking", "looping", "undoing"}
       \/ /\ pc[c] = "idle" /\ pc'[c] = "start" /\ at'[c] = at[c]
       \/ /\ pc[c] = "wave" /\ pc'[c] \in {"start", "finish", "returned"}
          /\ IF pc'[c] = "start" THEN nodeState[c][at'[c]] = "PENDING" ELSE at'[c] = at[c]
          /\ pc'[c] = "returned" =>
               \E i \in Stages : Pipe[i].condition /\ nodeState[c][i] = "PENDING"

\* node.execute() ends, or a LoopNode goes round once more.
Concludes(c, o) ==
  /\ pc[c] \in {"body", "asking", "looping", "undoing"}
  /\ o.tokens \in Nat /\ Conclude(c, o) /\ spent' = spent + o.tokens
  /\ UNCHANGED <<scenario, nodeState, resumes, sent, cost>>

GoesRound(c, n) ==
  /\ pc[c] = "looping" /\ n \in Nat /\ spent' = spent + n
  /\ UNCHANGED <<scenario, pc, at, record, output, nodeState, resumes, sent, audit, cost>>

Returns(c) ==
  /\ pc[c] = "finish" /\ pc' = [pc EXCEPT ![c] = "returned"]
  /\ IF resumes[c] = 0 THEN Emit(c, "GraphCompleted") ELSE UNCHANGED sent
  /\ UNCHANGED <<scenario, at, record, output, nodeState, resumes, audit, cost, spent>>

BookStep ==
  \/ Aside
  \/ \E c \in Call :
       \/ StartNode(c) \/ TransformRaises(c) \/ BeforeNode(c) \/ AfterNode(c) \/ CloseNode(c)
       \/ Returns(c)
       \/ \E o : Concludes(c, o)
       \/ \E n : GoesRound(c, n)
       \/ \E i \in Stages : Resume(c, i)

LEMMA TokensOfBodies ==
  ASSUME NEW kind, NEW d, NEW o \in Bodies(kind, d)
  PROVE  o.tokens \in Nat
<1>1. \A v : Ok(v).tokens = 0 /\ Failed(v).tokens = 0
  BY DEF Ok, Failed
<1>2. Raised.tokens = 0
  BY DEF Raised
<1>3. \A a \in AgentBody(d) : a.tokens \in Nat
  BY NodeBodiesAssumption DEF AgentBody, Raised
<1>. HIDE DEF Ok, Failed, Raised, AgentBody
<1>. QED
  BY <1>1, <1>2, <1>3 DEF Bodies, TriggerBody, RouterBody, ToolBody, GatewayBody, DelayBody,
     TimerBody, DecisionBody, FormBody, SubgraphBody

LEMMA WorkIsBooked ==
  ASSUME FeedType, BookType, NEW c \in Call, Work(c)
  PROVE  BookStep
<1> USE DEF FeedType, Goto, feed, node, state, bodies, meters
<1>0. at[c] \in Stages /\ spent \in Nat
  BY DEF BookType
<1>1. CASE Execute(c)
  <2>1. PICK o \in Bodies(Here(c).kind, Input(c)) : Conclude(c, o) /\ spent' = spent + o.tokens
    BY <1>1 DEF Execute
  <2>2. Concludes(c, o)
    BY <1>1, <2>1, TokensOfBodies DEF Execute, Concludes
  <2>. QED  BY <2>2 DEF BookStep
<1>2. CASE GetTask(c) \/ QueueRaises(c) \/ EndUndo(c)
  <2>1. PICK o \in {Ok("answer"), Ok("marker"), Raised, Ok("dict"), Failed("dict")} : Conclude(c, o)
    BY <1>2 DEF GetTask, QueueRaises, EndUndo
  <2>2. o.tokens = 0
    BY DEF Ok, Failed, Raised
  <2>3. spent' = spent + o.tokens
    BY <1>0, <1>2, <2>2 DEF GetTask, QueueRaises, EndUndo
  <2>4. Concludes(c, o)
    BY <1>2, <2>1, <2>2, <2>3 DEF GetTask, QueueRaises, EndUndo, Concludes
  <2>. QED  BY <2>4 DEF BookStep
<1>3. CASE LoopRound(c)
  <2>1. PICK o \in AgentBody(Input(c)) :
          /\ spent' = spent + o.tokens
          /\ Conclude(c, o) \/ UNCHANGED <<pc, node, audit>>
    BY <1>3 DEF LoopRound
  <2>2. o.tokens \in Nat
    <3>1. o \in Bodies("agent", Input(c))
      BY DEF Bodies
    <3>. QED  BY <3>1, TokensOfBodies
  <2>3. Concludes(c, o) \/ GoesRound(c, o.tokens)
    BY <1>3, <2>1, <2>2 DEF LoopRound, Concludes, GoesRound
  <2>. QED  BY <2>3 DEF BookStep
<1>4. CASE EmitTask(c) \/ BeginLoop(c) \/ BeginUndo(c) \/ UndoNext(c)
  <2>1. Aside
    BY <1>4 DEF EmitTask, BeginLoop, BeginUndo, UndoNext, Aside, BookType
  <2>. QED  BY <2>1 DEF BookStep
<1>5. CASE NextNode(c)
  <2>1. /\ at' = [at EXCEPT ![c] = at[c] + 1] /\ pc[c] = "wave"
        /\ pc' = [pc EXCEPT ![c] = "start"] /\ at[c] + 1 \in Stages
        /\ nodeState[c][at[c] + 1] = "PENDING"
        /\ UNCHANGED <<scenario, record, output, nodeState, resumes, sent, audit, cost, spent>>
    BY <1>5 DEF NextNode, NextIsDue
  <2>2. Aside
    BY <2>1 DEF Aside, BookType
  <2>. QED  BY <2>2 DEF BookStep
<1>6. CASE NothingReady(c) \/ ConditionRaises(c)
  <2>1. /\ pc[c] = "wave" /\ pc' \in {[pc EXCEPT ![c] = p] : p \in {"finish", "returned"}}
        /\ UNCHANGED <<scenario, at, record, output, nodeState, resumes, sent, audit, cost, spent>>
        /\ pc'[c] = "returned" =>
             \E i \in Stages : Pipe[i].condition /\ nodeState[c][i] = "PENDING"
    BY <1>6 DEF NothingReady, ConditionRaises, NextIsDue
  <2>2. Aside
    BY <2>1 DEF Aside, BookType
  <2>. QED  BY <2>2 DEF BookStep
<1>7. CASE Finish(c)
  <2>1. Returns(c)
    BY <1>7 DEF Finish, Returns
  <2>. QED  BY <2>1 DEF BookStep
<1>. QED
  BY <1>1, <1>2, <1>3, <1>4, <1>5, <1>6, <1>7 DEF Work, BookStep

LEMMA StepIsBooked ==
  ASSUME FeedType, BookType, [Next]_vars
  PROVE  BookStep
<1> USE DEF FeedType, Goto, feed, node, state, bodies, meters
<1>1. ASSUME NEW c \in Call, Begin(c) PROVE Aside
  BY <1>1 DEF Begin, Aside, BookType
<1>2. ASSUME NEW c \in Call, Read(c) \/ Leave(c) PROVE Aside
  BY <1>2 DEF Read, Take, EndStream, Leave, Aside, BookType
<1>3. ASSUME NEW a \in Action, AddAction(a) PROVE Aside
  BY <1>3 DEF AddAction, Aside, BookType
<1>4. ASSUME Quiet \/ UNCHANGED vars PROVE Aside
  <2>1. UNCHANGED vars
    BY <1>4 DEF Quiet
  <2>. QED  BY <2>1 DEF vars, Aside, BookType
<1>. QED
  BY <1>1, <1>2, <1>3, <1>4, WorkIsBooked DEF Next, BookStep

\* What Conclude does to the record, the output and the audit.
LEMMA ConcludeSettles ==
  ASSUME FeedType, BookType, NEW c \in Call, NEW o, Concludes(c, o)
  PROVE  /\ UNCHANGED at
         /\ pc' \in {[pc EXCEPT ![c] = p] : p \in {"body", "after", "close"}}
         /\ pc'[c] = "body" => PolicyAt(at[c]) = "RETRY" /\ UNCHANGED <<record, output>>
         /\ pc'[c] \in {"after", "close"} =>
              /\ record' = [record EXCEPT ![c] = record'[c]]
              /\ output' = [output EXCEPT ![c] = output'[c]]
              /\ output'[c].tokens \in {0, o.tokens}
         /\ pc'[c] = "after" =>
              /\ record'[c] \in Settled /\ UNCHANGED audit
              /\ PolicyAt(at[c]) # "SKIP" => output'[c].tokens = o.tokens
         /\ pc'[c] = "close" =>
              \/ record'[c] = "DONE" /\ PolicyAt(at[c]) = "FALLBACK" /\ UNCHANGED audit
              \/ record'[c] = "FAILED"
         /\ \/ UNCHANGED audit
            \/ /\ \E n \in {0, 1} : audit' = [audit EXCEPT ![c][at[c]].node_failed = @ + n]
               /\ \/ pc'[c] = "body"
                  \/ pc'[c] = "close" /\ record'[c] = "FAILED"
<1> USE DEF FeedType, BookType, Concludes, Settle, Settled
<1>1. pc[c] = "body" \/ pc[c] = "asking" \/ pc[c] = "looping" \/ pc[c] = "undoing"
  OBVIOUS
<1>0. ASSUME HearsOf(c, o)
      PROVE  \/ UNCHANGED audit
             \/ \E n \in {0, 1} : audit' = [audit EXCEPT ![c][at[c]].node_failed = @ + n]
  BY <1>0 DEF HearsOf, Entries
<1>2. CASE TryAgain(c, o)
  <2>1. \/ UNCHANGED audit
        \/ \E n \in {0, 1} : audit' = [audit EXCEPT ![c][at[c]].node_failed = @ + n]
    BY <1>0, <1>2 DEF TryAgain
  <2>2. /\ pc' = [pc EXCEPT ![c] = "body"] /\ PolicyAt(at[c]) = "RETRY"
        /\ UNCHANGED <<at, record, output>>
    BY <1>2 DEF TryAgain, MayRetry
  <2>3. pc'[c] = "body"
    BY <2>2
  <2>4. pc' \in {[pc EXCEPT ![c] = p] : p \in {"body", "after", "close"}}
    BY <2>2
  <2>5. ~(pc'[c] \in {"after", "close"}) /\ pc'[c] # "after" /\ pc'[c] # "close"
    BY <2>3
  <2>. QED  BY <2>1, <2>2, <2>3, <2>4, <2>5, Zenon
<1>3. CASE Succeed(c, o)
  BY <1>3 DEF Succeed
<1>4. CASE Skip(c, o)
  BY <1>4 DEF Skip, Ok
<1>5. CASE FallBack(c, o)
  BY <1>5 DEF FallBack
<1>6. CASE Fail(c, o)
  BY <1>0, <1>6 DEF Fail
<1>. QED  BY <1>2, <1>3, <1>4, <1>5, <1>6 DEF Conclude

\* One entry of a table of tables is replaced.
Replaces(g, f, A, B, a, b, v) ==
  /\ DOMAIN g = A /\ \A x \in A : DOMAIN g[x] = B
  /\ g = [x \in A |-> [y \in B |-> IF x = a /\ y = b THEN v ELSE f[x][y]]]
  /\ \A x \in A, y \in B : g[x][y] = IF x = a /\ y = b THEN v ELSE f[x][y]

LEMMA ReplaceOne ==
  ASSUME NEW A, NEW B, NEW S, NEW f \in [A -> [B -> S]], NEW a \in A, NEW b \in B, NEW v,
         NEW g, g = [f EXCEPT ![a][b] = v]
  PROVE  Replaces(g, f, A, B, a, b, v)
<1>1. g = [x \in A |-> IF x = a THEN [y \in B |-> IF y = b THEN v ELSE f[a][y]] ELSE f[x]]
  OBVIOUS
<1>2. \A x \in A : g[x] = [y \in B |-> IF x = a /\ y = b THEN v ELSE f[x][y]]
  <2>1. \A x \in A : f[x] = [y \in B |-> f[x][y]]
    OBVIOUS
  <2>. QED  BY <1>1, <2>1
<1>3. g = [x \in A |-> g[x]]
  BY <1>1
<1>. QED  BY <1>2, <1>3 DEF Replaces

AuditKept ==
  \/ audit' = audit
  \/ \E c \in Call, t \in AuditTrail : audit' = [audit EXCEPT ![c][at[c]] = t]

TrailTyped(t, n) ==
  /\ [t EXCEPT !.node_started = @ + n] \in AuditTrail
  /\ [t EXCEPT !.node_completed = @ + n] \in AuditTrail
  /\ [t EXCEPT !.node_failed = @ + n] \in AuditTrail

LEMMA TrailCounts ==
  ASSUME NEW t \in AuditTrail, NEW n \in Nat
  PROVE  TrailTyped(t, n)
  BY DEF AuditTrail, TrailTyped

LEMMA KeptAuditTyped ==
  ASSUME BookType, scenario' = scenario, AuditKept
  PROVE  (audit \in [Call -> [Stages -> AuditTrail]])'
<1>1. Stages' = Stages
  BY DEF Pipe, Stages
<1>2. ASSUME NEW c \in Call, NEW t \in AuditTrail, audit' = [audit EXCEPT ![c][at[c]] = t]
      PROVE  audit' \in [Call -> [Stages -> AuditTrail]]
  <2>1. at[c] \in Stages /\ audit \in [Call -> [Stages -> AuditTrail]]
    BY DEF BookType
  <2>2. Replaces(audit', audit, Call, Stages, c, at[c], t)
    BY <1>2, <2>1, ReplaceOne
  <2>3. \A x \in Call, y \in Stages : (IF x = c /\ y = at[c] THEN t ELSE audit[x][y]) \in AuditTrail
    BY <2>1
  <2>. QED  BY <2>2, <2>3 DEF Replaces
<1>. QED  BY <1>1, <1>2 DEF AuditKept, BookType

LEMMA NextBookType ==
  ASSUME FeedType, BookType, PlaceInv, BookStep
  PROVE  BookType'
<1> USE DEF FeedType, Goto, node, state
<1>1. CASE Aside
  <2>1. /\ UNCHANGED <<scenario, record, output, nodeState, resumes, audit, cost, spent>>
        /\ at' \in [Call -> Stages]
    BY <1>1 DEF Aside
  <2>2. Stages' = Stages
    BY <2>1 DEF Pipe, Stages
  <2>. QED  BY <2>1, <2>2 DEF BookType
<1>2. ASSUME NEW c \in Call, StartNode(c) \/ TransformRaises(c) \/ BeforeNode(c) \/ AfterNode(c) \/ CloseNode(c)
      PROVE  BookType'
  <2>1. UNCHANGED <<scenario, at, record, output, resumes, spent>> /\ at[c] \in Stages
    BY <1>2 DEF StartNode, TransformRaises, BeforeNode, AfterNode, CloseNode, meters, BookType
  <2>2. nodeState' \in [Call -> [Stages -> NodeState]]
    <3>1. nodeState \in [Call -> [Stages -> NodeState]] /\ record[c] \in NodeState
      BY DEF BookType
    <3>2. PICK st \in NodeState : nodeState' = nodeState \/ nodeState' = [nodeState EXCEPT ![c][at[c]] = st]
      BY <1>2, <3>1 DEF StartNode, TransformRaises, BeforeNode, AfterNode, CloseNode, NodeState
    <3>3. CASE nodeState' = [nodeState EXCEPT ![c][at[c]] = st]
      <4>1. Replaces(nodeState', nodeState, Call, Stages, c, at[c], st)
        BY <2>1, <3>1, <3>3, ReplaceOne
      <4>2. \A x \in Call, y \in Stages : (IF x = c /\ y = at[c] THEN st ELSE nodeState[x][y]) \in NodeState
        BY <3>1
      <4>. QED  BY <4>1, <4>2 DEF Replaces
    <3>. QED  BY <3>1, <3>2, <3>3
  <2>3. (audit \in [Call -> [Stages -> AuditTrail]])'
    <3>1. audit[c][at[c]] \in AuditTrail
      BY <2>1 DEF BookType
    <3>2. CASE UNCHANGED audit
      BY <2>1, <3>2, KeptAuditTyped DEF AuditKept
    <3>3. ASSUME NEW n \in {0, 1}, audit' = [audit EXCEPT ![c][at[c]].node_started = @ + n]
          PROVE  (audit \in [Call -> [Stages -> AuditTrail]])'
      <4>1. [audit[c][at[c]] EXCEPT !.node_started = @ + n] \in AuditTrail
        BY <3>1, TrailCounts DEF TrailTyped
      <4>2. audit' = [audit EXCEPT ![c][at[c]] = [audit[c][at[c]] EXCEPT !.node_started = @ + n]]
        BY <3>3
      <4>. QED  BY <2>1, <4>1, <4>2, KeptAuditTyped DEF AuditKept
    <3>4. ASSUME NEW n \in {0, 1}, audit' = [audit EXCEPT ![c][at[c]].node_completed = @ + n]
          PROVE  (audit \in [Call -> [Stages -> AuditTrail]])'
      <4>1. [audit[c][at[c]] EXCEPT !.node_completed = @ + n] \in AuditTrail
        BY <3>1, TrailCounts DEF TrailTyped
      <4>2. audit' = [audit EXCEPT ![c][at[c]] = [audit[c][at[c]] EXCEPT !.node_completed = @ + n]]
        BY <3>4
      <4>. QED  BY <2>1, <4>1, <4>2, KeptAuditTyped DEF AuditKept
    <3>5. Entries \subseteq {0, 1}
      BY DEF Entries
    <3>. QED  BY <1>2, <3>2, <3>3, <3>4, <3>5 DEF StartNode, TransformRaises, BeforeNode, AfterNode, CloseNode
  <2>4. cost' \in Nat
    <3>1. cost \in Nat /\ output[c].tokens \in Nat
      BY DEF BookType
    <3>2. cost' = cost \/ cost' = cost + output[c].tokens
      BY <1>2 DEF StartNode, TransformRaises, BeforeNode, AfterNode, CloseNode, meters
    <3>. QED  BY <3>1, <3>2
  <2>5. Stages' = Stages
    BY <2>1 DEF Pipe, Stages
  <2>. QED  BY <2>1, <2>2, <2>3, <2>4, <2>5 DEF BookType
<1>3. ASSUME NEW c \in Call, NEW o, Concludes(c, o) PROVE BookType'
  <2>1. UNCHANGED <<scenario, at, nodeState, resumes, cost>>
    BY <1>3, ConcludeSettles DEF Concludes
  <2>2. Stages' = Stages /\ at[c] \in Stages
    BY <2>1 DEF Pipe, Stages, BookType
  <2>3. spent' \in Nat
    <3>1. spent \in Nat /\ o.tokens \in Nat /\ spent' = spent + o.tokens
      BY <1>3 DEF Concludes, BookType
    <3>. QED  BY <3>1
  <2>4. (record \in [Call -> NodeState])'
    <3>1. \/ record' = record
          \/ record' = [record EXCEPT ![c] = record'[c]] /\ record'[c] \in NodeState
      BY <1>3, ConcludeSettles DEF Settled, NodeState
    <3>. QED  BY <3>1 DEF BookType
  <2>5. (output = [d \in Call |-> output[d]] /\ \A d \in Call : output[d].tokens \in Nat)'
    <3>1. \/ output' = output
          \/ output' = [output EXCEPT ![c] = output'[c]] /\ output'[c].tokens \in Nat
      BY <1>3, ConcludeSettles DEF Concludes
    <3>. QED  BY <3>1 DEF BookType
  <2>6. (audit \in [Call -> [Stages -> AuditTrail]])'
    <3>1. CASE UNCHANGED audit
      BY <2>1, <3>1, KeptAuditTyped DEF AuditKept
    <3>2. ASSUME NEW n \in {0, 1}, audit' = [audit EXCEPT ![c][at[c]].node_failed = @ + n]
          PROVE  (audit \in [Call -> [Stages -> AuditTrail]])'
      <4>1. audit[c][at[c]] \in AuditTrail
        BY <2>2 DEF BookType
      <4>2. [audit[c][at[c]] EXCEPT !.node_failed = @ + n] \in AuditTrail
        BY <4>1, TrailCounts DEF TrailTyped
      <4>3. audit' = [audit EXCEPT ![c][at[c]] = [audit[c][at[c]] EXCEPT !.node_failed = @ + n]]
        BY <3>2
      <4>. QED  BY <2>1, <4>2, <4>3, KeptAuditTyped DEF AuditKept
    <3>. QED  BY <1>3, <3>1, <3>2, ConcludeSettles
  <2>. QED  BY <2>1, <2>2, <2>3, <2>4, <2>5, <2>6 DEF BookType
<1>4. ASSUME NEW c \in Call, NEW n, GoesRound(c, n) PROVE BookType'
  BY <1>4 DEF GoesRound, BookType, Pipe, Stages
<1>5. ASSUME NEW c \in Call, Returns(c) PROVE BookType'
  BY <1>5 DEF Returns, BookType, Pipe, Stages
<1>6. ASSUME NEW c \in Call, NEW i \in Stages, Resume(c, i) PROVE BookType'
  <2>1. /\ UNCHANGED <<scenario, record, output, audit, cost, spent>>
        /\ nodeState' = [nodeState EXCEPT ![c][i] = "DONE"]
        /\ resumes' = [resumes EXCEPT ![c] = @ + 1]
        /\ \/ at' = at
           \/ i + 1 \in Stages /\ at' = [at EXCEPT ![c] = i + 1]
    BY <1>6 DEF Resume, meters
  <2>2. Stages' = Stages
    BY <2>1 DEF Pipe, Stages
  <2>3. nodeState' \in [Call -> [Stages -> NodeState]]
    <3>1. nodeState \in [Call -> [Stages -> NodeState]]
      BY DEF BookType
    <3>2. Replaces(nodeState', nodeState, Call, Stages, c, i, "DONE")
      BY <2>1, <3>1, ReplaceOne
    <3>3. \A x \in Call, y \in Stages : (IF x = c /\ y = i THEN "DONE" ELSE nodeState[x][y]) \in NodeState
      BY <3>1 DEF NodeState
    <3>. QED  BY <3>2, <3>3 DEF Replaces
  <2>4. at' \in [Call -> Stages] /\ resumes' \in [Call -> Nat]
    <3>1. at \in [Call -> Stages] /\ resumes \in [Call -> Nat]
      BY DEF BookType
    <3>2. at' \in [Call -> Stages]
      <4>. HIDE DEF FeedType
      <4>. QED  BY <2>1, <3>1
    <3>3. resumes' \in [Call -> Nat]
      <4>. HIDE DEF FeedType
      <4>. QED  BY <2>1, <3>1
    <3>. QED  BY <3>2, <3>3
  <2>5. record' \in [Call -> NodeState] /\ audit' \in [Call -> [Stages -> AuditTrail]]
    BY <2>1 DEF BookType
  <2>6. /\ output' = [d \in Call |-> output'[d]] /\ \A d \in Call : output'[d].tokens \in Nat
        /\ cost' \in Nat /\ spent' \in Nat
    BY <2>1 DEF BookType
  <2>. QED  BY <2>2, <2>3, <2>4, <2>5, <2>6 DEF BookType
<1>. QED  BY <1>1, <1>2, <1>3, <1>4, <1>5, <1>6 DEF BookStep

LEMMA NextPlaceInv ==
  ASSUME FeedType, BookType, PlaceInv, BookStep
  PROVE  PlaceInv'
<1> USE DEF FeedType, Goto, Inside, Settled
<1>1. CASE Aside
  <2>. SUFFICES ASSUME NEW d \in Call
                PROVE  /\ pc'[d] = "after" => record'[d] \in Settled
                       /\ pc'[d] = "close" => record'[d] \in Settled \cup {"FAILED"}
                       /\ pc'[d] \in Inside => nodeState'[d][at'[d]] = "RUNNING"
                       /\ pc'[d] \in {"idle", "start"} /\ resumes'[d] = 0 =>
                            nodeState'[d][at'[d]] = "PENDING"
    BY DEF PlaceInv
  <2>1. UNCHANGED <<record, nodeState, resumes>>
    BY <1>1 DEF Aside
  <2>2. CASE pc'[d] = pc[d] /\ at'[d] = at[d]
    BY <2>1, <2>2 DEF PlaceInv
  <2>3. CASE at'[d] = at[d] /\ {pc[d], pc'[d]} \subseteq {"body", "asking", "looping", "undoing"}
    BY <2>1, <2>3 DEF PlaceInv
  <2>4. CASE pc[d] = "idle" /\ pc'[d] = "start" /\ at'[d] = at[d]
    BY <2>1, <2>4 DEF PlaceInv
  <2>5. CASE /\ pc[d] = "wave" /\ pc'[d] \in {"start", "finish", "returned"}
             /\ IF pc'[d] = "start" THEN nodeState[d][at'[d]] = "PENDING" ELSE at'[d] = at[d]
    BY <2>1, <2>5 DEF PlaceInv
  <2>. QED  BY <1>1, <2>2, <2>3, <2>4, <2>5 DEF Aside
<1>2. ASSUME NEW c \in Call, StartNode(c) PROVE PlaceInv'
  <2>1. /\ nodeState' = [nodeState EXCEPT ![c][at[c]] = "RUNNING"]
        /\ pc' = [pc EXCEPT ![c] = "before"] /\ UNCHANGED <<at, record, resumes>>
    BY <1>2 DEF StartNode
  <2>2. Replaces(nodeState', nodeState, Call, Stages, c, at[c], "RUNNING")
    BY <2>1, ReplaceOne DEF BookType
  <2>. QED  BY <2>1, <2>2 DEF BookType, PlaceInv, Replaces
<1>3. ASSUME NEW c \in Call, BeforeNode(c) PROVE PlaceInv'
  BY <1>3 DEF BeforeNode, node, state, PlaceInv
<1>4. ASSUME NEW c \in Call, AfterNode(c) PROVE PlaceInv'
  BY <1>4 DEF AfterNode, node, state, PlaceInv
<1>5. ASSUME NEW c \in Call, CloseNode(c) PROVE PlaceInv'
  <2>1. /\ nodeState' = [nodeState EXCEPT ![c][at[c]] = record[c]]
        /\ pc' = [pc EXCEPT ![c] = "wave"] /\ UNCHANGED <<at, record, resumes>>
    BY <1>5 DEF CloseNode, node
  <2>2. Replaces(nodeState', nodeState, Call, Stages, c, at[c], record[c])
    BY <2>1, ReplaceOne DEF BookType
  <2>. QED  BY <2>1, <2>2 DEF BookType, PlaceInv, Replaces
<1>6. ASSUME NEW c \in Call, NEW o, Concludes(c, o) PROVE PlaceInv'
  <2>1. /\ UNCHANGED <<at, nodeState, resumes>> /\ pc[c] \in Inside
        /\ pc' \in {[pc EXCEPT ![c] = p] : p \in {"body", "after", "close"}}
        /\ record' = record \/ record' = [record EXCEPT ![c] = record'[c]]
        /\ pc'[c] = "after" => record'[c] \in Settled
        /\ pc'[c] = "close" => record'[c] \in Settled \cup {"FAILED"}
    BY <1>6, ConcludeSettles DEF Concludes
  <2>. QED  BY <2>1 DEF BookType, PlaceInv
<1>7. ASSUME NEW c \in Call, NEW n, GoesRound(c, n) PROVE PlaceInv'
  BY <1>7 DEF GoesRound, PlaceInv
<1>8. ASSUME NEW c \in Call, Returns(c) PROVE PlaceInv'
  BY <1>8 DEF Returns, PlaceInv
<1>9. ASSUME NEW c \in Call, NEW i \in Stages, Resume(c, i) PROVE PlaceInv'
  <2>1. /\ UNCHANGED <<scenario, record>> /\ pc[c] = "returned"
        /\ nodeState' = [nodeState EXCEPT ![c][i] = "DONE"]
        /\ resumes' = [resumes EXCEPT ![c] = @ + 1]
        /\ \/ at' = at /\ pc' = pc
           \/ at' = [at EXCEPT ![c] = i + 1] /\ pc' = [pc EXCEPT ![c] = "start"]
    BY <1>9 DEF Resume
  <2>2. Replaces(nodeState', nodeState, Call, Stages, c, i, "DONE")
    BY <2>1, ReplaceOne DEF BookType
  <2>3. resumes'[c] # 0
    BY <2>1 DEF BookType
  <2>. QED  BY <2>1, <2>2, <2>3 DEF BookType, PlaceInv, Replaces
<1>10. ASSUME NEW c \in Call, TransformRaises(c) PROVE PlaceInv'
  <2>1. /\ nodeState' = [nodeState EXCEPT ![c][at[c]] = "FAILED"]
        /\ pc' = [pc EXCEPT ![c] = "wave"] /\ UNCHANGED <<at, record, resumes>>
    BY <1>10 DEF TransformRaises, node
  <2>2. Replaces(nodeState', nodeState, Call, Stages, c, at[c], "FAILED")
    BY <2>1, ReplaceOne DEF BookType
  <2>. QED  BY <2>1, <2>2 DEF BookType, PlaceInv, Replaces
<1>. QED  BY <1>1, <1>2, <1>3, <1>4, <1>5, <1>6, <1>7, <1>8, <1>9, <1>10 DEF BookStep

-----------------------------------------------------------------------------
(* The audit trail.                                                        *)

Places(c, type, i) == {k \in DOMAIN sent : sent[k] = [call |-> c, type |-> type, at |-> i]}

Emitted(c, type, i) == Cardinality(Places(c, type, i))

One(b) == IF b THEN 1 ELSE 0

LEMMA PlacesAreFinite ==
  ASSUME FeedType, NEW c, NEW type, NEW i
  PROVE  IsFiniteSet(Places(c, type, i)) /\ Emitted(c, type, i) \in Nat
<1>1. DOMAIN sent = 1..Len(sent) /\ Len(sent) \in Nat
  BY DEF FeedType
<1>2. IsFiniteSet(1..Len(sent))
  BY <1>1, FS_Interval
<1>3. IsFiniteSet(Places(c, type, i))
  BY <1>1, <1>2, FS_Subset DEF Places
<1>. QED  BY <1>3, FS_CardinalityType DEF Emitted

\* An event is counted where it belongs, and nowhere else.
Counted(c, type) ==
  \A d, t, i :
    Emitted(d, t, i)' =
      IF d = c /\ t = type /\ i = at[c] THEN Emitted(d, t, i) + 1 ELSE Emitted(d, t, i)

LEMMA EmitCounts ==
  ASSUME FeedType, NEW c \in Call, NEW type, Emit(c, type)
  PROVE  Counted(c, type)
<1>1. PICK e : e = [call |-> c, type |-> type, at |-> at[c]] /\ sent' = Append(sent, e)
  BY DEF Emit
<1>2. /\ DOMAIN sent = 1..Len(sent) /\ Len(sent) \in Nat
      /\ DOMAIN sent' = 1..(Len(sent) + 1)
      /\ \A k \in 1..Len(sent) : sent'[k] = sent[k]
      /\ sent'[Len(sent) + 1] = e
  BY <1>1 DEF FeedType
<1>3. ASSUME NEW d, NEW t, NEW i
      PROVE  Emitted(d, t, i)' =
               IF d = c /\ t = type /\ i = at[c] THEN Emitted(d, t, i) + 1 ELSE Emitted(d, t, i)
  <2>1. e = [call |-> d, type |-> t, at |-> i] <=> d = c /\ t = type /\ i = at[c]
    BY <1>1
  <2>2. Places(d, t, i)' = Places(d, t, i) \cup
          {k \in {Len(sent) + 1} : d = c /\ t = type /\ i = at[c]}
    BY <1>2, <2>1 DEF Places
  <2>3. Len(sent) + 1 \notin Places(d, t, i)
    BY <1>2 DEF Places
  <2>4. IsFiniteSet(Places(d, t, i))
    BY PlacesAreFinite
  <2>5. CASE d = c /\ t = type /\ i = at[c]
    <3>1. Places(d, t, i)' = Places(d, t, i) \cup {Len(sent) + 1}
      BY <2>2, <2>5
    <3>2. Cardinality(Places(d, t, i) \cup {Len(sent) + 1}) = Cardinality(Places(d, t, i)) + 1
      BY <2>3, <2>4, FS_AddElement
    <3>. QED  BY <2>5, <3>1, <3>2 DEF Emitted
  <2>6. CASE ~(d = c /\ t = type /\ i = at[c])
    <3>1. Places(d, t, i)' = Places(d, t, i)
      BY <2>2, <2>6
    <3>2. Emitted(d, t, i)' = Emitted(d, t, i)
      BY <3>1 DEF Emitted
    <3>. QED  BY <2>6, <3>2
  <2>. QED  BY <2>5, <2>6
<1>. QED  BY <1>3 DEF Counted

\* b, k and f entries of a node as started, completed and failed agree with
\* s, m and e events, under its policy.
Agree(policy, fails, transform, b, k, f, s, m, e) ==
  /\ b <= s
  /\ k <= m
  /\ policy # "RETRY" => f <= e
  /\ ~fails => /\ s <= b + e
               /\ ~transform => b = s
               /\ policy # "FALLBACK" => k = m

\* One more event, one more entry, or an entry that may be missing.
LEMMA AgreeGoesOn ==
  ASSUME NEW p, NEW fails, NEW transform, NEW n \in {0, 1},
         NEW b \in Nat, NEW k \in Nat, NEW f \in Nat, NEW s \in Nat, NEW m \in Nat, NEW e \in Nat
  PROVE  /\ Agree(p, fails, transform, b, k, f, s, m, e) =>
              Agree(p, fails, transform, b + 1, k, f, s + 1, m, e)
         /\ Agree(p, fails, transform, b + 1, k, f, s, m, e) /\ (~fails => n = 1) =>
              Agree(p, fails, transform, b + n, k, f, s, m, e)
         /\ Agree(p, fails, transform, b + 1, k, f, s, m, e) /\ transform =>
              Agree(p, fails, transform, b, k, f, s, m, e + 1)
         /\ Agree(p, fails, transform, b, k, f, s, m, e) /\ (~fails => n = 1) =>
              Agree(p, fails, transform, b, k + n, f, s, m + 1, e)
         /\ Agree(p, fails, transform, b, k, f, s, m, e) /\ (n = 1 => p = "RETRY") =>
              Agree(p, fails, transform, b, k, f + n, s, m, e)
         /\ Agree(p, fails, transform, b, k, f, s, m, e) =>
              Agree(p, fails, transform, b, k, f + n, s, m, e + 1)
         /\ Agree(p, fails, transform, b, k, f, s, m, e) /\ p = "FALLBACK" =>
              Agree(p, fails, transform, b, k, f, s, m + 1, e)
  BY DEF Agree

\* The trail of a node, while it is under way too: a hook is called before
\* or after the event it belongs to.
AuditedAs(t, i, place, here, outcome, started, completed, failed) ==
  Agree(PolicyAt(i), scenario.auditFails, Pipe[i].transform,
        t.node_started + One(place = "before" /\ here), t.node_completed, t.node_failed,
        started, completed + One(place = "close" /\ here /\ outcome \in Settled),
        failed + One(place = "close" /\ here /\ outcome = "FAILED"))

AuditInv ==
  \A c \in Call, i \in Stages :
    AuditedAs(audit[c][i], i, pc[c], at[c] = i, record[c],
              Emitted(c, "NodeStarted", i), Emitted(c, "NodeCompleted", i), Emitted(c, "NodeFailed", i))

\* The trails of all other calls and nodes stay as they are.
LEMMA OthersAreAudited ==
  ASSUME FeedType, BookType, AuditInv, scenario' = scenario, NEW d \in Call, NEW i \in Stages,
         audit'[d][i] = audit[d][i],
         Emitted(d, "NodeStarted", i)' = Emitted(d, "NodeStarted", i),
         Emitted(d, "NodeCompleted", i)' = Emitted(d, "NodeCompleted", i),
         Emitted(d, "NodeFailed", i)' = Emitted(d, "NodeFailed", i),
         \/ pc'[d] = pc[d] /\ at'[d] = at[d] /\ record'[d] = record[d]
         \/ at[d] # i /\ at'[d] = at[d]
         \/ pc[d] \notin Booking /\ pc'[d] \notin Booking
  PROVE  AuditedAs(audit[d][i], i, pc[d], at[d] = i, record[d],
                   Emitted(d, "NodeStarted", i), Emitted(d, "NodeCompleted", i),
                   Emitted(d, "NodeFailed", i))'
<1>1. AuditedAs(audit[d][i], i, pc[d], at[d] = i, record[d], Emitted(d, "NodeStarted", i),
                Emitted(d, "NodeCompleted", i), Emitted(d, "NodeFailed", i))
  BY DEF AuditInv
<1>2. PolicyAt(i)' = PolicyAt(i) /\ Pipe' = Pipe
  BY DEF PolicyAt, Pipe
<1>. QED  BY <1>1, <1>2 DEF AuditedAs, One, Booking

Audited(d, i) ==
  AuditedAs(audit[d][i], i, pc[d], at[d] = i, record[d], Emitted(d, "NodeStarted", i),
            Emitted(d, "NodeCompleted", i), Emitted(d, "NodeFailed", i))

\* A step of c at its node: the trail of that node is all there is to see to.
LEMMA AtWork ==
  ASSUME FeedType, BookType, AuditInv, NEW c \in Call, NEW type, NEW t,
         UNCHANGED <<scenario, at>>, UNCHANGED sent \/ Emit(c, type),
         \A d \in Call : d # c => pc'[d] = pc[d] /\ record'[d] = record[d],
         audit' = [audit EXCEPT ![c][at[c]] = t],
         Audited(c, at[c])'
  PROVE  AuditInv'
<1>. SUFFICES ASSUME NEW d \in Call, NEW i \in Stages PROVE Audited(d, i)'
  BY DEF AuditInv, Audited, Stages, Pipe
<1>1. CASE d = c /\ i = at[c]
  BY <1>1 DEF Audited
<1>2. CASE ~(d = c /\ i = at[c])
  <2>1. Replaces(audit', audit, Call, Stages, c, at[c], t)
    <3>1. at[c] \in Stages
      BY DEF BookType
    <3>. QED  BY <3>1, ReplaceOne DEF BookType
  <2>2. audit'[d][i] = audit[d][i]
    BY <1>2, <2>1 DEF Replaces
  <2>3. \A x \in {"NodeStarted", "NodeCompleted", "NodeFailed"} :
          Emitted(d, x, i)' = Emitted(d, x, i)
    <3>1. CASE UNCHANGED sent
      BY <3>1 DEF Emitted, Places
    <3>2. CASE Emit(c, type)
      <4>1. Counted(c, type)
        BY <3>2, EmitCounts
      <4>. QED  BY <1>2, <4>1 DEF Counted
    <3>. QED  BY <3>1, <3>2
  <2>4. \/ pc'[d] = pc[d] /\ at'[d] = at[d] /\ record'[d] = record[d]
        \/ at[d] # i /\ at'[d] = at[d]
    BY <1>2
  <2>. QED  BY <2>2, <2>3, <2>4, OthersAreAudited DEF Audited
<1>. QED  BY <1>1, <1>2

\* The numbers of a node at work, before the step and after it.
Numbers(c, b, k, f, s, m, e) ==
  /\ audit[c][at[c]] \in AuditTrail
  /\ b = audit[c][at[c]].node_started /\ k = audit[c][at[c]].node_completed
  /\ f = audit[c][at[c]].node_failed
  /\ s = Emitted(c, "NodeStarted", at[c]) /\ m = Emitted(c, "NodeCompleted", at[c])
  /\ e = Emitted(c, "NodeFailed", at[c])

LEMMA NumbersOf ==
  ASSUME FeedType, BookType, AuditInv, NEW c \in Call
  PROVE  \E b, k, f, s, m, e \in Nat :
           /\ Numbers(c, b, k, f, s, m, e)
           /\ Agree(PolicyAt(at[c]), scenario.auditFails, Here(c).transform,
                    b + One(pc[c] = "before"), k, f, s, m + One(pc[c] = "close" /\ record[c] \in Settled),
                    e + One(pc[c] = "close" /\ record[c] = "FAILED"))
<1>1. at[c] \in Stages /\ audit[c][at[c]] \in AuditTrail
  BY DEF BookType
<1>2. PICK b, k, f \in Nat : /\ b = audit[c][at[c]].node_started
                             /\ k = audit[c][at[c]].node_completed
                             /\ f = audit[c][at[c]].node_failed
  BY <1>1 DEF AuditTrail
<1>3. PICK s, m, e \in Nat : /\ s = Emitted(c, "NodeStarted", at[c])
                             /\ m = Emitted(c, "NodeCompleted", at[c])
                             /\ e = Emitted(c, "NodeFailed", at[c])
  BY PlacesAreFinite
<1>4. Numbers(c, b, k, f, s, m, e)
  BY <1>1, <1>2, <1>3 DEF Numbers
<1>5. AuditedAs(audit[c][at[c]], at[c], pc[c], at[c] = at[c], record[c],
                Emitted(c, "NodeStarted", at[c]), Emitted(c, "NodeCompleted", at[c]),
                Emitted(c, "NodeFailed", at[c]))
  BY <1>1 DEF AuditInv
<1>6. /\ One(pc[c] = "before" /\ at[c] = at[c]) = One(pc[c] = "before")
      /\ One(pc[c] = "close" /\ at[c] = at[c] /\ record[c] \in Settled) =
           One(pc[c] = "close" /\ record[c] \in Settled)
      /\ One(pc[c] = "close" /\ at[c] = at[c] /\ record[c] = "FAILED") =
           One(pc[c] = "close" /\ record[c] = "FAILED")
  BY DEF One
<1>7. Agree(PolicyAt(at[c]), scenario.auditFails, Here(c).transform,
            b + One(pc[c] = "before"), k, f, s, m + One(pc[c] = "close" /\ record[c] \in Settled),
            e + One(pc[c] = "close" /\ record[c] = "FAILED"))
  BY <1>2, <1>3, <1>5, <1>6 DEF AuditedAs, Here
<1>. QED  BY <1>4, <1>7

\* And the other way: numbers that agree after the step.
LEMMA NumbersAre ==
  ASSUME BookType, NEW c \in Call, UNCHANGED <<scenario, at>>,
         NEW b \in Nat, NEW k \in Nat, NEW f \in Nat, NEW s \in Nat, NEW m \in Nat, NEW e \in Nat,
         Numbers(c, b, k, f, s, m, e)',
         Agree(PolicyAt(at[c]), scenario.auditFails, Here(c).transform,
               b + One(pc'[c] = "before"), k, f, s,
               m + One(pc'[c] = "close" /\ record'[c] \in Settled),
               e + One(pc'[c] = "close" /\ record'[c] = "FAILED"))
  PROVE  Audited(c, at[c])'
<1>1. PolicyAt(at[c])' = PolicyAt(at[c]) /\ Pipe' = Pipe /\ at'[c] = at[c]
  BY DEF PolicyAt, Pipe
<1>2. /\ One(pc'[c] = "before" /\ at'[c] = at'[c]) = One(pc'[c] = "before")
      /\ One(pc'[c] = "close" /\ at'[c] = at'[c] /\ record'[c] \in Settled) =
           One(pc'[c] = "close" /\ record'[c] \in Settled)
      /\ One(pc'[c] = "close" /\ at'[c] = at'[c] /\ record'[c] = "FAILED") =
           One(pc'[c] = "close" /\ record'[c] = "FAILED")
  BY DEF One
<1>. QED  BY <1>1, <1>2 DEF Audited, AuditedAs, Numbers, Here, Settled

\* What a step does to the numbers.
LEMMA NumbersGoOn ==
  ASSUME FeedType, BookType, NEW c \in Call, NEW type, UNCHANGED at,
         NEW b \in Nat, NEW k \in Nat, NEW f \in Nat, NEW s \in Nat, NEW m \in Nat, NEW e \in Nat,
         NEW b2 \in Nat, NEW k2 \in Nat, NEW f2 \in Nat,
         NEW t, t = [node_started |-> b2, node_completed |-> k2, node_failed |-> f2],
         Numbers(c, b, k, f, s, m, e), audit' = [audit EXCEPT ![c][at[c]] = t],
         IF type = "nothing" THEN UNCHANGED sent ELSE Emit(c, type)
  PROVE  Numbers(c, b2, k2, f2, s + One(type = "NodeStarted"), m + One(type = "NodeCompleted"),
                 e + One(type = "NodeFailed"))'
<1>1. audit'[c][at[c]] = t /\ t \in AuditTrail
  BY DEF BookType, AuditTrail
<1>2. /\ Emitted(c, "NodeStarted", at[c])' = s + One(type = "NodeStarted")
      /\ Emitted(c, "NodeCompleted", at[c])' = m + One(type = "NodeCompleted")
      /\ Emitted(c, "NodeFailed", at[c])' = e + One(type = "NodeFailed")
  <2>1. CASE type = "nothing"
    <3>1. \A x, i : Emitted(c, x, i)' = Emitted(c, x, i)
      BY <2>1 DEF Emitted, Places
    <3>. QED  BY <2>1, <3>1 DEF Numbers, One
  <2>2. CASE type # "nothing"
    <3>1. Counted(c, type)
      BY <2>2, EmitCounts
    <3>2. \A x : Emitted(c, x, at[c])' = IF x = type THEN Emitted(c, x, at[c]) + 1 ELSE Emitted(c, x, at[c])
      BY <3>1 DEF Counted
    <3>. QED  BY <3>2 DEF Numbers, One
  <2>. QED  BY <2>1, <2>2
<1>. QED  BY <1>1, <1>2 DEF Numbers

\* The entries fit the events after a step that emits one of that type.
Fits(c, type, b, k, f, s, m, e) ==
  Agree(PolicyAt(at[c]), scenario.auditFails, Here(c).transform,
        b + One(pc'[c] = "before"), k, f, s + One(type = "NodeStarted"),
        m + One(type = "NodeCompleted") + One(pc'[c] = "close" /\ record'[c] \in Settled),
        e + One(type = "NodeFailed") + One(pc'[c] = "close" /\ record'[c] = "FAILED"))

LEMMA NextAudit ==
  ASSUME FeedType, BookType, PlaceInv, AuditInv, BookStep
  PROVE  AuditInv'
<1> USE DEF Goto, node, state
\* A step at a node, in numbers.
<1>0. ASSUME NEW c \in Call, NEW type, UNCHANGED <<scenario, at>>,
             NEW b \in Nat, NEW k \in Nat, NEW f \in Nat, NEW s \in Nat, NEW m \in Nat, NEW e \in Nat,
             NEW b2 \in Nat, NEW k2 \in Nat, NEW f2 \in Nat,
             Numbers(c, b, k, f, s, m, e),
             IF type = "nothing" THEN UNCHANGED sent ELSE Emit(c, type),
             \A d \in Call : d # c => pc'[d] = pc[d] /\ record'[d] = record[d],
             audit' = [audit EXCEPT ![c][at[c]] =
                         [node_started |-> b2, node_completed |-> k2, node_failed |-> f2]],
             Fits(c, type, b2, k2, f2, s, m, e)
      PROVE  AuditInv'
  <2>1. PICK t : t = [node_started |-> b2, node_completed |-> k2, node_failed |-> f2]
    OBVIOUS
  <2>2. audit' = [audit EXCEPT ![c][at[c]] = t]
    BY <1>0, <2>1
  <2>3. PICK s2, m2, e2 \in Nat : /\ s2 = s + One(type = "NodeStarted")
                                  /\ m2 = m + One(type = "NodeCompleted")
                                  /\ e2 = e + One(type = "NodeFailed")
    BY DEF One
  <2>4. Numbers(c, b2, k2, f2, s2, m2, e2)'
    <3>1. Numbers(c, b2, k2, f2, s + One(type = "NodeStarted"), m + One(type = "NodeCompleted"),
                  e + One(type = "NodeFailed"))'
      BY <1>0, <2>1, <2>2, NumbersGoOn
    <3>. QED  BY <2>3, <3>1
  <2>5. Audited(c, at[c])'
    BY <1>0, <2>3, <2>4, NumbersAre DEF Fits
  <2>. QED  BY <1>0, <2>2, <2>5, AtWork
<1>1. CASE Aside
  <2>. SUFFICES ASSUME NEW d \in Call, NEW i \in Stages PROVE Audited(d, i)'
    BY <1>1 DEF AuditInv, Audited, Aside, Stages, Pipe
  <2>1. /\ UNCHANGED <<scenario, record, sent, audit>>
        /\ \/ pc'[d] = pc[d] /\ at'[d] = at[d]
           \/ pc[d] \notin Booking /\ pc'[d] \notin Booking
    BY <1>1 DEF Aside, Booking
  <2>2. \A x : Emitted(d, x, i)' = Emitted(d, x, i)
    BY <2>1 DEF Emitted, Places
  <2>. QED  BY <2>1, <2>2, OthersAreAudited DEF Audited
<1>2. ASSUME NEW c \in Call,
             \/ StartNode(c) \/ BeforeNode(c) \/ TransformRaises(c) \/ AfterNode(c) \/ CloseNode(c)
             \/ \E o : Concludes(c, o)
      PROVE  AuditInv'
  <2>1. PICK b, k, f, s, m, e \in Nat :
          /\ Numbers(c, b, k, f, s, m, e)
          /\ Agree(PolicyAt(at[c]), scenario.auditFails, Here(c).transform,
                   b + One(pc[c] = "before"), k, f, s, m + One(pc[c] = "close" /\ record[c] \in Settled),
                   e + One(pc[c] = "close" /\ record[c] = "FAILED"))
    BY NumbersOf
  <2>2. PICK p, fails, transform : /\ p = PolicyAt(at[c]) /\ fails = scenario.auditFails
                                   /\ transform = Here(c).transform
    OBVIOUS
  <2>3. ASSUME pc[c] \notin Booking PROVE Agree(p, fails, transform, b, k, f, s, m, e)
    BY <2>1, <2>2, <2>3 DEF One, Booking
  <2>4. ASSUME NEW n \in {0, 1} PROVE b + n \in Nat /\ k + n \in Nat /\ f + n \in Nat
    OBVIOUS
  <2>5. pc \in [Call -> {"idle", "start", "before", "body", "asking", "looping", "undoing",
                         "after", "close", "wave", "finish", "returned"}]
    BY DEF FeedType
  <2>6. b + 1 \in Nat /\ s + 1 \in Nat /\ m + 1 \in Nat /\ e + 1 \in Nat
    OBVIOUS
  <2>7. /\ b + 0 = b /\ m + 0 + 0 = m /\ e + 0 + 0 = e /\ m + 0 + 1 = m + 1 /\ e + 0 + 1 = e + 1
         /\ m + 1 + 0 = m + 1 /\ e + 1 + 0 = e + 1 /\ s + 0 = s
    OBVIOUS
  <2>8. PICK t \in AuditTrail : t = audit[c][at[c]]
    BY <2>1 DEF Numbers
  <2>9. t = [node_started |-> b, node_completed |-> k, node_failed |-> f]
    BY <2>1, <2>8 DEF Numbers, AuditTrail
  <2>10. ASSUME NEW n \in {0, 1}
         PROVE  /\ [audit EXCEPT ![c][at[c]].node_started = @ + n] =
                     [audit EXCEPT ![c][at[c]] =
                        [node_started |-> b + n, node_completed |-> k, node_failed |-> f]]
                /\ [audit EXCEPT ![c][at[c]].node_completed = @ + n] =
                     [audit EXCEPT ![c][at[c]] =
                        [node_started |-> b, node_completed |-> k + n, node_failed |-> f]]
                /\ [audit EXCEPT ![c][at[c]].node_failed = @ + n] =
                     [audit EXCEPT ![c][at[c]] =
                        [node_started |-> b, node_completed |-> k, node_failed |-> f + n]]
    <3>1. /\ [t EXCEPT !.node_started = @ + n] =
               [node_started |-> b + n, node_completed |-> k, node_failed |-> f]
          /\ [t EXCEPT !.node_completed = @ + n] =
               [node_started |-> b, node_completed |-> k + n, node_failed |-> f]
          /\ [t EXCEPT !.node_failed = @ + n] =
               [node_started |-> b, node_completed |-> k, node_failed |-> f + n]
      BY <2>9
    <3>. QED  BY <2>8, <3>1
  <2>11. audit = [audit EXCEPT ![c][at[c]] =
                    [node_started |-> b, node_completed |-> k, node_failed |-> f]]
    <3>1. audit = [audit EXCEPT ![c][at[c]] = audit[c][at[c]]]
      BY DEF BookType
    <3>. QED  BY <2>8, <2>9, <3>1
  <2>12. ASSUME NEW q, pc' = [pc EXCEPT ![c] = q], UNCHANGED record
         PROVE  \A d \in Call : d # c => pc'[d] = pc[d] /\ record'[d] = record[d]
    BY <2>5, <2>12
  <2>13. CASE StartNode(c)
    <3>1. /\ UNCHANGED <<scenario, at, record, audit>> /\ Emit(c, "NodeStarted")
          /\ pc[c] = "start" /\ pc' = [pc EXCEPT ![c] = "before"]
      BY <2>13 DEF StartNode
    <3>2. Agree(p, fails, transform, b + 1, k, f, s + 1, m, e)
      BY <2>1, <2>3, <3>1, AgreeGoesOn DEF Booking
    <3>3. Fits(c, "NodeStarted", b, k, f, s, m, e)
      BY <2>2, <2>5, <2>7, <3>1, <3>2 DEF Fits, One
    <3>4. audit' = [audit EXCEPT ![c][at[c]] =
                      [node_started |-> b, node_completed |-> k, node_failed |-> f]]
      BY <2>11, <3>1
    <3>5. \A d \in Call : d # c => pc'[d] = pc[d] /\ record'[d] = record[d]
      BY <2>12, <3>1
    <3>. QED  BY <1>0, <2>1, <3>1, <3>3, <3>4, <3>5
  <2>14. CASE BeforeNode(c)
    <3>1. PICK n \in {0, 1} :
            /\ ~scenario.auditFails => n = 1
            /\ audit' = [audit EXCEPT ![c][at[c]].node_started = @ + n]
      BY <2>14 DEF BeforeNode, Entries
    <3>2. /\ UNCHANGED <<scenario, at, record, sent>>
          /\ pc[c] = "before" /\ pc' = [pc EXCEPT ![c] = "body"]
      BY <2>14 DEF BeforeNode, feed
    <3>3. Agree(p, fails, transform, b + 1, k, f, s, m, e)
      BY <2>1, <2>2, <2>7, <3>2 DEF One
    <3>4. Agree(p, fails, transform, b + n, k, f, s, m, e)
      BY <2>1, <2>2, <3>1, <3>3, AgreeGoesOn
    <3>5. Fits(c, "nothing", b + n, k, f, s, m, e)
      <4>1. (b + n) + 0 = b + n
        BY <2>4
      <4>. QED  BY <2>2, <2>5, <2>7, <3>2, <3>4, <4>1 DEF Fits, One
    <3>6. audit' = [audit EXCEPT ![c][at[c]] =
                      [node_started |-> b + n, node_completed |-> k, node_failed |-> f]]
      BY <2>10, <3>1
    <3>. QED  BY <1>0, <2>1, <2>4, <2>5, <3>2, <3>5, <3>6
  <2>15. CASE TransformRaises(c)
    <3>1. /\ UNCHANGED <<scenario, at, record, audit>> /\ Emit(c, "NodeFailed")
          /\ pc[c] = "before" /\ pc' = [pc EXCEPT ![c] = "wave"]
      BY <2>15 DEF TransformRaises
    <3>0. Here(c).transform
      BY <2>15 DEF TransformRaises
    <3>2. Agree(p, fails, transform, b + 1, k, f, s, m, e)
      BY <2>1, <2>2, <2>7, <3>1 DEF One
    <3>3. Agree(p, fails, transform, b, k, f, s, m, e + 1)
      BY <2>1, <2>2, <3>0, <3>2, AgreeGoesOn
    <3>4. Fits(c, "NodeFailed", b, k, f, s, m, e)
      BY <2>2, <2>5, <2>7, <3>1, <3>3 DEF Fits, One
    <3>5. audit' = [audit EXCEPT ![c][at[c]] =
                      [node_started |-> b, node_completed |-> k, node_failed |-> f]]
      BY <2>11, <3>1
    <3>6. \A d \in Call : d # c => pc'[d] = pc[d] /\ record'[d] = record[d]
      BY <2>12, <3>1
    <3>. QED  BY <1>0, <2>1, <3>1, <3>4, <3>5, <3>6
  <2>16. CASE AfterNode(c)
    <3>1. PICK n \in {0, 1} :
            /\ ~scenario.auditFails => n = 1
            /\ audit' = [audit EXCEPT ![c][at[c]].node_completed = @ + n]
      BY <2>16 DEF AfterNode, Entries
    <3>2. /\ UNCHANGED <<scenario, at, record, sent>>
          /\ pc[c] = "after" /\ pc' = [pc EXCEPT ![c] = "close"]
      BY <2>16 DEF AfterNode, feed
    <3>3. Agree(p, fails, transform, b, k, f, s, m, e)
      BY <2>1, <2>2, <2>7, <3>2 DEF One
    <3>4. Agree(p, fails, transform, b, k + n, f, s, m + 1, e)
      BY <2>1, <2>2, <3>1, <3>3, AgreeGoesOn
    <3>5. record'[c] \in Settled /\ record'[c] # "FAILED"
      BY <3>2 DEF PlaceInv, Settled
    <3>6. Fits(c, "nothing", b, k + n, f, s, m, e)
      BY <2>2, <2>5, <2>7, <3>2, <3>4, <3>5 DEF Fits, One
    <3>7. audit' = [audit EXCEPT ![c][at[c]] =
                      [node_started |-> b, node_completed |-> k + n, node_failed |-> f]]
      BY <2>10, <3>1
    <3>. QED  BY <1>0, <2>1, <2>4, <2>5, <3>2, <3>6, <3>7
  <2>17. CASE CloseNode(c)
    <3>1. /\ UNCHANGED <<scenario, at, record, audit>>
          /\ pc[c] = "close" /\ pc' = [pc EXCEPT ![c] = "wave"]
          /\ Emit(c, IF record[c] = "FAILED" THEN "NodeFailed" ELSE "NodeCompleted")
      BY <2>17 DEF CloseNode
    <3>2. record[c] \in Settled <=> record[c] # "FAILED"
      BY <3>1 DEF PlaceInv, Settled
    <3>5. audit' = [audit EXCEPT ![c][at[c]] =
                      [node_started |-> b, node_completed |-> k, node_failed |-> f]]
      BY <2>11, <3>1
    <3>6. \A d \in Call : d # c => pc'[d] = pc[d] /\ record'[d] = record[d]
      BY <2>12, <3>1
    <3>3. CASE record[c] = "FAILED"
      <4>1. Agree(p, fails, transform, b, k, f, s, m, e + 1)
        BY <2>1, <2>2, <2>7, <3>1, <3>2, <3>3 DEF One
      <4>2. Fits(c, "NodeFailed", b, k, f, s, m, e)
        BY <2>2, <2>5, <2>7, <3>1, <4>1 DEF Fits, One
      <4>. QED  BY <1>0, <2>1, <3>1, <3>3, <3>5, <3>6, <4>2
    <3>4. CASE record[c] # "FAILED"
      <4>1. Agree(p, fails, transform, b, k, f, s, m + 1, e)
        BY <2>1, <2>2, <2>7, <3>1, <3>2, <3>4 DEF One
      <4>2. Fits(c, "NodeCompleted", b, k, f, s, m, e)
        BY <2>2, <2>5, <2>7, <3>1, <4>1 DEF Fits, One
      <4>. QED  BY <1>0, <2>1, <3>1, <3>4, <3>5, <3>6, <4>2
    <3>. QED  BY <3>3, <3>4
  <2>18. ASSUME NEW o, Concludes(c, o) PROVE AuditInv'
    <3>1. /\ UNCHANGED <<scenario, at, sent>> /\ pc[c] \notin Booking
          /\ pc'[c] \in {"body", "after", "close"}
          /\ \A d \in Call : d # c => pc'[d] = pc[d] /\ record'[d] = record[d]
      <4>1. UNCHANGED <<scenario, sent>> /\ pc[c] \notin Booking
        BY <2>18 DEF Concludes, Booking
      <4>2. /\ UNCHANGED at /\ pc' \in {[pc EXCEPT ![c] = q] : q \in {"body", "after", "close"}}
            /\ \/ record' = record
               \/ record' = [record EXCEPT ![c] = record'[c]]
        <5>1. UNCHANGED at /\ pc' \in {[pc EXCEPT ![c] = q] : q \in {"body", "after", "close"}}
          BY <2>18, ConcludeSettles
        <5>2. pc'[c] = "body" \/ pc'[c] \in {"after", "close"}
          BY <2>5, <5>1
        <5>3. pc'[c] = "body" => record' = record
          BY <2>18, ConcludeSettles
        <5>4. pc'[c] \in {"after", "close"} => record' = [record EXCEPT ![c] = record'[c]]
          BY <2>18, ConcludeSettles
        <5>. QED  BY <5>1, <5>2, <5>3, <5>4
      <4>. QED  BY <2>5, <4>1, <4>2 DEF BookType
    <3>2. PICK n \in {0, 1} :
            /\ audit' = [audit EXCEPT ![c][at[c]] =
                           [node_started |-> b, node_completed |-> k, node_failed |-> f + n]]
            /\ n = 1 => \/ pc'[c] = "body" /\ PolicyAt(at[c]) = "RETRY"
                        \/ pc'[c] = "close" /\ record'[c] = "FAILED"
      <4>1. CASE UNCHANGED audit
        <5>1. 0 \in {0, 1} /\ 0 # 1 /\ f + 0 = f
          OBVIOUS
        <5>2. audit' = [audit EXCEPT ![c][at[c]] =
                         [node_started |-> b, node_completed |-> k, node_failed |-> f + 0]]
          BY <2>11, <4>1, <5>1
        <5>. QED  BY <5>1, <5>2, Zenon
      <4>2. CASE ~UNCHANGED audit
        <5>1. PICK n \in {0, 1} : audit' = [audit EXCEPT ![c][at[c]].node_failed = @ + n]
          BY <2>18, <4>2, ConcludeSettles
        <5>2. \/ pc'[c] = "body" /\ PolicyAt(at[c]) = "RETRY"
              \/ pc'[c] = "close" /\ record'[c] = "FAILED"
          BY <2>18, <4>2, ConcludeSettles
        <5>3. audit' = [audit EXCEPT ![c][at[c]] =
                         [node_started |-> b, node_completed |-> k, node_failed |-> f + n]]
          BY <2>10, <5>1
        <5>. QED  BY <5>2, <5>3
      <4>. QED  BY <4>1, <4>2
    <3>3. Agree(p, fails, transform, b, k, f, s, m, e)
      BY <2>3, <3>1
    <3>4. Fits(c, "nothing", b, k, f + n, s, m, e)
      <4>1. CASE pc'[c] # "close"
        <5>1. n = 1 => p = "RETRY"
          BY <2>2, <3>2, <4>1
        <5>2. Agree(p, fails, transform, b, k, f + n, s, m, e)
          BY <2>1, <3>3, <5>1, AgreeGoesOn
        <5>3. pc'[c] # "before"
          BY <3>1
        <5>. QED  BY <2>2, <2>7, <4>1, <5>2, <5>3 DEF Fits, One
      <4>2. CASE pc'[c] = "close" /\ record'[c] = "FAILED"
        <5>1. Agree(p, fails, transform, b, k, f + n, s, m, e + 1)
          BY <2>1, <3>3, AgreeGoesOn
        <5>. QED  BY <2>2, <2>7, <4>2, <5>1 DEF Fits, One, Settled
      <4>3. CASE pc'[c] = "close" /\ record'[c] # "FAILED"
        <5>1. p = "FALLBACK" /\ n = 0 /\ record'[c] \in Settled
          BY <2>2, <2>18, <3>2, <4>3, ConcludeSettles DEF Settled
        <5>2. Agree(p, fails, transform, b, k, f, s, m + 1, e)
          BY <2>1, <3>3, <5>1, AgreeGoesOn
        <5>3. f + n = f
          BY <5>1
        <5>. QED  BY <2>2, <2>7, <4>3, <5>1, <5>2, <5>3 DEF Fits, One
      <4>. QED  BY <4>1, <4>2, <4>3
    <3>. QED  BY <1>0, <2>1, <2>4, <3>1, <3>2, <3>4
  <2>. QED  BY <1>2, <2>13, <2>14, <2>15, <2>16, <2>17, <2>18
<1>3. ASSUME NEW c \in Call, UNCHANGED <<scenario, record, audit>>,
             \A d \in Call : \/ pc'[d] = pc[d] /\ at'[d] = at[d]
                             \/ pc[d] \notin Booking /\ pc'[d] \notin Booking,
             UNCHANGED sent \/ Emit(c, "GraphCompleted")
      PROVE  AuditInv'
  <2>. SUFFICES ASSUME NEW d \in Call, NEW i \in Stages PROVE Audited(d, i)'
    BY <1>3 DEF AuditInv, Audited, Stages, Pipe
  <2>1. \A x \in {"NodeStarted", "NodeCompleted", "NodeFailed"} :
          Emitted(d, x, i)' = Emitted(d, x, i)
    <3>1. CASE UNCHANGED sent
      BY <3>1 DEF Emitted, Places
    <3>2. CASE Emit(c, "GraphCompleted")
      <4>1. Counted(c, "GraphCompleted")
        BY <3>2, EmitCounts
      <4>. QED  BY <4>1 DEF Counted
    <3>. QED  BY <1>3, <3>1, <3>2
  <2>. QED  BY <1>3, <2>1, OthersAreAudited DEF Audited
<1>4. ASSUME NEW c \in Call, NEW n, GoesRound(c, n) PROVE AuditInv'
  BY <1>3, <1>4 DEF GoesRound
<1>5. ASSUME NEW c \in Call, Returns(c) PROVE AuditInv'
  <2>1. \A d \in Call : \/ pc'[d] = pc[d] /\ at'[d] = at[d]
                        \/ pc[d] \notin Booking /\ pc'[d] \notin Booking
    BY <1>5 DEF Returns, Booking
  <2>. QED  BY <1>3, <1>5, <2>1 DEF Returns
<1>6. ASSUME NEW c \in Call, NEW i \in Stages, Resume(c, i) PROVE AuditInv'
  <2>1. \A d \in Call : \/ pc'[d] = pc[d] /\ at'[d] = at[d]
                        \/ pc[d] \notin Booking /\ pc'[d] \notin Booking
    BY <1>6 DEF Resume, Booking, FeedType
  <2>. QED  BY <1>3, <1>6, <2>1 DEF Resume, feed
<1>. QED  BY <1>1, <1>2, <1>4, <1>5, <1>6 DEF BookStep

-----------------------------------------------------------------------------
(* The cost.                                                               *)

\* Tokens that after_node is about to count.
Due(c) == IF pc[c] = "after" THEN {c} \X (1..output[c].tokens) ELSE {}
Owed   == UNION {Due(c) : c \in Call}

\* Nothing that c has spent is lost to CostMiddleware, so far.
CleanAt(c, i) ==
  /\ PolicyAt(i) = "FAIL_FAST" /\ Pipe[i].kind # "loop"
  /\ \/ nodeState[c][i] \in {"PENDING", "DONE"}
     \/ at[c] = i /\ pc[c] \in Inside /\ (pc[c] = "close" => record[c] = "DONE")

Clean(c) == resumes[c] = 0 /\ \A i \in Stages : CleanAt(c, i)

CostInv ==
  /\ IsFiniteSet(Owed)
  /\ cost + Cardinality(Owed) <= spent
  /\ (\A c \in Call : Clean(c)) => cost + Cardinality(Owed) = spent

\* The tokens of one call are so many elements, and nobody else's.
LEMMA TokensAreCounted ==
  ASSUME NEW c, NEW n \in Nat, NEW S, IsFiniteSet(S), S \cap ({c} \X (1..n)) = {}
  PROVE  /\ IsFiniteSet(S \cup ({c} \X (1..n)))
         /\ Cardinality(S \cup ({c} \X (1..n))) = Cardinality(S) + n
<1>1. IsFiniteSet({c}) /\ Cardinality({c}) = 1
  BY FS_Singleton
<1>2. IsFiniteSet(1..n) /\ Cardinality(1..n) = n
  <2>1. IF 1 > n THEN n = 0 ELSE n - 1 + 1 = n
    OBVIOUS
  <2>. QED  BY <2>1, FS_Interval
<1>3. PICK T : T = {c} \X (1..n)
  OBVIOUS
<1>4. IsFiniteSet(T) /\ Cardinality(T) = Cardinality({c}) * Cardinality(1..n)
  BY <1>1, <1>2, <1>3, FS_Product
<1>5. Cardinality(T) = n
  BY <1>1, <1>2, <1>4
<1>6. S \cap T = {} /\ Cardinality({}) = 0
  BY <1>3, FS_EmptySet
<1>7. /\ IsFiniteSet(S \cup T) /\ IsFiniteSet(S \cap T)
      /\ Cardinality(S \cup T) = Cardinality(S) + Cardinality(T) - Cardinality(S \cap T)
  <2>1. IsFiniteSet(S \cap T)
    BY <1>4, FS_Subset
  <2>. QED  BY <1>4, <2>1, FS_Union
<1>8. Cardinality(S) \in Nat
  BY FS_CardinalityType
<1>9. Cardinality(S \cup T) = Cardinality(S) + n
  <2>1. Cardinality(S \cap T) = 0
    BY <1>6, Zenon
  <2>2. PICK m, k : m = Cardinality(S) /\ k = Cardinality(S \cup T)
    OBVIOUS
  <2>3. m \in Nat /\ k = m + n - 0
    BY <1>5, <1>7, <1>8, <2>1, <2>2, Zenon
  <2>4. k = m + n
    BY <2>3
  <2>. QED  BY <2>2, <2>4, Zenon
<1>. QED  BY <1>3, <1>7, <1>9, Zenon

LEMMA OwedIsApart ==
  ASSUME NEW c \in Call, NEW n, pc[c] # "after"
  PROVE  Owed \cap ({c} \X (1..n)) = {}
<1>. SUFFICES ASSUME NEW x \in Owed PROVE x \notin {c} \X (1..n)
  OBVIOUS
<1>1. PICK d \in Call : x \in Due(d)
  BY DEF Owed
<1>2. d # c /\ x \in {d} \X (1..output[d].tokens)
  BY <1>1 DEF Due
<1>. QED  BY <1>2

\* A call that is clean was clean before.
LEMMA CleanBefore ==
  ASSUME FeedType, BookType, PlaceInv, BookStep, NEW d \in Call, Clean(d)'
  PROVE  Clean(d)
<1> USE DEF FeedType, Goto, Inside, Settled
<1>. SUFFICES ASSUME scenario' = scenario, resumes'[d] = 0, NEW i \in Stages, CleanAt(d, i)'
              PROVE  resumes[d] = 0 /\ CleanAt(d, i)
  <2>1. at[d] \in Stages
    BY DEF BookType
  <2>2. scenario' = scenario
    BY DEF BookStep, Aside, StartNode, TransformRaises, BeforeNode, AfterNode, CloseNode, Returns, Concludes,
           GoesRound, Resume
  <2>3. Stages' = Stages
    BY <2>2 DEF Stages, Pipe
  <2>4. resumes'[d] = 0 /\ \A j \in Stages : CleanAt(d, j)'
    BY <2>3 DEF Clean
  <2>. HIDE DEF FeedType
  <2>. QED  BY <2>1, <2>2, <2>4 DEF Clean
<1>0. PolicyAt(i) = "FAIL_FAST" /\ Pipe[i].kind # "loop"
  BY DEF CleanAt, PolicyAt, Pipe
<1>00. \/ nodeState'[d][i] \in {"PENDING", "DONE"}
       \/ at'[d] = i /\ pc'[d] \in Inside /\ (pc'[d] = "close" => record'[d] = "DONE")
  BY DEF CleanAt
<1>01. ASSUME resumes[d] = 0,
              \/ nodeState[d][i] \in {"PENDING", "DONE"}
              \/ at[d] = i /\ pc[d] \in Inside /\ (pc[d] = "close" => record[d] = "DONE")
       PROVE  resumes[d] = 0 /\ CleanAt(d, i)
  BY <1>0, <1>01 DEF CleanAt
<1>1. CASE UNCHANGED <<resumes, nodeState, record>> /\ pc'[d] = pc[d] /\ at'[d] = at[d]
  BY <1>00, <1>01, <1>1
<1>2. CASE Aside
  <2>1. UNCHANGED <<resumes, nodeState, record>>
    BY <1>2 DEF Aside
  <2>2. \/ pc'[d] = pc[d] /\ at'[d] = at[d]
        \/ at'[d] = at[d] /\ pc[d] \in {"body", "asking", "looping", "undoing"}
        \/ pc'[d] \notin Inside
    BY <1>2 DEF Aside
  <2>. QED  BY <1>00, <1>01, <2>1, <2>2
<1>3. ASSUME NEW c \in Call, StartNode(c) PROVE resumes[d] = 0 /\ CleanAt(d, i)
  <2>1. /\ nodeState' = [nodeState EXCEPT ![c][at[c]] = "RUNNING"] /\ pc[c] = "start"
        /\ pc' = [pc EXCEPT ![c] = "before"] /\ UNCHANGED <<at, record, resumes>>
    BY <1>3 DEF StartNode
  <2>2. Replaces(nodeState', nodeState, Call, Stages, c, at[c], "RUNNING")
    BY <2>1, ReplaceOne DEF BookType
  <2>. QED  BY <1>00, <1>01, <2>1, <2>2 DEF PlaceInv, Replaces, BookType
<1>4. ASSUME NEW c \in Call, BeforeNode(c) \/ AfterNode(c) PROVE resumes[d] = 0 /\ CleanAt(d, i)
  <2>1. /\ UNCHANGED <<at, record, resumes, nodeState>>
        /\ pc'[d] = pc[d] \/ pc[d] \in {"before", "after"}
    BY <1>4 DEF BeforeNode, AfterNode, node, state
  <2>. QED  BY <1>00, <1>01, <2>1
<1>5. ASSUME NEW c \in Call, CloseNode(c) PROVE resumes[d] = 0 /\ CleanAt(d, i)
  <2>1. /\ nodeState' = [nodeState EXCEPT ![c][at[c]] = record[c]] /\ pc[c] = "close"
        /\ pc' = [pc EXCEPT ![c] = "wave"] /\ UNCHANGED <<at, record, resumes>>
    BY <1>5 DEF CloseNode, node
  <2>2. Replaces(nodeState', nodeState, Call, Stages, c, at[c], record[c])
    BY <2>1, ReplaceOne DEF BookType
  <2>3. CASE d = c /\ i = at[c]
    <3>1. nodeState'[d][i] = record[c] /\ pc'[d] = "wave"
      BY <2>1, <2>2, <2>3 DEF Replaces
    <3>2. record[c] = "DONE"
      BY <1>00, <2>1, <3>1 DEF PlaceInv
    <3>. QED  BY <1>01, <2>1, <2>3, <3>2
  <2>4. CASE ~(d = c /\ i = at[c])
    <3>1. nodeState'[d][i] = nodeState[d][i]
      BY <2>2, <2>4 DEF Replaces
    <3>. QED  BY <1>00, <1>01, <2>1, <2>4, <3>1
  <2>. QED  BY <2>3, <2>4
<1>6. ASSUME NEW c \in Call, NEW o, Concludes(c, o) PROVE resumes[d] = 0 /\ CleanAt(d, i)
  <2>1. /\ UNCHANGED <<at, nodeState, resumes>>
        /\ pc' \in {[pc EXCEPT ![c] = p] : p \in {"body", "after", "close"}}
        /\ \/ record' = record
           \/ record' = [record EXCEPT ![c] = record'[c]]
    BY <1>6, ConcludeSettles DEF Concludes
  <2>2. pc[c] \in {"body", "asking", "looping", "undoing"}
    BY <1>6 DEF Concludes
  <2>. QED  BY <1>00, <1>01, <2>1, <2>2 DEF BookType
<1>7. ASSUME NEW c \in Call, NEW n, GoesRound(c, n) PROVE resumes[d] = 0 /\ CleanAt(d, i)
  BY <1>1, <1>7 DEF GoesRound
<1>8. ASSUME NEW c \in Call, Returns(c) PROVE resumes[d] = 0 /\ CleanAt(d, i)
  <2>1. /\ UNCHANGED <<at, record, resumes, nodeState>>
        /\ pc'[d] = pc[d] \/ pc'[d] = "returned"
    BY <1>8 DEF Returns
  <2>. QED  BY <1>00, <1>01, <2>1
<1>9. ASSUME NEW c \in Call, NEW j \in Stages, Resume(c, j) PROVE resumes[d] = 0 /\ CleanAt(d, i)
  <2>1. /\ UNCHANGED record
        /\ nodeState' = [nodeState EXCEPT ![c][j] = "DONE"]
        /\ resumes' = [resumes EXCEPT ![c] = @ + 1]
        /\ \/ at' = at /\ pc' = pc
           \/ at' = [at EXCEPT ![c] = j + 1] /\ pc' = [pc EXCEPT ![c] = "start"]
    BY <1>9 DEF Resume
  <2>2. Replaces(nodeState', nodeState, Call, Stages, c, j, "DONE")
    BY <2>1, ReplaceOne DEF BookType
  <2>3. d # c
    BY <2>1 DEF BookType
  <2>. QED  BY <1>00, <1>01, <2>1, <2>2, <2>3 DEF Replaces, BookType
<1>10. ASSUME NEW c \in Call, TransformRaises(c) PROVE resumes[d] = 0 /\ CleanAt(d, i)
  <2>1. /\ nodeState' = [nodeState EXCEPT ![c][at[c]] = "FAILED"] /\ pc[c] = "before"
        /\ pc' = [pc EXCEPT ![c] = "wave"] /\ UNCHANGED <<at, record, resumes>>
    BY <1>10 DEF TransformRaises, node
  <2>2. Replaces(nodeState', nodeState, Call, Stages, c, at[c], "FAILED")
    BY <2>1, ReplaceOne DEF BookType
  <2>. QED  BY <1>00, <1>01, <2>1, <2>2 DEF Replaces, BookType
<1>. QED  BY <1>2, <1>3, <1>4, <1>5, <1>6, <1>7, <1>8, <1>9, <1>10 DEF BookStep

LEMMA NextCost ==
  ASSUME FeedType, BookType, PlaceInv, KindInv, CostInv, BookStep
  PROVE  CostInv'
<1> USE DEF FeedType, Goto, node, state
<1>1. ASSUME NEW n \in Nat,
             IsFiniteSet(Owed)' /\ cost' + Cardinality(Owed)' = cost + Cardinality(Owed) + n,
             spent + n <= spent',
             (\A c \in Call : Clean(c)') => spent + n = spent'
      PROVE  CostInv'
  <2>1. (\A c \in Call : Clean(c)') => \A c \in Call : Clean(c)
    BY CleanBefore
  <2>2. Cardinality(Owed) \in Nat /\ Cardinality(Owed)' \in Nat
    BY <1>1, FS_CardinalityType DEF CostInv
  <2>3. cost \in Nat /\ spent \in Nat /\ cost' \in Nat /\ spent' \in Nat
    BY NextBookType DEF BookType
  <2>4. cost + Cardinality(Owed) <= spent
        /\ ((\A c \in Call : Clean(c)) => cost + Cardinality(Owed) = spent)
    BY DEF CostInv
  <2>5. cost' + Cardinality(Owed)' <= spent'
    BY <1>1, <2>2, <2>3, <2>4
  <2>6. ASSUME \A c \in Call : Clean(c)' PROVE cost' + Cardinality(Owed)' = spent'
    BY <1>1, <2>1, <2>2, <2>3, <2>4, <2>6
  <2>. QED  BY <1>1, <2>5, <2>6 DEF CostInv
<1>2. ASSUME UNCHANGED <<cost, spent>>, Owed' = Owed PROVE CostInv'
  <2>1. Cardinality(Owed) \in Nat /\ cost \in Nat /\ spent \in Nat
    BY FS_CardinalityType DEF CostInv, BookType
  <2>2. cost' + Cardinality(Owed)' = cost + Cardinality(Owed) + 0 /\ spent + 0 = spent' /\ spent + 0 <= spent'
    BY <1>2, <2>1
  <2>. QED  BY <1>1, <1>2, <2>2 DEF CostInv
<1>3. ASSUME output' = output, \A c \in Call : pc'[c] = "after" <=> pc[c] = "after"
      PROVE  Owed' = Owed
  BY <1>3 DEF Owed, Due
<1>4. CASE Aside
  <2>1. \A c \in Call : pc'[c] = "after" <=> pc[c] = "after"
    BY <1>4 DEF Aside
  <2>2. UNCHANGED <<output, cost, spent>>
    BY <1>4 DEF Aside
  <2>. QED  BY <1>2, <1>3, <2>1, <2>2
<1>5. ASSUME NEW c \in Call, StartNode(c) \/ TransformRaises(c) \/ BeforeNode(c) \/ CloseNode(c) \/ Returns(c)
      PROVE  CostInv'
  <2>1. UNCHANGED <<output, cost, spent>> /\ \A d \in Call : pc'[d] = "after" <=> pc[d] = "after"
    BY <1>5 DEF StartNode, TransformRaises, BeforeNode, CloseNode, Returns, meters
  <2>. QED  BY <1>2, <1>3, <2>1
<1>6. ASSUME NEW c \in Call, NEW i \in Stages, Resume(c, i) PROVE CostInv'
  <2>1. UNCHANGED <<output, cost, spent>> /\ \A d \in Call : pc'[d] = "after" <=> pc[d] = "after"
    BY <1>6 DEF Resume, meters
  <2>. QED  BY <1>2, <1>3, <2>1
<1>7. ASSUME NEW c \in Call, NEW n, GoesRound(c, n) PROVE CostInv'
  <2>1. UNCHANGED <<pc, output, cost>> /\ n \in Nat /\ spent' = spent + n /\ pc[c] = "looping"
    BY <1>7 DEF GoesRound
  <2>2. Owed' = Owed
    BY <1>3, <2>1
  <2>3. ~Clean(c)'
    <3>1. Here(c).kind = "loop" /\ at[c] \in Stages
      BY <2>1 DEF KindInv, BookType
    <3>2. ~CleanAt(c, at[c])
      BY <3>1 DEF CleanAt, Here
    <3>3. ~Clean(c)
      BY <3>1, <3>2 DEF Clean
    <3>. QED  BY <3>3, CleanBefore
  <2>4. Cardinality(Owed) \in Nat /\ cost \in Nat /\ spent \in Nat
    BY FS_CardinalityType DEF CostInv, BookType
  <2>5. cost' + Cardinality(Owed)' = cost + Cardinality(Owed) + 0 /\ spent + 0 <= spent'
    BY <2>1, <2>2, <2>4
  <2>. QED  BY <1>1, <2>2, <2>3, <2>5 DEF CostInv
<1>8. ASSUME NEW c \in Call, AfterNode(c) PROVE CostInv'
  <2>1. /\ pc[c] = "after" /\ pc' = [pc EXCEPT ![c] = "close"]
        /\ UNCHANGED <<output, spent>> /\ cost' = cost + output[c].tokens
    BY <1>8 DEF AfterNode
  <2>2. PICK n \in Nat : n = output[c].tokens
    BY DEF BookType
  <2>3. Owed = Owed' \cup ({c} \X (1..n))
    <3>1. Due(c) = {c} \X (1..n) /\ Due(c)' = {} /\ \A d \in Call : d # c => Due(d)' = Due(d)
      BY <2>1, <2>2 DEF Due
    <3>2. \A x : x \in Owed <=> \E d \in Call : x \in Due(d)
      BY DEF Owed
    <3>3. \A x : x \in Owed' <=> \E d \in Call : x \in Due(d)'
      BY DEF Owed
    <3>. HIDE DEF Owed, Due
    <3>4. ASSUME NEW x, NEW d \in Call, x \in Due(d) PROVE x \in Owed' \/ x \in Due(c)
      BY <3>1, <3>3, <3>4, Zenon
    <3>5. ASSUME NEW x, NEW d \in Call, x \in Due(d)' PROVE x \in Owed
      BY <3>1, <3>2, <3>5, Zenon
    <3>6. \A x : x \in Owed <=> x \in Owed' \/ x \in Due(c)
      BY <3>2, <3>3, <3>4, <3>5, Zenon
    <3>. QED  BY <3>1, <3>6
  <2>4. Owed' \cap ({c} \X (1..n)) = {}
    <3>1. \A d \in Call : Due(d)' \cap ({c} \X (1..n)) = {}
      BY <2>1 DEF Due
    <3>. QED  BY <3>1 DEF Owed
  <2>5. IsFiniteSet(Owed')
    <3>1. Owed' \subseteq Owed
      BY <2>3
    <3>. QED  BY <3>1, FS_Subset DEF CostInv
  <2>6. Cardinality(Owed) = Cardinality(Owed') + n
    BY <2>3, <2>4, <2>5, TokensAreCounted
  <2>7. Cardinality(Owed') \in Nat /\ cost \in Nat /\ spent \in Nat
    BY <2>5, FS_CardinalityType DEF BookType
  <2>8. cost' + Cardinality(Owed') = cost + Cardinality(Owed) + 0 /\ spent + 0 = spent' /\ spent + 0 <= spent'
    BY <2>1, <2>2, <2>6, <2>7
  <2>. QED  BY <1>1, <2>5, <2>8
<1>9. ASSUME NEW c \in Call, NEW o, Concludes(c, o) PROVE CostInv'
  <2>1. /\ pc[c] # "after" /\ o.tokens \in Nat /\ cost' = cost /\ spent' = spent + o.tokens
    BY <1>9 DEF Concludes
  <2>2. /\ pc' \in {[pc EXCEPT ![c] = p] : p \in {"body", "after", "close"}}
        /\ pc'[c] = "body" => PolicyAt(at[c]) = "RETRY"
        /\ \/ output' = output
           \/ output' = [output EXCEPT ![c] = output'[c]]
        /\ pc'[c] = "after" => /\ output'[c].tokens \in {0, o.tokens}
                               /\ PolicyAt(at[c]) # "SKIP" => output'[c].tokens = o.tokens
        /\ pc'[c] = "close" => record'[c] = "FAILED" \/ PolicyAt(at[c]) = "FALLBACK"
        /\ UNCHANGED <<scenario, at>>
    BY <1>9, ConcludeSettles DEF Concludes
  <2>3. PICK n \in Nat : /\ n = IF pc'[c] = "after" THEN output'[c].tokens ELSE 0
                         /\ n <= o.tokens
    <3>1. pc'[c] = "after" => output'[c].tokens \in Nat /\ output'[c].tokens <= o.tokens
      BY <2>1, <2>2
    <3>. QED  BY <2>1, <3>1
  <2>4. Owed' = Owed \cup ({c} \X (1..n))
    <3>1. \A d \in Call : d # c => Due(d)' = Due(d)
      BY <2>2 DEF Due, BookType
    <3>2. Due(c) = {} /\ Due(c)' = {c} \X (1..n)
      <4>1. CASE pc'[c] = "after"
        BY <2>1, <2>3, <4>1 DEF Due
      <4>2. CASE pc'[c] # "after"
        BY <2>1, <2>3, <4>2 DEF Due
      <4>. QED  BY <4>1, <4>2
    <3>3. \A x : x \in Owed <=> \E d \in Call : x \in Due(d)
      BY DEF Owed
    <3>4. \A x : x \in Owed' <=> \E d \in Call : x \in Due(d)'
      BY DEF Owed
    <3>. HIDE DEF Owed, Due
    <3>5. ASSUME NEW x, NEW d \in Call, x \in Due(d)' PROVE x \in Owed \/ x \in Due(c)'
      BY <3>1, <3>3, <3>5, Zenon
    <3>6. ASSUME NEW x, NEW d \in Call, x \in Due(d) PROVE x \in Owed'
      BY <3>1, <3>2, <3>4, <3>6, Zenon
    <3>7. \A x : x \in Owed' <=> x \in Owed \/ x \in Due(c)'
      BY <3>3, <3>4, <3>5, <3>6, Zenon
    <3>. QED  BY <3>2, <3>7
  <2>5. IsFiniteSet(Owed') /\ Cardinality(Owed') = Cardinality(Owed) + n
    <3>1. Owed \cap ({c} \X (1..n)) = {}
      BY <2>1, OwedIsApart
    <3>. QED  BY <2>4, <3>1, TokensAreCounted DEF CostInv
  <2>6. Clean(c)' => n = o.tokens
    <3>. SUFFICES ASSUME Clean(c)' PROVE n = o.tokens
      OBVIOUS
    <3>1. CleanAt(c, at[c])' /\ at'[c] = at[c] /\ PolicyAt(at[c])' = PolicyAt(at[c])
      <4>1. at'[c] = at[c] /\ PolicyAt(at[c])' = PolicyAt(at[c]) /\ Stages' = Stages /\ at[c] \in Stages
        BY <2>2 DEF PolicyAt, Pipe, Stages, BookType
      <4>. QED  BY <4>1 DEF Clean
    <3>2. PolicyAt(at[c]) = "FAIL_FAST"
      BY <3>1 DEF CleanAt
    <3>3. pc'[c] # "body" /\ (pc'[c] = "close" => record'[c] = "FAILED")
      BY <2>2, <3>2
    <3>4. nodeState'[c][at'[c]] = "RUNNING"
      BY <1>9, <3>1 DEF Concludes, PlaceInv, Inside
    <3>5. pc'[c] = "after"
      BY <2>2, <3>1, <3>3, <3>4 DEF CleanAt
    <3>. QED  BY <2>2, <2>3, <3>2, <3>5
  <2>7. Cardinality(Owed) \in Nat /\ cost \in Nat /\ spent \in Nat
    BY FS_CardinalityType DEF CostInv, BookType
  <2>8. cost' + Cardinality(Owed') = cost + Cardinality(Owed) + n /\ spent + n <= spent'
    BY <2>1, <2>3, <2>5, <2>7
  <2>9. Clean(c)' => spent + n = spent'
    BY <2>1, <2>6
  <2>. QED  BY <1>1, <2>5, <2>8, <2>9
<1>. QED  BY <1>4, <1>5, <1>6, <1>7, <1>8, <1>9 DEF BookStep

BookInv == BookType /\ PlaceInv /\ AuditInv /\ CostInv

LEMMA InitBooks == Init => BookInv
<1> SUFFICES ASSUME Init PROVE BookInv
  OBVIOUS
<1>1. 1 \in Stages
  <2>1. Pipe \in Seq(Stage) /\ Pipe # << >>
    BY PipelineAssumption DEF Init, Pipe, Scenario
  <2>. QED  BY <2>1 DEF Stages
<1>2. BookType
  <2>1. Ok(None).tokens = 0
    BY DEF Ok
  <2>. HIDE DEF Ok
  <2>2. output = [c \in Call |-> output[c]] /\ \A c \in Call : output[c].tokens \in Nat
    BY <2>1 DEF Init
  <2>3. /\ at \in [Call -> Stages] /\ record \in [Call -> NodeState]
        /\ nodeState \in [Call -> [Stages -> NodeState]] /\ resumes \in [Call -> Nat]
        /\ cost \in Nat /\ spent \in Nat
    BY <1>1 DEF Init, NodeState
  <2>4. audit \in [Call -> [Stages -> AuditTrail]]
    BY DEF Init, AuditTrail
  <2>. QED  BY <2>2, <2>3, <2>4 DEF BookType
<1>3. PlaceInv
  BY <1>1 DEF Init, PlaceInv, Inside
<1>4. AuditInv
  <2>. SUFFICES ASSUME NEW c \in Call, NEW i \in Stages
                PROVE  AuditedAs(audit[c][i], i, pc[c], at[c] = i, record[c],
                                 Emitted(c, "NodeStarted", i), Emitted(c, "NodeCompleted", i),
                                 Emitted(c, "NodeFailed", i))
    BY DEF AuditInv
  <2>1. \A type : Emitted(c, type, i) = 0
    <3>1. \A type : Places(c, type, i) = {}
      BY DEF Init, Places
    <3>. QED  BY <3>1, FS_EmptySet DEF Emitted
  <2>2. audit[c][i] = [node_started |-> 0, node_completed |-> 0, node_failed |-> 0] /\ pc[c] = "idle"
    BY DEF Init
  <2>. QED  BY <2>1, <2>2 DEF AuditedAs, Agree, One
<1>5. CostInv
  <2>1. \A c \in Call : Due(c) = {}
    BY DEF Init, Due
  <2>2. Owed = {}
    BY <2>1 DEF Owed
  <2>. QED  BY <2>2, FS_EmptySet DEF Init, CostInv
<1>. QED  BY <1>2, <1>3, <1>4, <1>5 DEF BookInv

LEMMA NextBooks ==
  ASSUME FeedType, KindInv, BookInv, [Next]_vars
  PROVE  BookInv'
<1>1. BookStep
  BY StepIsBooked DEF BookInv
<1>. QED  BY <1>1, NextBookType, NextPlaceInv, NextAudit, NextCost DEF BookInv

LEMMA BooksAreKept == FeedType /\ BookInv => BooksAgree
<1> SUFFICES ASSUME FeedType, BookInv PROVE BooksAgree
  OBVIOUS
<1>1. AuditAgreesWithEvents
  <2>. SUFFICES ASSUME NEW c \in Call, NEW i \in Stages,
                       pc[c] \in {"idle", "start", "wave", "finish", "returned"}
                PROVE  Agree(PolicyAt(i), scenario.auditFails, Pipe[i].transform,
                             audit[c][i].node_started, audit[c][i].node_completed,
                             audit[c][i].node_failed, Emitted(c, "NodeStarted", i),
                             Emitted(c, "NodeCompleted", i), Emitted(c, "NodeFailed", i))
    BY DEF AuditAgreesWithEvents, Agree, Emissions, Emitted, Places
  <2>1. AuditedAs(audit[c][i], i, pc[c], at[c] = i, record[c], Emitted(c, "NodeStarted", i),
                  Emitted(c, "NodeCompleted", i), Emitted(c, "NodeFailed", i))
    BY DEF BookInv, AuditInv
  <2>2. /\ Emitted(c, "NodeStarted", i) \in Nat /\ Emitted(c, "NodeCompleted", i) \in Nat
        /\ Emitted(c, "NodeFailed", i) \in Nat
    BY PlacesAreFinite
  <2>3. audit[c][i].node_started \in Nat
    <3>1. audit[c][i] \in AuditTrail
      BY DEF BookInv, BookType
    <3>. QED  BY <3>1 DEF AuditTrail
  <2>4. pc[c] # "before" /\ pc[c] # "close"
    OBVIOUS
  <2>. QED  BY <2>1, <2>2, <2>3, <2>4 DEF AuditedAs, One
<1>2. CostAddsUp
  <2>1. Cardinality(Owed) \in Nat /\ cost \in Nat /\ spent \in Nat
    BY FS_CardinalityType DEF BookInv, CostInv, BookType
  <2>2. cost <= spent
    BY <2>1 DEF BookInv, CostInv
  <2>3. ASSUME \A c \in Call : /\ pc[c] \in {"idle", "returned"} /\ resumes[c] = 0
                               /\ \A i \in Stages : RanOnceAndWell(c, i)
        PROVE  cost = spent
    <3>1. \A c \in Call : Clean(c)
      BY <2>3 DEF Clean, CleanAt, RanOnceAndWell
    <3>2. Owed = {}
      <4>1. \A c \in Call : Due(c) = {}
        BY <2>3 DEF Due
      <4>. QED  BY <4>1 DEF Owed
    <3>3. Cardinality(Owed) = 0
      BY <3>2, FS_EmptySet
    <3>. QED  BY <2>1, <3>1, <3>3 DEF BookInv, CostInv
  <2>. QED  BY <2>2, <2>3 DEF CostAddsUp
<1>. QED  BY <1>1, <1>2 DEF BooksAgree

(* The audit trail agrees with the events and the cost with the tracker,   *)
(* on any chain, for any number of calls, retries and resumptions, also if *)
(* the edges' transforms raise: what a middleware has not written down yet *)
(* is what the executor is just about to tell it.  Nothing is written down *)
(* that was not emitted, and only an audit backend that raises, a raising  *)
(* transform and a FALLBACK leave something out, each as BooksAgree says   *)
(* (AuditMiddleware, CostMiddleware, NodeExecutor.execute).          *)
THEOREM BooksAlwaysAgree == Spec => []BooksAgree
<1>1. Init => FeedInv /\ UndoInv /\ BookInv
  BY InitInv, InitUndo, InitBooks
<1>2. FeedInv /\ UndoInv /\ BookInv /\ [Next]_vars => FeedInv' /\ UndoInv' /\ BookInv'
  BY NextInv, NextUndo, NextBooks DEF FeedInv, UndoInv
<1>3. FeedInv /\ UndoInv /\ BookInv => BooksAgree
  BY BooksAreKept DEF FeedInv
<1>. QED  BY <1>1, <1>2, <1>3, PTL DEF Spec

-----------------------------------------------------------------------------
(* The story that the only stream of a runtime tells.                      *)

Alone(c) == \A d \in Call : d = c \/ pc[d] = "idle"

\* The events so far, while only c has made any: NodeStarted and its answer
\* in turn, for the nodes that are not PENDING, and then the end.
Story(c) ==
  /\ \A k \in DOMAIN sent :
       /\ sent[k].call = c
       /\ sent[k].type = "NodeStarted" <=> k % 2 = 1 /\ sent[k].type # "GraphCompleted"
  /\ \A i \in Stages : nodeState[c][i] # "PENDING" <=> \E k \in DOMAIN sent : sent[k].at = i
  /\ pc[c] \in {"start", "wave", "finish"} => Len(sent) % 2 = 0
  /\ pc[c] \in Inside => Len(sent) % 2 = 1
  /\ pc[c] \in {"wave", "finish"} => nodeState[c][at[c]] # "PENDING"
  /\ pc[c] = "returned" =>
       \/ Len(sent) # 0 /\ sent[Len(sent)].type = "GraphCompleted"
       \/ \E i \in Stages : Pipe[i].condition /\ nodeState[c][i] = "PENDING"

StoryInv ==
  /\ (\A c \in Call : pc[c] = "idle") => sent = << >>
  /\ \A c \in Call : pc[c] = "idle" => \A i \in Stages : nodeState[c][i] = "PENDING"
  /\ \A k \in DOMAIN taken : taken[k].event = sent[k]
  /\ \A c \in Call :
       Alone(c) /\ resumes[c] = 0 /\ pc[c] # "idle" =>
         Story(c) /\ (consumer[c] = "ended" => pc[c] = "returned" /\ queue = << >>)

\* One more event, e, at the end.
OneEvent(e) ==
  /\ Len(sent) \in Nat /\ DOMAIN sent = 1..Len(sent)
  /\ Len(sent') = Len(sent) + 1 /\ DOMAIN sent' = DOMAIN sent \cup {Len(sent) + 1}
  /\ \A k \in DOMAIN sent : sent'[k] = sent[k]
  /\ sent'[Len(sent) + 1] = e
  /\ Len(sent) % 2 \in {0, 1}
  /\ Len(sent) % 2 = 0 => (Len(sent) + 1) % 2 = 1
  /\ Len(sent) % 2 = 1 => (Len(sent) + 1) % 2 = 0

LEMMA EmitAddsOne ==
  ASSUME FeedType, NEW c \in Call, NEW type, Emit(c, type)
  PROVE  \E e : OneEvent(e) /\ e.call = c /\ e.type = type /\ e.at = at[c]
<1>1. PICK e : e = [call |-> c, type |-> type, at |-> at[c]] /\ sent' = Append(sent, e)
  BY DEF Emit
<1>2. /\ Len(sent) \in Nat /\ DOMAIN sent = 1..Len(sent)
      /\ Len(sent') = Len(sent) + 1 /\ DOMAIN sent' = DOMAIN sent \cup {Len(sent) + 1}
      /\ \A k \in DOMAIN sent : sent'[k] = sent[k]
      /\ sent'[Len(sent) + 1] = e
  BY <1>1 DEF FeedType
<1>3. /\ Len(sent) % 2 \in {0, 1}
      /\ Len(sent) % 2 = 0 => (Len(sent) + 1) % 2 = 1
      /\ Len(sent) % 2 = 1 => (Len(sent) + 1) % 2 = 0
  BY <1>2
<1>4. e.call = c /\ e.type = type /\ e.at = at[c]
  BY <1>1
<1>. QED  BY <1>2, <1>3, <1>4 DEF OneEvent

LEMMA StoryGoesOn ==
  ASSUME FeedType, BookType, PlaceInv, BookStep, NEW c \in Call, Alone(c),
         pc[c] # "idle", resumes'[c] = 0, Story(c)
  PROVE  Story(c)'
<1> USE DEF FeedType, Goto, Inside
<1>0. /\ \A k \in DOMAIN sent :
           /\ sent[k].call = c
           /\ sent[k].type = "NodeStarted" <=> k % 2 = 1 /\ sent[k].type # "GraphCompleted"
      /\ \A i \in Stages : nodeState[c][i] # "PENDING" <=> \E k \in DOMAIN sent : sent[k].at = i
      /\ pc[c] \in {"start", "wave", "finish"} => Len(sent) % 2 = 0
      /\ pc[c] \in Inside => Len(sent) % 2 = 1
      /\ pc[c] \in {"wave", "finish"} => nodeState[c][at[c]] # "PENDING"
      /\ pc[c] = "returned" =>
           \/ Len(sent) # 0 /\ sent[Len(sent)].type = "GraphCompleted"
           \/ \E i \in Stages : Pipe[i].condition /\ nodeState[c][i] = "PENDING"
  BY DEF Story
<1>01. \A d \in Call : pc[d] # "idle" => d = c
  BY DEF Alone
<1>02. at[c] \in Stages /\ pc = [d \in Call |-> pc[d]] /\ resumes[c] \in Nat
  BY DEF BookType
<1>1. ASSUME UNCHANGED <<scenario, sent>>, nodeState'[c] = nodeState[c],
             \/ pc'[c] = pc[c] /\ at'[c] = at[c]
             \/ pc[c] \in Inside /\ pc'[c] \in Inside
             \/ pc[c] = "wave" /\ pc'[c] = "start"
             \/ pc[c] = "wave" /\ pc'[c] = "finish" /\ at'[c] = at[c]
             \/ /\ pc[c] = "wave" /\ pc'[c] = "returned"
                /\ \E i \in Stages : Pipe[i].condition /\ nodeState[c][i] = "PENDING"
      PROVE  Story(c)'
  <2>1. Stages' = Stages /\ Pipe' = Pipe
    BY <1>1 DEF Stages, Pipe
  <2>2. pc'[c] \in {"start", "wave", "finish"} => Len(sent) % 2 = 0
    BY <1>0, <1>1
  <2>3. pc'[c] \in Inside => Len(sent) % 2 = 1
    BY <1>0, <1>1
  <2>4. pc'[c] \in {"wave", "finish"} => nodeState[c][at'[c]] # "PENDING"
    BY <1>0, <1>1
  <2>5. pc'[c] = "returned" =>
          \/ Len(sent) # 0 /\ sent[Len(sent)].type = "GraphCompleted"
          \/ \E i \in Stages : Pipe[i].condition /\ nodeState[c][i] = "PENDING"
    BY <1>0, <1>1
  <2>. QED  BY <1>0, <1>1, <2>1, <2>2, <2>3, <2>4, <2>5 DEF Story
<1>2. CASE Aside
  <2>1. UNCHANGED <<scenario, sent>> /\ nodeState'[c] = nodeState[c]
    BY <1>2 DEF Aside
  <2>2. \/ pc'[c] = pc[c] /\ at'[c] = at[c]
        \/ pc[c] \in Inside /\ pc'[c] \in Inside
        \/ pc[c] = "wave" /\ pc'[c] = "start"
        \/ pc[c] = "wave" /\ pc'[c] = "finish" /\ at'[c] = at[c]
        \/ /\ pc[c] = "wave" /\ pc'[c] = "returned"
           /\ \E i \in Stages : Pipe[i].condition /\ nodeState[c][i] = "PENDING"
    BY <1>2 DEF Aside
  <2>. QED  BY <1>1, <2>1, <2>2
<1>3. CASE BeforeNode(c)
  <2>1. UNCHANGED <<scenario, sent, nodeState>> /\ pc[c] = "before" /\ pc'[c] = "body"
    BY <1>3, <1>02 DEF BeforeNode, feed, node, state
  <2>. QED  BY <1>1, <2>1
<1>4. CASE AfterNode(c)
  <2>1. UNCHANGED <<scenario, sent, nodeState>> /\ pc[c] = "after" /\ pc'[c] = "close"
    BY <1>4, <1>02 DEF AfterNode, feed, node, state
  <2>. QED  BY <1>1, <2>1
<1>5. ASSUME NEW o, Concludes(c, o) PROVE Story(c)'
  <2>1. UNCHANGED <<scenario, sent, nodeState>> /\ pc[c] \in Inside
    BY <1>5 DEF Concludes
  <2>2. pc'[c] \in {"body", "after", "close"}
    BY <1>5, <1>02, ConcludeSettles
  <2>. QED  BY <1>1, <2>1, <2>2
<1>6. ASSUME NEW n, GoesRound(c, n) PROVE Story(c)'
  <2>1. UNCHANGED <<scenario, sent, nodeState, pc, at>>
    BY <1>6 DEF GoesRound
  <2>. QED  BY <1>1, <2>1
<1>7. ASSUME NEW e, OneEvent(e), e.call = c, e.at \in Stages, UNCHANGED scenario,
             e.type = "NodeStarted" <=> Len(sent) % 2 = 0 /\ e.type # "GraphCompleted",
             \A i \in Stages : nodeState'[c][i] # "PENDING" <=> nodeState[c][i] # "PENDING" \/ i = e.at,
             \/ pc'[c] = "before" /\ Len(sent) % 2 = 0
             \/ pc'[c] = "wave" /\ Len(sent) % 2 = 1 /\ nodeState'[c][at'[c]] # "PENDING"
             \/ pc'[c] = "returned" /\ e.type = "GraphCompleted"
      PROVE  Story(c)'
  <2>1. Stages' = Stages /\ Pipe' = Pipe
    BY <1>7 DEF Stages, Pipe
  <2>2. /\ Len(sent) \in Nat /\ DOMAIN sent = 1..Len(sent)
        /\ Len(sent') = Len(sent) + 1 /\ DOMAIN sent' = DOMAIN sent \cup {Len(sent) + 1}
        /\ \A k \in DOMAIN sent : sent'[k] = sent[k]
        /\ sent'[Len(sent) + 1] = e
        /\ Len(sent) % 2 \in {0, 1}
        /\ Len(sent) % 2 = 0 => (Len(sent) + 1) % 2 = 1
        /\ Len(sent) % 2 = 1 => (Len(sent) + 1) % 2 = 0
    BY <1>7 DEF OneEvent
  <2>3. ASSUME NEW k \in DOMAIN sent'
        PROVE  /\ sent'[k].call = c
               /\ sent'[k].type = "NodeStarted" <=> k % 2 = 1 /\ sent'[k].type # "GraphCompleted"
    <3>1. CASE k \in DOMAIN sent
      BY <1>0, <2>2, <3>1
    <3>2. CASE k = Len(sent) + 1
      BY <1>7, <2>2, <3>2
    <3>. QED  BY <2>2, <3>1, <3>2
  <2>4. ASSUME NEW i \in Stages
        PROVE  nodeState'[c][i] # "PENDING" <=> \E k \in DOMAIN sent' : sent'[k].at = i
    <3>1. (\E k \in DOMAIN sent' : sent'[k].at = i) <=> (\E k \in DOMAIN sent : sent[k].at = i) \/ i = e.at
      BY <2>2
    <3>. QED  BY <1>0, <1>7, <3>1
  <2>5. pc'[c] \in {"start", "wave", "finish"} => Len(sent') % 2 = 0
    BY <1>7, <2>2
  <2>6. pc'[c] \in Inside => Len(sent') % 2 = 1
    BY <1>7, <2>2
  <2>7. pc'[c] = "returned" => Len(sent') # 0 /\ sent'[Len(sent')].type = "GraphCompleted"
    BY <1>7, <2>2
  <2>8. pc'[c] \in {"wave", "finish"} => nodeState'[c][at'[c]] # "PENDING"
    BY <1>7
  <2>. QED  BY <2>1, <2>3, <2>4, <2>5, <2>6, <2>7, <2>8 DEF Story
<1>8. CASE StartNode(c)
  <2>1. PICK e : OneEvent(e) /\ e.call = c /\ e.type = "NodeStarted" /\ e.at = at[c]
    BY <1>8, EmitAddsOne DEF StartNode
  <2>2. /\ UNCHANGED scenario /\ pc'[c] = "before" /\ pc[c] = "start"
        /\ nodeState' = [nodeState EXCEPT ![c][at[c]] = "RUNNING"]
    BY <1>8, <1>02 DEF StartNode
  <2>3. Replaces(nodeState', nodeState, Call, Stages, c, at[c], "RUNNING")
    BY <1>02, <2>2, ReplaceOne DEF BookType
  <2>4. \A i \in Stages : nodeState'[c][i] # "PENDING" <=> nodeState[c][i] # "PENDING" \/ i = e.at
    BY <2>1, <2>3 DEF Replaces
  <2>. QED  BY <1>0, <1>02, <1>7, <2>1, <2>2, <2>4
<1>9. CASE CloseNode(c)
  <2>1. PICK type \in {"NodeFailed", "NodeCompleted"} : Emit(c, type)
    BY <1>9 DEF CloseNode
  <2>2. PICK e : OneEvent(e) /\ e.call = c /\ e.type = type /\ e.at = at[c]
    BY <2>1, EmitAddsOne
  <2>3. /\ UNCHANGED <<scenario, at>> /\ pc'[c] = "wave" /\ pc[c] = "close"
        /\ nodeState' = [nodeState EXCEPT ![c][at[c]] = record[c]]
    BY <1>9, <1>02 DEF CloseNode, node
  <2>4. Replaces(nodeState', nodeState, Call, Stages, c, at[c], record[c])
    BY <1>02, <2>3, ReplaceOne DEF BookType
  <2>5. nodeState[c][at[c]] # "PENDING" /\ record[c] # "PENDING"
    BY <2>3 DEF PlaceInv, Settled
  <2>6. \A i \in Stages : nodeState'[c][i] # "PENDING" <=> nodeState[c][i] # "PENDING" \/ i = e.at
    BY <2>2, <2>4, <2>5 DEF Replaces
  <2>7. nodeState'[c][at'[c]] # "PENDING"
    <3>1. at'[c] = at[c] /\ e.at = at[c]
      BY <2>2, <2>3
    <3>2. nodeState'[c][at[c]] # "PENDING"
      BY <1>02, <2>6, <3>1
    <3>. QED  BY <3>1, <3>2
  <2>. QED  BY <1>0, <1>02, <1>7, <2>2, <2>3, <2>6, <2>7
<1>10. CASE Returns(c)
  <2>1. /\ UNCHANGED <<scenario, at, nodeState, resumes>> /\ pc'[c] = "returned" /\ pc[c] = "finish"
    BY <1>10, <1>02 DEF Returns
  <2>2. PICK e : OneEvent(e) /\ e.call = c /\ e.type = "GraphCompleted" /\ e.at = at[c]
    BY <1>10, <2>1, EmitAddsOne DEF Returns
  <2>3. nodeState[c][at[c]] # "PENDING"
    BY <1>0, <2>1
  <2>4. e.at \in Stages /\ nodeState[c][e.at] # "PENDING" /\ e.type # "NodeStarted"
    BY <1>02, <2>2, <2>3
  <2>5. \A i \in Stages : nodeState'[c][i] # "PENDING" <=> nodeState[c][i] # "PENDING" \/ i = e.at
    BY <2>1, <2>4
  <2>. QED  BY <1>7, <2>1, <2>2, <2>4, <2>5
<1>11. ASSUME NEW i \in Stages, Resume(c, i) PROVE FALSE
  <2>1. resumes'[c] = resumes[c] + 1
    BY <1>11 DEF Resume, BookType
  <2>. QED  BY <1>02, <2>1
<1>13. CASE TransformRaises(c)
  <2>1. PICK e : OneEvent(e) /\ e.call = c /\ e.type = "NodeFailed" /\ e.at = at[c]
    BY <1>13, EmitAddsOne DEF TransformRaises
  <2>2. /\ UNCHANGED <<scenario, at>> /\ pc'[c] = "wave" /\ pc[c] = "before"
        /\ nodeState' = [nodeState EXCEPT ![c][at[c]] = "FAILED"]
    BY <1>13, <1>02 DEF TransformRaises, node
  <2>3. Replaces(nodeState', nodeState, Call, Stages, c, at[c], "FAILED")
    BY <1>02, <2>2, ReplaceOne DEF BookType
  <2>4. nodeState[c][at[c]] # "PENDING"
    BY <2>2 DEF PlaceInv
  <2>5. \A i \in Stages : nodeState'[c][i] # "PENDING" <=> nodeState[c][i] # "PENDING" \/ i = e.at
    BY <2>1, <2>3, <2>4 DEF Replaces
  <2>6. nodeState'[c][at'[c]] # "PENDING"
    BY <1>02, <2>2, <2>3 DEF Replaces
  <2>. QED  BY <1>0, <1>02, <1>7, <2>1, <2>2, <2>5, <2>6
<1>12. ASSUME NEW d \in Call,
              \/ StartNode(d) \/ TransformRaises(d) \/ BeforeNode(d) \/ AfterNode(d) \/ CloseNode(d)
              \/ Returns(d)
              \/ (\E o : Concludes(d, o))
              \/ (\E n : GoesRound(d, n))
              \/ (\E i \in Stages : Resume(d, i))
       PROVE  d = c
  <2>1. pc[d] # "idle"
    BY <1>12 DEF StartNode, TransformRaises, BeforeNode, AfterNode, CloseNode, Returns, Concludes, GoesRound, Resume
  <2>. QED  BY <1>01, <2>1
<1>. QED
  BY <1>2, <1>3, <1>4, <1>5, <1>6, <1>8, <1>9, <1>10, <1>11, <1>12, <1>13 DEF BookStep

\* Who makes a step that is told in the books has begun.
LEMMA OnlyTheBusyStep ==
  ASSUME BookStep
  PROVE  Aside \/ \E d \in Call : /\ pc[d] # "idle"
                                  /\ \/ StartNode(d) \/ TransformRaises(d) \/ BeforeNode(d) \/ AfterNode(d)
                                     \/ CloseNode(d) \/ Returns(d)
                                     \/ (\E o : Concludes(d, o))
                                     \/ (\E n : GoesRound(d, n))
                                     \/ (\E i \in Stages : Resume(d, i))
  BY DEF BookStep, Goto, StartNode, TransformRaises, BeforeNode, AfterNode, CloseNode, Returns, Concludes,
         GoesRound, Resume

LEMMA IdleStay ==
  ASSUME FeedType, BookType, BookStep, NEW c \in Call, pc[c] = "idle",
         \A i \in Stages : nodeState[c][i] = "PENDING"
  PROVE  \A i \in Stages' : nodeState'[c][i] = "PENDING"
<1>. USE DEF node, state
<1>1. CASE Aside
  BY <1>1 DEF Aside, Stages, Pipe
<1>2. ASSUME NEW d \in Call, pc[d] # "idle",
             \/ StartNode(d) \/ TransformRaises(d) \/ BeforeNode(d) \/ AfterNode(d) \/ CloseNode(d)
              \/ Returns(d)
             \/ (\E o : Concludes(d, o))
             \/ (\E n : GoesRound(d, n))
             \/ (\E i \in Stages : Resume(d, i))
      PROVE  \A i \in Stages' : nodeState'[c][i] = "PENDING"
  <2>1. d # c /\ nodeState \in [Call -> [Stages -> NodeState]]
    BY <1>2 DEF BookType
  <2>2. Stages' = Stages
    BY <1>2 DEF StartNode, TransformRaises, BeforeNode, AfterNode, CloseNode, Returns, Concludes, GoesRound,
                Resume, Stages, Pipe
  <2>3. \/ nodeState' = nodeState
        \/ \E j \in Stages : \E v : nodeState' = [nodeState EXCEPT ![d][j] = v]
    BY <1>2 DEF StartNode, TransformRaises, BeforeNode, AfterNode, CloseNode, Returns, Concludes, GoesRound,
                Resume, BookType
  <2>4. ASSUME NEW j \in Stages, NEW v, nodeState' = [nodeState EXCEPT ![d][j] = v]
        PROVE  \A i \in Stages : nodeState'[c][i] = nodeState[c][i]
    <3>1. Replaces(nodeState', nodeState, Call, Stages, d, j, v)
      BY <2>1, <2>4, ReplaceOne
    <3>. QED  BY <2>1, <3>1 DEF Replaces
  <2>. QED  BY <2>2, <2>3, <2>4
<1>. QED  BY <1>1, <1>2, OnlyTheBusyStep

\* What is taken is what was sent, in its order.
LEMMA NextTaken ==
  ASSUME FeedType, Backlog, FeedStep, \A k \in DOMAIN taken : taken[k].event = sent[k]
  PROVE  \A k \in DOMAIN taken' : taken'[k].event = sent'[k]
<1>. USE DEF FeedType
<1>1. CASE UNCHANGED <<sent, taken>>
  BY <1>1
<1>2. ASSUME NEW c \in Call, Emits(c) PROVE \A k \in DOMAIN taken' : taken'[k].event = sent'[k]
  <2>1. PICK e \in Event : sent' = Append(sent, e) /\ taken' = taken
    BY <1>2 DEF Emits, Emit, Event
  <2>2. DOMAIN taken \subseteq DOMAIN sent
    BY DEF Backlog
  <2>3. \A k \in DOMAIN sent : sent'[k] = sent[k]
    BY <2>1
  <2>. QED  BY <2>1, <2>2, <2>3
<1>3. ASSUME NEW c \in Call, Take(c) PROVE \A k \in DOMAIN taken' : taken'[k].event = sent'[k]
  <2>1. PICK t : t = [event |-> Head(queue), by |-> c]
    OBVIOUS
  <2>2. t \in Taken /\ taken' = Append(taken, t) /\ sent' = sent /\ queue # << >>
    BY <1>3, <2>1 DEF Take, Taken
  <2>3. t.event = sent[Len(taken) + 1]
    BY <2>1, <2>2 DEF Backlog
  <2>4. \A k \in DOMAIN taken' : k = Len(taken) + 1 \/ (k \in DOMAIN taken /\ taken'[k] = taken[k])
    BY <2>2
  <2>5. taken'[Len(taken) + 1] = t
    BY <2>2
  <2>. QED  BY <2>2, <2>3, <2>4, <2>5
<1>. QED
  BY <1>1, <1>2, <1>3 DEF FeedStep, feed, Opens, Leave, EndStream

LEMMA NextStory ==
  ASSUME FeedType, Backlog, Unread, BookType, PlaceInv, StoryInv, [Next]_vars
  PROVE  StoryInv'
<1>. USE DEF FeedType
<1>1. FeedStep /\ NobodyGoesIdle /\ BookStep /\ BookType'
  BY StepKeeps, StepIsBooked, NextBookType
<1>2. /\ (\A c \in Call : pc[c] = "idle") => sent = << >>
      /\ \A k \in DOMAIN taken : taken[k].event = sent[k]
      /\ \A c \in Call : pc[c] = "idle" => \A i \in Stages : nodeState[c][i] = "PENDING"
      /\ \A c \in Call :
           Alone(c) /\ resumes[c] = 0 /\ pc[c] # "idle" =>
             Story(c) /\ (consumer[c] = "ended" => pc[c] = "returned" /\ queue = << >>)
  BY DEF StoryInv
<1>3. (\A c \in Call : pc'[c] = "idle") => sent' = << >>
  <2>. SUFFICES ASSUME \A c \in Call : pc'[c] = "idle" PROVE sent' = << >>
    OBVIOUS
  <2>1. \A c \in Call : pc[c] = "idle"
    BY <1>1 DEF NobodyGoesIdle
  <2>2. Aside
    BY <1>1, <2>1, OnlyTheBusyStep
  <2>. QED  BY <1>2, <2>1, <2>2 DEF Aside
<1>4. \A k \in DOMAIN taken' : taken'[k].event = sent'[k]
  BY <1>1, <1>2, NextTaken
<1>5. ASSUME NEW c \in Call, pc'[c] = "idle" PROVE \A i \in Stages' : nodeState'[c][i] = "PENDING"
  <2>1. pc[c] = "idle"
    BY <1>1, <1>5 DEF NobodyGoesIdle
  <2>. QED  BY <1>1, <1>2, <2>1, IdleStay
<1>6. ASSUME NEW c \in Call, Alone(c)', resumes'[c] = 0, pc'[c] # "idle"
      PROVE  Story(c)' /\ (consumer'[c] = "ended" => pc'[c] = "returned" /\ queue' = << >>)
  <2>1. Alone(c)
    BY <1>1, <1>6 DEF Alone, NobodyGoesIdle
  <2>2. CASE pc[c] = "idle"
    <3>1. \A d \in Call : pc[d] = "idle"
      BY <2>1, <2>2 DEF Alone
    <3>2. Aside
      BY <1>1, <3>1, OnlyTheBusyStep
    <3>3. /\ sent' = << >> /\ pc'[c] = "start" /\ UNCHANGED <<scenario, nodeState>>
      BY <1>2, <1>6, <2>2, <3>1, <3>2 DEF Aside
    <3>4. Len(<< >>) % 2 = 0 /\ DOMAIN << >> = {}
      OBVIOUS
    <3>5. \A i \in Stages : nodeState[c][i] = "PENDING"
      BY <1>2, <2>2
    <3>6. Story(c)'
      BY <3>3, <3>4, <3>5 DEF Story, Stages, Pipe, Inside
    <3>7. consumer[c] = "none"
      BY <2>2 DEF Unread
    <3>8. consumer'[c] # "ended"
      BY <1>1, <3>7 DEF FeedStep, feed, Opens, Emits, Emit, Take, Leave, EndStream
    <3>. QED  BY <3>6, <3>8
  <2>3. CASE pc[c] # "idle"
    <3>1. resumes[c] = 0
      <4>1. resumes' = resumes \/ \E d \in Call : resumes' = [resumes EXCEPT ![d] = @ + 1]
        BY <1>1 DEF BookStep, Aside, StartNode, TransformRaises, BeforeNode, AfterNode, CloseNode, Returns,
                    Concludes, GoesRound, Resume, state
      <4>2. resumes \in [Call -> Nat]
        BY DEF BookType
      <4>3. \A n \in Nat : n + 1 # 0
        OBVIOUS
      <4>. QED  BY <1>6, <4>1, <4>2, <4>3
    <3>2. Story(c) /\ (consumer[c] = "ended" => pc[c] = "returned" /\ queue = << >>)
      BY <1>2, <2>1, <2>3, <3>1
    <3>3. Story(c)'
      BY <1>1, <1>6, <2>1, <2>3, <3>2, StoryGoesOn
    <3>4. ASSUME pc[c] = "returned", queue = << >>, consumer'[c] = "ended"
          PROVE  pc'[c] = "returned" /\ queue' = << >>
      <4>1. Aside
        <5>1. ASSUME NEW i \in Stages, Resume(c, i) PROVE FALSE
          <6>1. resumes'[c] = resumes[c] + 1
            BY <5>1 DEF Resume, BookType
          <6>. QED  BY <1>6, <3>1, <6>1
        <5>2. \A d \in Call : pc[d] # "idle" => d = c
          BY <2>1 DEF Alone
        <5>3. ~(\E o : Concludes(c, o)) /\ ~(\E n : GoesRound(c, n))
              /\ ~StartNode(c) /\ ~TransformRaises(c) /\ ~BeforeNode(c) /\ ~AfterNode(c)
              /\ ~CloseNode(c) /\ ~Returns(c)
          BY <3>4 DEF Concludes, GoesRound, Goto, StartNode, TransformRaises, BeforeNode, AfterNode,
             CloseNode, Returns
        <5>. QED  BY <1>1, <5>1, <5>2, <5>3, OnlyTheBusyStep
      <4>2. pc'[c] = "returned" /\ sent' = sent
        BY <3>4, <4>1 DEF Aside
      <4>3. ~\E d \in Call : Emits(d)
        <5>1. ASSUME NEW e PROVE sent # Append(sent, e)
          <6>1. Len(Append(sent, e)) = Len(sent) + 1 /\ Len(sent) \in Nat
            OBVIOUS
          <6>. QED  BY <6>1
        <5>. QED  BY <4>2, <5>1 DEF Emits, Emit
      <4>4. queue' = << >>
        BY <1>1, <3>4, <4>3 DEF FeedStep, feed, Opens, Take, Leave, EndStream
      <4>. QED  BY <4>2, <4>4
    <3>5. CASE consumer[c] = "ended"
      BY <3>2, <3>3, <3>4, <3>5
    <3>6. ASSUME consumer[c] # "ended", consumer'[c] = "ended"
          PROVE  pc[c] = "returned" /\ queue = << >>
      <4>1. EndStream(c)
        BY <1>1, <3>6 DEF FeedStep, feed, Opens, Emits, Emit, Take, Leave, EndStream
      <4>. QED  BY <3>1, <4>1 DEF EndStream, TaskDone
    <3>. QED  BY <3>3, <3>4, <3>5, <3>6
  <2>. QED  BY <2>2, <2>3
<1>. QED  BY <1>3, <1>4, <1>5, <1>6 DEF StoryInv

LEMMA InitStory == Init => StoryInv
  BY DEF Init, StoryInv

LEMMA StoryIsTold ==
  ASSUME FeedType, Backlog, Unread, StoryInv
  PROVE  SoleStreamTellsAll
<1>. USE DEF FeedType
<1>1. ASSUME NEW c \in Ended, \A d \in Call : d = c \/ pc[d] = "idle", resumes[c] = 0,
             NEW got, got = [k \in DOMAIN taken |-> taken[k].event]
      PROVE  /\ \A k \in DOMAIN got : got[k].call = c
             /\ \A k \in DOMAIN got :
                  got[k].type = "NodeStarted" <=> k % 2 = 1 /\ got[k].type # "GraphCompleted"
             /\ \A i \in Stages :
                  nodeState[c][i] # "PENDING" <=> \E k \in DOMAIN got : got[k].at = i
             /\ \/ got[Len(got)].type = "GraphCompleted"
                \/ \E i \in Stages : Pipe[i].condition /\ nodeState[c][i] = "PENDING"
  <2>1. c \in Call /\ consumer[c] = "ended"
    BY DEF Ended
  <2>2. pc[c] # "idle" /\ Alone(c)
    BY <1>1, <2>1 DEF Unread, Alone
  <2>3. Story(c) /\ pc[c] = "returned" /\ queue = << >>
    BY <1>1, <2>1, <2>2 DEF StoryInv
  <2>4. got = sent
    <3>1. Len(queue) = 0 /\ Len(sent) = Len(taken) + 0 /\ Len(taken) \in Nat
      BY <2>3 DEF Backlog
    <3>2. DOMAIN taken = DOMAIN sent
      BY <3>1
    <3>3. \A k \in DOMAIN taken : taken[k].event = sent[k]
      BY DEF StoryInv
    <3>4. sent = [k \in DOMAIN sent |-> sent[k]]
      OBVIOUS
    <3>5. got = [k \in DOMAIN sent |-> sent[k]]
      BY <1>1, <3>2, <3>3
    <3>. QED  BY <3>4, <3>5
  <2>. QED  BY <2>3, <2>4 DEF Story
<1>. QED  BY <1>1, Zenon DEF SoleStreamTellsAll

(* The only stream of a runtime that is used for nothing else yields the   *)
(* whole story of its run, from the first NodeStarted to GraphCompleted,   *)
(* in order and for exactly the nodes that ran, whatever the chain and the *)
(* ways its nodes end (stream(), run() and _emit_event of GraphRuntime).   *)
THEOREM SoleStreamIsComplete == Spec => []SoleStreamTellsAll
<1>1. Init => FeedInv /\ UndoInv /\ BookInv /\ StoryInv
  BY InitInv, InitUndo, InitBooks, InitStory
<1>2. FeedInv /\ UndoInv /\ BookInv /\ StoryInv /\ [Next]_vars =>
        FeedInv' /\ UndoInv' /\ BookInv' /\ StoryInv'
  BY NextInv, NextUndo, NextBooks, NextStory DEF FeedInv, UndoInv, BookInv
<1>3. FeedInv /\ StoryInv => SoleStreamTellsAll
  BY StoryIsTold DEF FeedInv
<1>. QED  BY <1>1, <1>2, <1>3, PTL DEF Spec
=============================================================================
