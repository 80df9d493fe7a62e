-------------------------- MODULE AgentThreadProofs --------------------------
(***************************************************************************)
(* What holds of AgentThread for every number of runs, however they share  *)
(* threads, for every step limit, budget and number of deletions.          *)
(***************************************************************************)
EXTENDS AgentThread, FiniteSetTheorems, SequenceTheorems, TLAPS

-----------------------------------------------------------------------------
(* Type correctness.  _load_thread is called only with a thread id.        *)

LoadsAThread == \A r \in Run : pc[r] = "load" => threadOf[r] # None

LEMMA SaysType ==
  ASSUME NEW r \in Run, NEW role \in {"user", "assistant", "tool"}
  PROVE  Says(r, role) \in Message
BY DEF Says, Message

LEMMA InitTypeOK == Init => TypeOK /\ LoadsAThread
<1> SUFFICES ASSUME Init PROVE TypeOK /\ LoadsAThread
  OBVIOUS
<1>1. store \in [Thread -> Object \cup {None}]
  BY DEF Init, Object
<1>2. << >> \in Seq(Message) /\ << >> \in Seq(Seq(Message))
  BY EmptySeq
<1>3. step \in [Run -> 0..MaxSteps]
  BY AgentAssumption DEF Init
<1>4. LoadsAThread
  BY DEF Init, LoadsAThread
<1>. QED  BY <1>1, <1>2, <1>3, <1>4 DEF Init, TypeOK, Pc, Answers

LEMMA ProgressTypeOK ==
  ASSUME TypeOK, LoadsAThread, NEW r \in Run, Progress(r)
  PROVE  TypeOK' /\ LoadsAThread'
<1> USE DEF TypeOK, LoadsAThread, threads, locals, meters, logs, Goto, Pc, Answers
<1>t. threadOf[r] \in Thread \cup {None}
  BY AgentAssumption
<1>1. CASE InputAllowed(r)
  BY <1>1 DEF InputAllowed
<1>2. CASE InputBlocked(r)
  BY <1>2 DEF InputBlocked
<1>3. CASE LoadThread(r)
  <2>1. store[threadOf[r]] \in Object \cup {None} /\ r \in Object
    BY <1>3, <1>t DEF LoadThread, Object
  <2>. QED  BY <1>3, <2>1 DEF LoadThread
<1>4. CASE Assemble(r)
  <2>1. (IF object[r] = None THEN << >> ELSE messages[object[r]]) \in Seq(Message)
    BY EmptySeq
  <2>2. <<Says(r, "user")>> \in Seq(Message)
    BY SaysType
  <2>. QED  BY <1>4, <2>1, <2>2 DEF Assemble
<1>5. CASE AskModel(r)
  BY <1>5, AgentAssumption DEF AskModel
<1>6. CASE StopCancelled(r)
  BY <1>6, AgentAssumption DEF StopCancelled
<1>7. CASE GiveUp(r)
  BY <1>7 DEF GiveUp
<1>8. CASE Answer(r)
  <2>1. Append(new[r], Says(r, "assistant")) \in Seq(Message)
    BY SaysType, AppendProperties
  <2>. QED  BY <1>8, <2>1 DEF Answer, Pay
<1>9. CASE CallTool(r)
  BY <1>9 DEF CallTool, Pay
<1>o. new[r] \o <<Says(r, "assistant"), Says(r, "tool")>> \in Seq(Message)
  <2>1. Says(r, "assistant") \in Message /\ Says(r, "tool") \in Message
    BY SaysType
  <2>2. <<Says(r, "assistant"), Says(r, "tool")>> \in Seq(Message)
    BY <2>1
  <2>. QED  BY <2>2, ConcatProperties
<1>10. CASE ToolReturns(r)
  BY <1>10, <1>o DEF ToolReturns, Observe
<1>11. CASE UnknownTool(r)
  BY <1>11, <1>o DEF UnknownTool, Observe, Pay
<1>12. CASE ReplyRaises(r)
  BY <1>12 DEF ReplyRaises, Pay
<1>13. CASE CheckOutput(r)
  BY <1>13 DEF CheckOutput
<1>14. CASE NoThread(r)
  BY <1>14 DEF NoThread
<1>15. CASE Extend(r)
  <2>. DEFINE o == object[r]
  <2>1. o \in Object
    BY <1>15 DEF Extend
  <2>2. messages[o] \o new[r] \in Seq(Message)
    BY <2>1, ConcatProperties
  <2>3. messages' = [messages EXCEPT ![o] = messages[o] \o new[r]]
    BY <1>15 DEF Extend
  <2>4. messages' \in [Object -> Seq(Message)] /\ messages'[o] \in Seq(Message)
    BY <2>1, <2>2, <2>3
  <2>5. Append(checkpoints[o], messages'[o]) \in Seq(Seq(Message))
    BY <2>1, <2>4, AppendProperties
  <2>6. checkpoints' \in [Object -> Seq(Seq(Message))]
    BY <1>15, <2>1, <2>5 DEF Extend
  <2>7. pc' \in [Run -> Pc] /\ LoadsAThread'
    BY <1>15 DEF Extend
  <2>. QED  BY <1>15, <2>4, <2>6, <2>7 DEF Extend
<1>16. CASE Put(r)
  BY <1>16 DEF Put
<1>17. CASE SaveToMemory(r)
  BY <1>17 DEF SaveToMemory
<1>18. CASE Audit(r)
  BY <1>18 DEF Audit
<1>. QED
  BY <1>1, <1>2, <1>3, <1>4, <1>5, <1>6, <1>7, <1>8, <1>9, <1>10, <1>11, <1>12, <1>13,
     <1>14, <1>15, <1>16, <1>17, <1>18 DEF Progress

LEMMA NextTypeOK ==
  TypeOK /\ LoadsAThread /\ [Next]_vars => TypeOK' /\ LoadsAThread'
<1> SUFFICES ASSUME TypeOK, LoadsAThread, [Next]_vars PROVE TypeOK' /\ LoadsAThread'
  OBVIOUS
<1>1. CASE \E r \in Run : Progress(r)
  BY <1>1, ProgressTypeOK
<1>2. CASE \E r \in Run : Raises(r)
  BY <1>2 DEF Raises, TypeOK, LoadsAThread, threads, locals, meters, logs, Pc
<1>3. CASE Cancel
  BY <1>3 DEF Cancel, TypeOK, LoadsAThread, threads, locals, meters, logs
<1>4. CASE \E t \in Thread : Delete(t)
  BY <1>4 DEF Delete, TypeOK, LoadsAThread, locals, meters, logs
<1>5. CASE UNCHANGED vars
  BY <1>5 DEF vars, TypeOK, LoadsAThread, threads, locals, meters, logs
<1>. QED  BY <1>1, <1>2, <1>3, <1>4, <1>5 DEF Next, AllEnded

LEMMA TypeInvariant == Spec => [](TypeOK /\ LoadsAThread)
BY InitTypeOK, NextTypeOK, PTL DEF Spec

(***************************************************************************)
(* Every variable of the model keeps its type.                             *)
(***************************************************************************)
THEOREM AgentTypeCorrect == Spec => []TypeOK
BY TypeInvariant, PTL

-----------------------------------------------------------------------------
(* Threads only grow.  A thread is extended at its end, what a run replays *)
(* is read at once, and until then its history is empty.                   *)

LEMMA EmptyPrefix ==
  ASSUME NEW S, NEW t \in Seq(S)
  PROVE  IsPrefix(<< >>, t)
<1>1. SubSeq(<< >>, 1, 0) = << >> /\ SubSeq(t, 1, 0) = << >>
  BY SubSeqEmpty
<1>2. Len(t) \in Nat /\ Len(<< >>) = 0
  BY LenProperties
<1>. QED  BY <1>1, <1>2 DEF IsPrefix

LEMMA PrefixOfConcat ==
  ASSUME NEW S, NEW s \in Seq(S), NEW t \in Seq(S), NEW u \in Seq(S), IsPrefix(s, t)
  PROVE  IsPrefix(s, t \o u)
<1>1. Len(s) \in Nat /\ Len(t) \in Nat /\ Len(u) \in Nat /\ Len(t \o u) = Len(t) + Len(u)
  BY LenProperties, ConcatProperties
<1>2. Len(s) <= Len(t) /\ SubSeq(s, 1, Len(s)) = SubSeq(t, 1, Len(s))
  BY DEF IsPrefix
<1>3. SubSeq(t \o u, 1, Len(s)) = SubSeq(t, 1, Len(s))
  <2>1. CASE Len(s) = 0
    BY <2>1, SubSeqEmpty
  <2>2. CASE Len(s) # 0
    <3>1. 1 \in 1..Len(t) /\ Len(s) \in 1..Len(t)
      BY <2>2, <1>1, <1>2
    <3>. QED  BY <3>1, SubSeqOfConcat1
  <2>. QED  BY <2>1, <2>2
<1>. QED  BY <1>1, <1>2, <1>3 DEF IsPrefix

Early == {"guard", "load", "memory"}

NothingReplayed == \A r \in Run : pc[r] \in Early => history[r] = << >>

GrowthInv == ThreadsOnlyGrow /\ NothingReplayed

\* Steps that neither touch a thread nor what a run knows of it.
LEMMA OtherSteps ==
  ASSUME TypeOK, [Next]_vars,
         ~\E r \in Run : LoadThread(r) \/ Assemble(r) \/ Extend(r)
  PROVE  /\ UNCHANGED <<messages, checkpoints, object, history>>
         /\ \A r \in Run : pc'[r] \in Early => pc[r] \in Early
<1> USE DEF TypeOK, threads, locals, Goto, Early
<1>1. ASSUME NEW r \in Run, Progress(r)
      PROVE  /\ UNCHANGED <<messages, checkpoints, object, history>>
             /\ \A q \in Run : pc'[q] \in Early => pc[q] \in Early
  BY <1>1 DEF Progress, InputAllowed, InputBlocked, AskModel, StopCancelled, GiveUp,
     Answer, CallTool, ToolReturns, UnknownTool, ReplyRaises, CheckOutput, NoThread, Put,
     SaveToMemory, Audit
<1>2. ASSUME NEW r \in Run, Raises(r)
      PROVE  /\ UNCHANGED <<messages, checkpoints, object, history>>
             /\ \A q \in Run : pc'[q] \in Early => pc[q] \in Early
  BY <1>2 DEF Raises
<1>3. CASE Cancel
  BY <1>3 DEF Cancel
<1>4. CASE \E t \in Thread : Delete(t)
  BY <1>4 DEF Delete
<1>5. CASE UNCHANGED vars
  BY <1>5 DEF vars
<1>. QED  BY <1>1, <1>2, <1>3, <1>4, <1>5 DEF Next, AllEnded

LEMMA NextGrowthInv ==
  TypeOK /\ LoadsAThread /\ GrowthInv /\ [Next]_vars => GrowthInv'
<1> SUFFICES ASSUME TypeOK, LoadsAThread, GrowthInv, [Next]_vars PROVE GrowthInv'
  OBVIOUS
<1> USE DEF TypeOK, GrowthInv, ThreadsOnlyGrow, NothingReplayed, Goto
<1>n. None \notin Object
  BY AgentAssumption DEF Object
<1>1. ASSUME NEW r \in Run, LoadThread(r) PROVE GrowthInv'
  <2>1. /\ UNCHANGED <<messages, checkpoints, history>>
        /\ \A q \in Run \ {r} : object'[q] = object[q]
        /\ object'[r] \in Object \cup {None}
    BY <1>1, NextTypeOK DEF LoadThread, threads
  <2>2. history[r] = << >>
    BY <1>1 DEF LoadThread, Early
  <2>3. object'[r] # None => IsPrefix(history[r], messages[object'[r]])
    BY <2>1, <2>2, EmptyPrefix
  <2>4. NothingReplayed'
    BY <1>1, <2>1 DEF LoadThread, Early
  <2>. QED  BY <2>1, <2>3, <2>4
<1>2. ASSUME NEW r \in Run, Assemble(r) PROVE GrowthInv'
  <2>1. /\ UNCHANGED <<messages, checkpoints, object>>
        /\ \A q \in Run \ {r} : history'[q] = history[q]
        /\ object[r] # None => history'[r] = messages[object[r]]
    BY <1>2 DEF Assemble, threads
  <2>2. object[r] # None => IsPrefix(history'[r], messages[object[r]])
    BY <2>1, LenProperties DEF IsPrefix
  <2>3. NothingReplayed'
    BY <1>2, <2>1 DEF Assemble, Early
  <2>. QED  BY <2>1, <2>2, <2>3
<1>3. ASSUME NEW r \in Run, Extend(r) PROVE GrowthInv'
  <2>. DEFINE o == object[r]
  <2>1. /\ o \in Object
        /\ messages' = [messages EXCEPT ![o] = messages[o] \o new[r]]
        /\ \/ checkpoints' = checkpoints
           \/ checkpoints' = [checkpoints EXCEPT ![o] = Append(checkpoints[o], messages'[o])]
        /\ UNCHANGED <<object, history>>
    BY <1>3 DEF Extend, locals
  <2>2. messages'[o] = messages[o] \o new[r] /\ messages'[o] \in Seq(Message)
    BY <2>1, ConcatProperties
  <2>3. ASSUME NEW s \in Seq(Message), IsPrefix(s, messages[o])
        PROVE  IsPrefix(s, messages'[o])
    BY <2>1, <2>2, <2>3, PrefixOfConcat
  <2>4. ASSUME NEW q \in Run, object'[q] # None
        PROVE  IsPrefix(history'[q], messages'[object'[q]])
    <3>1. IsPrefix(history[q], messages[object[q]]) /\ history[q] \in Seq(Message)
      BY <2>1, <2>4
    <3>. QED  BY <2>1, <2>3, <2>4, <3>1
  <2>5. ASSUME NEW p \in Object, NEW i \in 1..Len(checkpoints'[p])
        PROVE  IsPrefix(checkpoints'[p][i], messages'[p])
    <3>1. CASE checkpoints'[p] = checkpoints[p]
      <4>1. checkpoints[p] \in Seq(Seq(Message)) /\ i \in 1..Len(checkpoints[p])
        BY <2>5, <3>1
      <4>2. checkpoints[p][i] \in Seq(Message) /\ IsPrefix(checkpoints[p][i], messages[p])
        BY <4>1, ElementOfSeq
      <4>3. p = o \/ messages'[p] = messages[p]
        BY <2>1
      <4>. QED  BY <2>3, <3>1, <4>2, <4>3
    <3>2. CASE p = o /\ checkpoints' = [checkpoints EXCEPT ![o] = Append(checkpoints[o], messages'[o])]
      <4>1. checkpoints[o] \in Seq(Seq(Message))
        BY <2>1
      <4>2. /\ Len(checkpoints'[o]) = Len(checkpoints[o]) + 1
            /\ \A j \in 1..Len(checkpoints[o]) : checkpoints'[o][j] = checkpoints[o][j]
            /\ checkpoints'[o][Len(checkpoints[o]) + 1] = messages'[o]
        BY <2>1, <2>2, <3>2, <4>1, AppendProperties
      <4>3. CASE i = Len(checkpoints[o]) + 1
        <5>1. checkpoints'[p][i] = messages'[p]
          BY <3>2, <4>2, <4>3
        <5>2. Len(messages'[o]) \in Nat
          BY <2>2, LenProperties
        <5>. QED  BY <3>2, <5>1, <5>2 DEF IsPrefix
      <4>4. CASE i # Len(checkpoints[o]) + 1
        <5>1. i \in 1..Len(checkpoints[o])
          BY <3>2, <4>1, <4>2, <4>4, <2>5, LenProperties
        <5>2. checkpoints[o][i] \in Seq(Message) /\ IsPrefix(checkpoints[o][i], messages[o])
          BY <2>1, <4>1, <5>1, ElementOfSeq
        <5>. QED  BY <2>3, <3>2, <4>2, <5>1, <5>2
      <4>. QED  BY <4>3, <4>4
    <3>. QED  BY <2>1, <3>1, <3>2
  <2>6. NothingReplayed'
    BY <1>3, <2>1 DEF Extend, Early
  <2>. QED  BY <2>4, <2>5, <2>6
<1>4. CASE ~\E r \in Run : LoadThread(r) \/ Assemble(r) \/ Extend(r)
  <2>1. /\ UNCHANGED <<messages, checkpoints, object, history>>
        /\ \A r \in Run : pc'[r] \in Early => pc[r] \in Early
    BY <1>4, OtherSteps
  <2>. QED  BY <2>1
<1>. QED  BY <1>1, <1>2, <1>3, <1>4

(***************************************************************************)
(* However many runs share a thread, and whatever raises or is deleted in  *)
(* between: what a run was shown, and every checkpoint, stays a prefix of  *)
(* the thread.                                                             *)
(***************************************************************************)
THEOREM ThreadsGrow == Spec => []ThreadsOnlyGrow
<1>1. Init => GrowthInv
  <2> SUFFICES ASSUME Init PROVE GrowthInv
    OBVIOUS
  <2>1. \A o \in Object : checkpoints[o] = << >> /\ Len(checkpoints[o]) = 0
    BY EmptySeq DEF Init
  <2>. QED  BY <2>1 DEF Init, GrowthInv, ThreadsOnlyGrow, NothingReplayed
<1>2. GrowthInv => ThreadsOnlyGrow
  BY DEF GrowthInv
<1>. QED  BY <1>1, <1>2, NextGrowthInv, TypeInvariant, PTL DEF Spec

-----------------------------------------------------------------------------
(* The budget and the cancel token.                                        *)

RaisedRuns == {r \in Run : pc[r] = "raised"}

\* Only the steps that pay for a call change what is spent, and one that
\* does not end its run is within the budget.  Nothing follows "raised".
LEMMA PaySteps ==
  ASSUME TypeOK, [Next]_vars
  PROVE  /\ RaisedRuns \subseteq RaisedRuns'
         /\ \/ spent' = spent
            \/ spent' <= Budget
            \/ spent' = spent + 1 /\ \E r \in Run : r \in RaisedRuns' \ RaisedRuns
<1> USE DEF TypeOK, meters, Goto, RaisedRuns, Pay, WithinBudget
<1>. DEFINE Claimed ==
       /\ RaisedRuns \subseteq RaisedRuns'
       /\ \/ spent' = spent
          \/ spent' <= Budget
          \/ spent' = spent + 1 /\ \E r \in Run : r \in RaisedRuns' \ RaisedRuns
<1>1. ASSUME NEW r \in Run, Progress(r) PROVE Claimed
  <2>1. CASE ReplyRaises(r)
    BY <2>1 DEF ReplyRaises
  <2>2. CASE ~ReplyRaises(r)
    BY <1>1, <2>2 DEF Progress, InputAllowed, InputBlocked, LoadThread, Assemble, AskModel,
       StopCancelled, GiveUp, Answer, CallTool, ToolReturns, UnknownTool, CheckOutput,
       NoThread, Extend, Put, SaveToMemory, Audit
  <2>. QED  BY <2>1, <2>2
<1>2. ASSUME NEW r \in Run, Raises(r) PROVE Claimed
  BY <1>2 DEF Raises
<1>3. CASE Cancel
  BY <1>3 DEF Cancel
<1>4. CASE \E t \in Thread : Delete(t)
  BY <1>4 DEF Delete
<1>5. CASE UNCHANGED vars
  BY <1>5 DEF vars
<1>. QED  BY <1>1, <1>2, <1>3, <1>4, <1>5 DEF Next, AllEnded

LEMMA RaisedFinite == TypeOK => IsFiniteSet(RaisedRuns) /\ IsFiniteSet(RaisedRuns')
<1>1. IsFiniteSet(Run)
  BY AgentAssumption
<1>2. RaisedRuns \in SUBSET Run /\ RaisedRuns' \in SUBSET Run
  BY DEF RaisedRuns
<1>. QED  BY <1>1, <1>2, FS_Subset

LEMMA NextBudget == TypeOK /\ LoadsAThread /\ BudgetHolds /\ [Next]_vars => BudgetHolds'
<1> SUFFICES ASSUME TypeOK, LoadsAThread, BudgetHolds, [Next]_vars PROVE BudgetHolds'
  OBVIOUS
<1>0. RaisedRuns \in SUBSET RaisedRuns' /\ IsFiniteSet(RaisedRuns) /\ IsFiniteSet(RaisedRuns')
  BY PaySteps, RaisedFinite
<1>1. /\ Cardinality(RaisedRuns) \in Nat
      /\ Cardinality(RaisedRuns') \in Nat
      /\ Cardinality(RaisedRuns) <= Cardinality(RaisedRuns')
  BY <1>0, FS_Subset, FS_CardinalityType
<1>2. spent <= Budget + Cardinality(RaisedRuns)
  BY DEF BudgetHolds, RaisedRuns
<1>3. SUFFICES spent' <= Budget + Cardinality(RaisedRuns')
  BY DEF BudgetHolds, RaisedRuns
<1>t. spent \in Nat /\ Budget \in Nat
  BY AgentAssumption DEF TypeOK
<1>4. CASE spent' = spent
  BY <1>1, <1>2, <1>4, <1>t
<1>5. CASE spent' <= Budget /\ spent' \in Nat
  BY <1>1, <1>5, <1>t
<1>6. CASE spent' = spent + 1 /\ \E r \in Run : r \in RaisedRuns' \ RaisedRuns
  <2>1. RaisedRuns # RaisedRuns'
    BY <1>6
  <2>2. Cardinality(RaisedRuns) # Cardinality(RaisedRuns')
    BY <1>0, <2>1, FS_Subset
  <2>. QED  BY <1>1, <1>2, <1>6, <1>t, <2>2
<1>7. spent' \in Nat
  BY NextTypeOK DEF TypeOK
<1>. QED  BY <1>4, <1>5, <1>6, <1>7, PaySteps

(***************************************************************************)
(* Whatever the budget and however many runs share it, each run goes       *)
(* beyond it by at most the one call that ends it with an exception.       *)
(***************************************************************************)
THEOREM BudgetIsKept == Spec => []BudgetHolds
<1>1. Init => BudgetHolds
  <2> SUFFICES ASSUME Init PROVE BudgetHolds
    OBVIOUS
  <2>1. {r \in Run : pc[r] = "raised"} = {}
    BY DEF Init
  <2>2. Cardinality({r \in Run : pc[r] = "raised"}) = 0
    BY <2>1, FS_EmptySet, Zenon
  <2>. QED  BY <2>2, AgentAssumption DEF Init, BudgetHolds
<1>. QED  BY <1>1, NextBudget, TypeInvariant, PTL DEF Spec

-----------------------------------------------------------------------------
(* No turn is lost on a stored thread.  As long as nothing is deleted, all *)
(* runs on it have the same object in hand, the one that is stored.  A     *)
(* thread holds messages only of runs that are past saving, so the turn    *)
(* that a run appends is its first; and later turns do not touch it.       *)

Saved == {"put", "remember", "audit", "returned", "raised"}

OwnWords == \A r \in Run : \A i \in 1..Len(new[r]) : new[r][i].run = r

OnlySavedTurns ==
  \A o \in Object : \A i \in 1..Len(messages[o]) : pc[messages[o][i].run] \in Saved

TurnKept ==
  \A r \in Run : pc[r] \in Saved \ {"raised"} /\ object[r] # None =>
    HasTurn(messages[object[r]], r)

SharedObject ==
  deletes = 0 =>
    \A t \in Known :
      /\ store[t] = t
      /\ \A r \in Run : threadOf[r] = t /\ pc[r] \notin {"guard", "load", "blocked", "raised"} =>
           object[r] = t

KeepInv == OwnWords /\ OnlySavedTurns /\ TurnKept /\ SharedObject

LEMMA ProgressOwnWords ==
  ASSUME TypeOK, OwnWords, NEW r \in Run, Progress(r)
  PROVE  /\ OwnWords'
         /\ \A q \in Run : pc[q] \in Saved => new'[q] = new[q] /\ pc'[q] \in Saved
<1> USE DEF TypeOK, locals, Goto, Saved
<1>1. CASE UNCHANGED new
  <2>1. OwnWords'
    BY <1>1 DEF OwnWords
  <2>2. \A q \in Run : pc[q] \in Saved => pc'[q] \in Saved
    BY DEF Progress, InputAllowed, InputBlocked, LoadThread, Assemble, AskModel,
       StopCancelled, GiveUp, Answer, CallTool, ToolReturns, UnknownTool, ReplyRaises,
       CheckOutput, NoThread, Extend, Put, SaveToMemory, Audit
  <2>. QED  BY <1>1, <2>1, <2>2
<1>2. CASE Assemble(r)
  <2>1. new' = [new EXCEPT ![r] = <<Says(r, "user")>>]
    BY <1>2 DEF Assemble
  <2>2. Len(new'[r]) = 1 /\ new'[r][1].run = r
    BY <2>1 DEF Says
  <2>. QED  BY <1>2, <2>1, <2>2 DEF Assemble, OwnWords
<1>3. CASE Answer(r)
  <2>1. new' = [new EXCEPT ![r] = Append(new[r], Says(r, "assistant"))]
    BY <1>3 DEF Answer
  <2>2. \A i \in 1..Len(new'[r]) : new'[r][i].run = r
    <3>1. Says(r, "assistant") \in Message /\ Says(r, "assistant").run = r
      BY SaysType DEF Says
    <3>2. /\ Len(new'[r]) = Len(new[r]) + 1 /\ Len(new[r]) \in Nat
          /\ \A i \in 1..Len(new[r]) : new'[r][i] = new[r][i]
          /\ new'[r][Len(new[r]) + 1] = Says(r, "assistant")
      BY <2>1, <3>1, AppendProperties, LenProperties
    <3>3. \A i \in 1..Len(new[r]) : new[r][i].run = r
      BY DEF OwnWords
    <3> TAKE i \in 1..Len(new'[r])
    <3>4. i \in 1..Len(new[r]) \/ i = Len(new[r]) + 1
      BY <3>2
    <3>. QED  BY <3>1, <3>2, <3>3, <3>4
  <2>. QED  BY <1>3, <2>1, <2>2 DEF Answer, OwnWords
<1>4. CASE ToolReturns(r) \/ UnknownTool(r)
  <2>. DEFINE said == <<Says(r, "assistant"), Says(r, "tool")>>
  <2>1. new' = [new EXCEPT ![r] = new[r] \o said]
    BY <1>4 DEF ToolReturns, UnknownTool, Observe
  <2>2. \A i \in 1..Len(new'[r]) : new'[r][i].run = r
    <3>1. /\ said \in Seq(Message) /\ Len(said) = 2
          /\ said[1].run = r /\ said[2].run = r
      BY DEF Says, Message
    <3>2. /\ Len(new'[r]) = Len(new[r]) + Len(said) /\ Len(new[r]) \in Nat
          /\ \A i \in 1..Len(new[r]) + Len(said) :
               new'[r][i] = IF i <= Len(new[r]) THEN new[r][i] ELSE said[i - Len(new[r])]
      BY <2>1, <3>1, ConcatProperties, LenProperties
    <3>3. \A i \in 1..Len(new[r]) : new[r][i].run = r
      BY DEF OwnWords
    <3> HIDE DEF said
    <3>4. ASSUME NEW i \in 1..(Len(new[r]) + 2), i > Len(new[r])
          PROVE  new'[r][i].run = r
      <4>1. i - Len(new[r]) \in {1, 2} /\ new'[r][i] = said[i - Len(new[r])]
        BY <3>1, <3>2, <3>4
      <4>. QED  BY <3>1, <4>1
    <3> TAKE i \in 1..Len(new'[r])
    <3>5. i \in 1..(Len(new[r]) + 2) /\ (i \in 1..Len(new[r]) \/ i > Len(new[r]))
      BY <3>1, <3>2
    <3>6. CASE i \in 1..Len(new[r])
      <4>1. i \in 1..Len(new[r]) + Len(said) /\ i <= Len(new[r])
        BY <3>1, <3>2, <3>6
      <4>2. new'[r][i] = new[r][i]
        BY <3>2, <4>1
      <4>. QED  BY <3>3, <3>6, <4>2
    <3>. QED  BY <3>4, <3>5, <3>6
  <2>. QED  BY <1>4, <2>1, <2>2 DEF ToolReturns, UnknownTool, OwnWords
<1>. QED
  BY <1>1, <1>2, <1>3, <1>4 DEF Progress, InputAllowed, InputBlocked, LoadThread, AskModel,
     StopCancelled, GiveUp, CallTool, ReplyRaises, CheckOutput, NoThread, Extend, Put,
     SaveToMemory, Audit

LEMMA NextOwnWords ==
  ASSUME TypeOK, OwnWords, [Next]_vars
  PROVE  /\ OwnWords'
         /\ \A q \in Run : pc[q] \in Saved => new'[q] = new[q] /\ pc'[q] \in Saved
<1> USE DEF TypeOK, locals, Saved
<1>1. CASE \E r \in Run : Progress(r)
  BY <1>1, ProgressOwnWords
<1>2. CASE \E r \in Run : Raises(r)
  BY <1>2 DEF Raises, OwnWords
<1>3. CASE Cancel
  BY <1>3 DEF Cancel, OwnWords
<1>4. CASE \E t \in Thread : Delete(t)
  BY <1>4 DEF Delete, OwnWords
<1>5. CASE UNCHANGED vars
  BY <1>5 DEF vars, OwnWords
<1>. QED  BY <1>1, <1>2, <1>3, <1>4, <1>5 DEF Next, AllEnded

LEMMA NextSharedObject ==
  TypeOK /\ LoadsAThread /\ SharedObject /\ [Next]_vars => SharedObject'
<1> SUFFICES ASSUME TypeOK, LoadsAThread, SharedObject, [Next]_vars PROVE SharedObject'
  OBVIOUS
<1> USE DEF TypeOK, SharedObject, threads, locals, Goto
<1>k. \A t \in Known : t \in Thread /\ t # None
  BY AgentAssumption
<1>1. ASSUME NEW r \in Run, Progress(r) PROVE SharedObject'
  <2>1. CASE InputAllowed(r)
    BY <1>k, <2>1 DEF InputAllowed
  <2>2. CASE LoadThread(r)
    <3>1. /\ UNCHANGED <<store, threadOf, deletes>>
          /\ object' = [object EXCEPT ![r] = IF store[threadOf[r]] = None THEN r
                                                                     ELSE store[threadOf[r]]]
          /\ pc' = [pc EXCEPT ![r] = "memory"]
      BY <2>2 DEF LoadThread
    <3>. QED  BY <1>k, <3>1
  <2>3. CASE Put(r)
    <3>1. /\ store' = [store EXCEPT ![threadOf[r]] = object[r]]
          /\ UNCHANGED <<threadOf, object, deletes>>
          /\ pc[r] = "put" /\ pc' = [pc EXCEPT ![r] = "remember"]
      BY <2>3 DEF Put
    <3>. QED  BY <1>k, <3>1
  <2>4. CASE ~(InputAllowed(r) \/ LoadThread(r) \/ Put(r))
    <3>1. UNCHANGED <<store, threadOf, object, deletes>>
      BY <1>1, <2>4 DEF Progress, InputBlocked, Assemble, AskModel, StopCancelled, GiveUp,
         Answer, CallTool, ToolReturns, UnknownTool, ReplyRaises, CheckOutput, NoThread,
         Extend, SaveToMemory, Audit
    <3>2. \A q \in Run : pc'[q] \notin {"guard", "load", "blocked", "raised"} =>
            pc[q] \notin {"guard", "load", "blocked", "raised"}
      BY <1>1, <2>4 DEF Progress, InputBlocked, Assemble, AskModel, StopCancelled, GiveUp,
         Answer, CallTool, ToolReturns, UnknownTool, ReplyRaises, CheckOutput, NoThread,
         Extend, SaveToMemory, Audit
    <3>. QED  BY <3>1, <3>2
  <2>. QED  BY <2>1, <2>2, <2>3, <2>4
<1>2. ASSUME NEW r \in Run, Raises(r) PROVE SharedObject'
  BY <1>2 DEF Raises
<1>3. CASE Cancel
  BY <1>3 DEF Cancel
<1>4. CASE \E t \in Thread : Delete(t)
  BY <1>4 DEF Delete
<1>5. CASE UNCHANGED vars
  BY <1>5 DEF vars
<1>. QED  BY <1>1, <1>2, <1>3, <1>4, <1>5 DEF Next, AllEnded

LEMMA ConcatElements ==
  ASSUME NEW S, NEW s \in Seq(S), NEW t \in Seq(S),
         NEW i \in 1..Len(s \o t), ~(i <= Len(s))
  PROVE  i - Len(s) \in 1..Len(t) /\ (s \o t)[i] = t[i - Len(s)]
<1>1. Len(s) \in Nat /\ Len(t) \in Nat /\ Len(s \o t) = Len(s) + Len(t)
  BY ConcatProperties, LenProperties
<1>2. i \in 1..Len(s) + Len(t)
  BY <1>1
<1>3. (s \o t)[i] = t[i - Len(s)]
  BY <1>2, ConcatProperties
<1>. QED  BY <1>1, <1>2, <1>3

\* Extending a thread with the turn of one run leaves the turns of others
\* where they are, and the new turn is there once.
LEMMA TurnAppended ==
  ASSUME TypeOK, OwnWords, NEW s \in Seq(Message), NEW r \in Run
  PROVE  /\ (\A i \in 1..Len(s) : s[i].run # r) => HasTurn(s \o new[r], r)
         /\ \A q \in Run \ {r} : HasTurn(s, q) => HasTurn(s \o new[r], q)
<1>. DEFINE u == s \o new[r]
<1>1. /\ Len(s) \in Nat /\ Len(new[r]) \in Nat /\ Len(u) = Len(s) + Len(new[r])
      /\ \A i \in 1..Len(s) : u[i] = s[i]
      /\ \A i \in 1..Len(new[r]) : u[Len(s) + i] = new[r][i]
  <2>1. new[r] \in Seq(Message) /\ Len(s) \in Nat /\ Len(new[r]) \in Nat
    BY LenProperties DEF TypeOK
  <2>2. /\ Len(u) = Len(s) + Len(new[r])
        /\ \A i \in 1..Len(s) + Len(new[r]) :
             u[i] = IF i <= Len(s) THEN s[i] ELSE new[r][i - Len(s)]
    BY <2>1, ConcatProperties
  <2>3. ASSUME NEW i \in 1..Len(new[r]) PROVE u[Len(s) + i] = new[r][i]
    <3>1. Len(s) + i \in 1..Len(s) + Len(new[r]) /\ ~(Len(s) + i <= Len(s))
          /\ Len(s) + i - Len(s) = i
      BY <2>1
    <3>. QED  BY <2>2, <3>1
  <2>. QED  BY <2>1, <2>2, <2>3
<1>2. \A i \in 1..Len(new[r]) : new[r][i].run = r
  BY DEF OwnWords
<1>3. ASSUME NEW i \in 1..Len(u), ~(i <= Len(s)) PROVE u[i].run = r
  <2>1. i - Len(s) \in 1..Len(new[r]) /\ Len(s) + (i - Len(s)) = i
    BY <1>1, <1>3
  <2>. QED  BY <1>1, <1>2, <2>1
<1> HIDE DEF u
<1>4. ASSUME \A i \in 1..Len(s) : s[i].run # r PROVE HasTurn(u, r)
  <2>1. Len(s) \in 0..(Len(u) - Len(new[r]))
    BY <1>1
  <2>2. ASSUME NEW i \in 1..Len(u), u[i].run = r
        PROVE  i \in (Len(s) + 1)..(Len(s) + Len(new[r]))
    BY <1>1, <1>4, <2>2
  <2>. QED  BY <1>1, <2>1, <2>2 DEF HasTurn
<1>5. ASSUME NEW q \in Run \ {r}, HasTurn(s, q) PROVE HasTurn(u, q)
  <2>1. PICK k \in 0..(Len(s) - Len(new[q])) :
          /\ \A i \in 1..Len(new[q]) : s[k + i] = new[q][i]
          /\ \A i \in 1..Len(s) : s[i].run = q => i \in (k + 1)..(k + Len(new[q]))
    BY <1>5 DEF HasTurn
  <2>2. Len(new[q]) \in Nat
    BY LenProperties DEF TypeOK
  <2>3. k \in 0..(Len(u) - Len(new[q]))
    BY <1>1, <2>1, <2>2
  <2>4. ASSUME NEW i \in 1..Len(new[q]) PROVE u[k + i] = new[q][i]
    <3>1. k + i \in 1..Len(s)
      BY <1>1, <2>1, <2>2
    <3>. QED  BY <1>1, <2>1, <3>1
  <2>5. ASSUME NEW i \in 1..Len(u), u[i].run = q PROVE i \in (k + 1)..(k + Len(new[q]))
    <3>1. i \in 1..Len(s)
      BY <1>1, <1>3, <2>5
    <3>. QED  BY <1>1, <2>1, <2>5, <3>1
  <2>. QED  BY <2>3, <2>4, <2>5 DEF HasTurn
<1>. QED  BY <1>4, <1>5 DEF u

\* In the other steps threads do not change, and a run gets to where its
\* turn must be there without a thread.
LEMMA NonExtending ==
  ASSUME TypeOK, [Next]_vars, ~\E r \in Run : Extend(r)
  PROVE  /\ UNCHANGED <<messages, checkpoints>>
         /\ \A q \in Run : pc'[q] \in Saved \ {"raised"} /\ object'[q] # None =>
              pc[q] \in Saved \ {"raised"} /\ object'[q] = object[q]
<1> USE DEF TypeOK, threads, locals, Goto, Saved
<1>. DEFINE Claimed ==
       /\ UNCHANGED <<messages, checkpoints>>
       /\ \A q \in Run : pc'[q] \in Saved \ {"raised"} /\ object'[q] # None =>
            pc[q] \in Saved \ {"raised"} /\ object'[q] = object[q]
<1>1. ASSUME NEW r \in Run, Progress(r) PROVE Claimed
  BY <1>1 DEF Progress, InputAllowed, InputBlocked, LoadThread, Assemble, AskModel,
     StopCancelled, GiveUp, Answer, CallTool, ToolReturns, UnknownTool, ReplyRaises,
     CheckOutput, NoThread, Put, SaveToMemory, Audit
<1>2. ASSUME NEW r \in Run, Raises(r) PROVE Claimed
  BY <1>2 DEF Raises
<1>3. CASE Cancel
  BY <1>3 DEF Cancel
<1>4. CASE \E t \in Thread : Delete(t)
  BY <1>4 DEF Delete
<1>5. CASE UNCHANGED vars
  BY <1>5 DEF vars
<1>. QED  BY <1>1, <1>2, <1>3, <1>4, <1>5 DEF Next, AllEnded

LEMMA NextTurnKept ==
  TypeOK /\ OwnWords /\ OnlySavedTurns /\ TurnKept /\ [Next]_vars =>
    OnlySavedTurns' /\ TurnKept'
<1> SUFFICES ASSUME TypeOK, OwnWords, OnlySavedTurns, TurnKept, [Next]_vars
             PROVE  OnlySavedTurns' /\ TurnKept'
  OBVIOUS
<1>1. \A q \in Run : pc[q] \in Saved => new'[q] = new[q] /\ pc'[q] \in Saved
  BY NextOwnWords
<1>2. ASSUME NEW o \in Object, NEW i \in 1..Len(messages[o])
      PROVE  messages[o][i].run \in Run
  <2>1. messages[o] \in Seq(Message)
    BY DEF TypeOK
  <2>2. messages[o][i] \in Message
    BY <2>1, ElementOfSeq
  <2>. QED  BY <2>2 DEF Message
<1>3. CASE ~\E r \in Run : Extend(r)
  <2>1. /\ messages' = messages
        /\ \A q \in Run : pc'[q] \in Saved \ {"raised"} /\ object'[q] # None =>
             pc[q] \in Saved \ {"raised"} /\ object'[q] = object[q]
    BY <1>3, NonExtending
  <2>2. ASSUME NEW o \in Object, NEW i \in 1..Len(messages'[o])
        PROVE  pc'[messages'[o][i].run] \in Saved
    <3>1. i \in 1..Len(messages[o]) /\ messages'[o][i] = messages[o][i]
      BY <2>1
    <3>2. messages[o][i].run \in Run /\ pc[messages[o][i].run] \in Saved
      BY <1>2, <3>1 DEF OnlySavedTurns
    <3>. QED  BY <1>1, <3>1, <3>2
  <2>3. ASSUME NEW q \in Run, pc'[q] \in Saved \ {"raised"}, object'[q] # None
        PROVE  HasTurn(messages[object[q]], q)'
    <3>1. pc[q] \in Saved \ {"raised"} /\ object'[q] = object[q]
      BY <2>1, <2>3
    <3>2. HasTurn(messages[object[q]], q) /\ new'[q] = new[q]
      BY <1>1, <2>3, <3>1 DEF TurnKept
    <3>. QED  BY <2>1, <3>1, <3>2 DEF HasTurn
  <2>4. OnlySavedTurns'
    BY <2>2 DEF OnlySavedTurns
  <2>5. TurnKept'
    BY <2>3 DEF TurnKept, Saved
  <2>. QED  BY <2>4, <2>5
<1>4. ASSUME NEW r \in Run, Extend(r) PROVE OnlySavedTurns' /\ TurnKept'
  <2>. DEFINE o == object[r]
  <2>1. /\ o \in Object /\ pc[r] = "save"
        /\ pc' \in {[pc EXCEPT ![r] = "put"], [pc EXCEPT ![r] = "raised"]}
        /\ messages' = [messages EXCEPT ![o] = messages[o] \o new[r]]
        /\ UNCHANGED <<object, new>>
    BY <1>4 DEF Extend, Goto, locals, TypeOK
  <2>2. messages'[o] = messages[o] \o new[r] /\ \A p \in Object \ {o} : messages'[p] = messages[p]
    BY <2>1 DEF TypeOK
  <2>3. \A i \in 1..Len(messages[o]) : messages[o][i].run # r
    BY <2>1 DEF OnlySavedTurns, Saved
  <2>4. messages[o] \in Seq(Message)
    BY <2>1 DEF TypeOK
  <2>5. HasTurn(messages'[o], r) /\ \A q \in Run \ {r} : HasTurn(messages[o], q) => HasTurn(messages'[o], q)
    BY <2>2, <2>3, <2>4, TurnAppended
  <2>6. ASSUME NEW p \in Object, NEW i \in 1..Len(messages'[p])
        PROVE  pc'[messages'[p][i].run] \in Saved
    <3>1. CASE p # o \/ i <= Len(messages[o])
      <4>1. i \in 1..Len(messages[p]) /\ messages'[p][i] = messages[p][i]
        BY <2>2, <2>4, <2>6, <3>1, ConcatProperties, LenProperties DEF TypeOK
      <4>2. messages[p][i].run \in Run /\ pc[messages[p][i].run] \in Saved
        BY <1>2, <4>1 DEF OnlySavedTurns
      <4>. QED  BY <1>1, <4>1, <4>2
    <3>2. CASE p = o /\ ~(i <= Len(messages[o]))
      <4>1. /\ new[r] \in Seq(Message) /\ Len(new[r]) \in Nat /\ Len(messages[o]) \in Nat
        BY <2>4, LenProperties DEF TypeOK
      <4>2. i \in 1..Len(messages[o] \o new[r])
        BY <2>2, <2>6, <3>2
      <4>3. i - Len(messages[o]) \in 1..Len(new[r])
        BY <2>4, <3>2, <4>1, <4>2, ConcatElements
      <4>4. messages'[o][i] = new[r][i - Len(messages[o])]
        BY <2>2, <2>4, <3>2, <4>1, <4>2, ConcatElements
      <4>5. messages'[p][i].run = r
        BY <3>2, <4>3, <4>4 DEF OwnWords
      <4>. QED  BY <2>1, <4>5 DEF Saved, TypeOK
    <3>. QED  BY <3>1, <3>2
  <2>7. ASSUME NEW q \in Run, pc'[q] \in Saved \ {"raised"}, object'[q] # None
        PROVE  HasTurn(messages'[object'[q]], q)
    <3>1. CASE q = r
      BY <2>1, <2>5, <3>1
    <3>2. CASE q # r
      <4>1. HasTurn(messages[object[q]], q) /\ object[q] \in Object
        BY <2>1, <2>7, <3>2 DEF TurnKept, TypeOK
      <4>2. CASE object[q] = o
        BY <2>1, <2>5, <3>2, <4>1, <4>2
      <4>3. CASE object[q] # o
        BY <2>1, <2>2, <4>1, <4>3
      <4>. QED  BY <4>2, <4>3
    <3>. QED  BY <3>1, <3>2
  <2>8. TurnKept'
    <3>1. ASSUME NEW q \in Run, pc'[q] \in Saved \ {"raised"}, object'[q] # None
          PROVE  HasTurn(messages[object[q]], q)'
      <4>1. HasTurn(messages'[object'[q]], q)
        BY <2>7, <3>1
      <4>. QED  BY <2>1, <4>1 DEF HasTurn
    <3>. QED  BY <3>1 DEF TurnKept, Saved
  <2>9. OnlySavedTurns'
    BY <2>6 DEF OnlySavedTurns
  <2>. QED  BY <2>8, <2>9
<1>. QED  BY <1>3, <1>4

(***************************************************************************)
(* On a thread that was stored and is not deleted, every run that returns  *)
(* has left its whole turn, once, whatever other runs did meanwhile.       *)
(***************************************************************************)
THEOREM TurnsAreKept == Spec => []NoTurnLost
<1>1. Init => KeepInv
  <2> SUFFICES ASSUME Init PROVE KeepInv
    OBVIOUS
  <2>1. /\ \A r \in Run : new[r] = << >> /\ Len(new[r]) = 0
        /\ \A o \in Object : messages[o] = << >> /\ Len(messages[o]) = 0
    BY EmptySeq DEF Init
  <2>2. SharedObject
    BY AgentAssumption DEF Init, SharedObject
  <2>. QED  BY <2>1, <2>2 DEF Init, KeepInv, OwnWords, OnlySavedTurns, TurnKept, Saved
<1>2. TypeOK /\ LoadsAThread /\ KeepInv /\ [Next]_vars => KeepInv'
  BY NextOwnWords, NextSharedObject, NextTurnKept DEF KeepInv
<1>3. TypeOK /\ KeepInv => NoTurnLost
  <2> SUFFICES ASSUME TypeOK, KeepInv, deletes = 0,
                      NEW r \in Run, pc[r] = "returned", threadOf[r] \in Known
               PROVE  store[threadOf[r]] # None /\ HasTurn(messages[store[threadOf[r]]], r)
    BY DEF NoTurnLost
  <2>1. store[threadOf[r]] = threadOf[r] /\ object[r] = threadOf[r]
    BY DEF KeepInv, SharedObject
  <2>2. threadOf[r] # None
    BY AgentAssumption
  <2>. QED  BY <2>1, <2>2 DEF KeepInv, TurnKept, Saved
<1>. QED  BY <1>1, <1>2, <1>3, TypeInvariant, PTL DEF Spec

-----------------------------------------------------------------------------
(* Turns do not mix: a turn is well formed before it goes into a thread,   *)
(* goes there in one piece, and its outcome does not change any more.      *)

Clean(s) ==
  /\ \A i \in 1..Len(s) : s[i].role = "user" <=> i = 1 \/ s[i - 1].run # s[i].run
  /\ \A i, j \in 1..Len(s) : s[i].role = "user" /\ s[i] = s[j] => i = j
  /\ \A i \in 1..Len(s) :
       success[s[i].run] /\ (i = Len(s) \/ s[i + 1].role = "user") =>
         s[i].role = "assistant"

CheckpointsEndTurns ==
  \A o \in Object : \A i \in 1..Len(checkpoints[o]) :
    EndsATurn(messages[o], Len(checkpoints[o][i]))

LEMMA EndsATurnAt ==
  \A s : \A i \in 1..Len(s) : EndsATurn(s, i) <=> (i = Len(s) \/ s[i + 1].role = "user")
BY DEF EndsATurn

Speaking == {"loop", "asking", "tool", "output", "save"}

\* The messages of a run that is not over: its question, and then what the
\* model and the tools said; after a success, the model had the last word.
TurnForm ==
  \A r \in Run : pc[r] \in Speaking =>
    /\ Len(new[r]) >= 1
    /\ \A i \in 1..Len(new[r]) : new[r][i].role = "user" <=> i = 1
    /\ pc[r] \in {"output", "save"} /\ success[r] =>
         new[r][Len(new[r])].role = "assistant"

LEMMA Said ==
  ASSUME NEW s \in Seq(Message), Len(s) >= 1,
         \A i \in 1..Len(s) : s[i].role = "user" <=> i = 1,
         NEW t \in Seq(Message), \A i \in 1..Len(t) : t[i].role # "user"
  PROVE  /\ Len(s \o t) >= 1
         /\ \A i \in 1..Len(s \o t) : (s \o t)[i].role = "user" <=> i = 1
         /\ Len(t) > 0 => (s \o t)[Len(s \o t)] = t[Len(t)]
<1>1. /\ Len(s \o t) = Len(s) + Len(t) /\ Len(s) \in Nat /\ Len(t) \in Nat
      /\ \A i \in 1..Len(s) + Len(t) :
           (s \o t)[i] = IF i <= Len(s) THEN s[i] ELSE t[i - Len(s)]
  BY ConcatProperties, LenProperties
<1>2. ASSUME NEW i \in 1..Len(s \o t)
      PROVE  (s \o t)[i].role = "user" <=> i = 1
  <2>1. CASE i <= Len(s)
    BY <1>1, <2>1
  <2>2. CASE ~(i <= Len(s))
    <3>1. i - Len(s) \in 1..Len(t) /\ (s \o t)[i] = t[i - Len(s)] /\ i # 1
      BY <1>1, <2>2
    <3>. QED  BY <3>1
  <2>. QED  BY <2>1, <2>2
<1>3. ASSUME Len(t) > 0 PROVE (s \o t)[Len(s \o t)] = t[Len(t)]
  <2>1. /\ Len(s) + Len(t) \in 1..Len(s) + Len(t)
        /\ ~(Len(s) + Len(t) <= Len(s))
        /\ Len(s) + Len(t) - Len(s) = Len(t)
    BY <1>1, <1>3
  <2>. QED  BY <1>1, <2>1
<1>4. Len(s \o t) >= 1
  BY <1>1
<1>. QED  BY <1>2, <1>3, <1>4

\* A turn that is appended to a thread in which its run has nothing yet.
LEMMA TurnJoins ==
  ASSUME NEW s \in Seq(Message), Clean(s),
         NEW t \in Seq(Message), Len(t) >= 1, NEW r \in Run,
         \A i \in 1..Len(s) : s[i].run # r,
         \A i \in 1..Len(t) : t[i].run = r /\ (t[i].role = "user" <=> i = 1),
         success[r] => t[Len(t)].role = "assistant"
  PROVE  Clean(s \o t)
<1>. DEFINE u == s \o t
            m == Len(s)
            n == Len(t)
<1>1. /\ Len(u) = m + n /\ m \in Nat /\ n \in Nat /\ n >= 1
      /\ \A i \in 1..m + n : u[i] = IF i <= m THEN s[i] ELSE t[i - m]
  BY ConcatProperties, LenProperties
<1>2. \A i \in 1..m : u[i] = s[i]
  BY <1>1
<1>3. ASSUME NEW i \in (m + 1)..(m + n)
      PROVE  /\ u[i].run = r /\ (u[i].role = "user" <=> i = m + 1)
             /\ i = m + n => u[i] = t[n]
  <2>1. i - m \in 1..n /\ u[i] = t[i - m] /\ (i - m = 1 <=> i = m + 1) /\ (i = m + n => i - m = n)
    BY <1>1
  <2>. QED  BY <2>1
<1>4. \A i \in 1..m + n : i \in 1..m \/ i \in (m + 1)..(m + n)
  BY <1>1
<1>5. \A i \in 1..m : u[i].run # r
  BY <1>2
<1>. HIDE DEF u, m, n
<1>6. ASSUME NEW i \in 1..m + n
      PROVE  u[i].role = "user" <=> i = 1 \/ u[i - 1].run # u[i].run
  <2>1. CASE i \in 1..m
    <3>1. s[i].role = "user" <=> i = 1 \/ s[i - 1].run # s[i].run
      BY <2>1 DEF Clean, m
    <3>2. i # 1 => i - 1 \in 1..m
      BY <1>1, <2>1
    <3>. QED  BY <1>2, <2>1, <3>1, <3>2
  <2>2. CASE i = m + 1
    <3>1. u[i].role = "user" /\ u[i].run = r
      BY <1>1, <1>3, <2>2
    <3>2. i = 1 \/ i - 1 \in 1..m
      BY <1>1, <2>2
    <3>. QED  BY <1>5, <3>1, <3>2
  <2>3. CASE i \in (m + 2)..(m + n)
    <3>1. i \in (m + 1)..(m + n) /\ i - 1 \in (m + 1)..(m + n) /\ i # m + 1 /\ i # 1
      BY <1>1, <2>3
    <3>. QED  BY <1>3, <3>1
  <2>4. i \in 1..m \/ i = m + 1 \/ i \in (m + 2)..(m + n)
    BY <1>1
  <2>. QED  BY <2>1, <2>2, <2>3, <2>4
<1>7. ASSUME NEW i \in 1..m + n, NEW j \in 1..m + n, u[i].role = "user", u[i] = u[j]
      PROVE  i = j
  <2>1. CASE i \in 1..m /\ j \in 1..m
    <3>1. s[i].role = "user" /\ s[i] = s[j]
      BY <1>2, <1>7, <2>1
    <3>. QED  BY <2>1, <3>1 DEF Clean, m
  <2>2. CASE i \in (m + 1)..(m + n) /\ j \in (m + 1)..(m + n)
    BY <1>3, <1>7, <2>2
  <2>3. CASE i \in 1..m /\ j \in (m + 1)..(m + n)
    BY <1>3, <1>5, <1>7, <2>3
  <2>4. CASE i \in (m + 1)..(m + n) /\ j \in 1..m
    BY <1>3, <1>5, <1>7, <2>4
  <2>. QED  BY <1>4, <2>1, <2>2, <2>3, <2>4
<1>8. ASSUME NEW i \in 1..m + n,
             success[u[i].run], i = m + n \/ u[i + 1].role = "user"
      PROVE  u[i].role = "assistant"
  <2>1. CASE i \in 1..m /\ i # m
    <3>1. i + 1 \in 1..m /\ i # m + n
      BY <1>1, <2>1
    <3>2. success[s[i].run] /\ s[i + 1].role = "user"
      BY <1>2, <1>8, <2>1, <3>1
    <3>. QED  BY <1>2, <2>1, <3>2 DEF Clean, m
  <2>2. CASE i \in 1..m /\ i = m
    BY <1>2, <1>8, <2>2 DEF Clean, m
  <2>3. CASE i \in (m + 1)..(m + n)
    <3>1. i = m + n
      <4>. SUFFICES ASSUME i # m + n PROVE FALSE
        OBVIOUS
      <4>1. i + 1 \in (m + 1)..(m + n) /\ i + 1 # m + 1
        BY <1>1, <2>3
      <4>. QED  BY <1>3, <1>8, <4>1
    <3>2. u[i] = t[n] /\ success[r]
      BY <1>3, <1>8, <2>3, <3>1
    <3>. QED  BY <3>2 DEF n
  <2>. QED  BY <1>4, <2>1, <2>2, <2>3
<1>9. \A i, j \in 1..m + n : u[i].role = "user" /\ u[i] = u[j] => i = j
  BY <1>7
<1>10. Len(u) = m + n
  BY <1>1
<1>. QED  BY <1>6, <1>8, <1>9, <1>10 DEF Clean, u

\* A run that has extended its thread has its outcome.
LEMMA OutcomeFixed ==
  ASSUME TypeOK, [Next]_vars
  PROVE  \A q \in Run : pc[q] \in Saved => success'[q] = success[q]
<1> USE DEF TypeOK, locals, Goto, Saved
<1>1. ASSUME NEW r \in Run, Progress(r)
      PROVE  \A q \in Run : pc[q] \in Saved => success'[q] = success[q]
  BY <1>1 DEF Progress, InputAllowed, InputBlocked, LoadThread, Assemble, AskModel,
     StopCancelled, GiveUp, Answer, CallTool, ToolReturns, UnknownTool, ReplyRaises,
     CheckOutput, NoThread, Extend, Put, SaveToMemory, Audit
<1>2. ASSUME NEW r \in Run, Raises(r) PROVE success' = success
  BY <1>2 DEF Raises
<1>3. CASE Cancel
  BY <1>3 DEF Cancel
<1>4. CASE \E t \in Thread : Delete(t)
  BY <1>4 DEF Delete
<1>5. CASE UNCHANGED vars
  BY <1>5 DEF vars
<1>. QED  BY <1>1, <1>2, <1>3, <1>4, <1>5 DEF Next, AllEnded

LEMMA NextTurnForm ==
  ASSUME TypeOK, TypeOK', TurnForm, [Next]_vars
  PROVE  TurnForm'
<1> USE DEF TypeOK, locals, Goto, Speaking
<1>1. ASSUME NEW r \in Run, Progress(r) PROVE TurnForm'
  <2>1. CASE Assemble(r)
    <3>1. /\ new' = [new EXCEPT ![r] = <<Says(r, "user")>>]
          /\ pc' = [pc EXCEPT ![r] = "loop"] /\ success' = success
      BY <2>1 DEF Assemble
    <3>2. Len(new'[r]) = 1 /\ new'[r][1].role = "user"
      BY <3>1 DEF Says
    <3>. QED  BY <3>1, <3>2 DEF TurnForm
  <2>2. CASE Answer(r)
    <3>. DEFINE said == <<Says(r, "assistant")>>
    <3>1. /\ new' = [new EXCEPT ![r] = Append(new[r], Says(r, "assistant"))]
          /\ pc[r] = "asking" /\ pc' \in {[pc EXCEPT ![r] = p] : p \in {"output", "save"}}
          /\ success' = success
      BY <2>2 DEF Answer
    <3>2. Says(r, "assistant") \in Message /\ Says(r, "assistant").role = "assistant"
      <4>1. Says(r, "assistant") \in Message
        BY SaysType
      <4>. QED  BY <4>1 DEF Says
    <3>3. said \in Seq(Message) /\ Len(said) = 1 /\ \A i \in 1..Len(said) : said[i].role = "assistant"
      BY <3>2
    <3>6. new[r] \in Seq(Message)
      OBVIOUS
    <3>7. Append(new[r], Says(r, "assistant")) = new[r] \o said
      BY <3>2, <3>6, AppendIsConcat
    <3>. HIDE DEF said
    <3>4. /\ Len(new[r]) >= 1 /\ \A i \in 1..Len(new[r]) : new[r][i].role = "user" <=> i = 1
      BY <3>1 DEF TurnForm
    <3>5. /\ Len(new'[r]) >= 1
          /\ \A i \in 1..Len(new'[r]) : new'[r][i].role = "user" <=> i = 1
          /\ new'[r][Len(new'[r])].role = "assistant"
      <4>1. new'[r] = new[r] \o said
        BY <3>1, <3>7
      <4>2. \A i \in 1..Len(said) : said[i].role # "user"
        BY <3>3
      <4>. HIDE DEF TypeOK
      <4>3. /\ Len(new[r] \o said) >= 1
            /\ \A i \in 1..Len(new[r] \o said) : (new[r] \o said)[i].role = "user" <=> i = 1
            /\ (new[r] \o said)[Len(new[r] \o said)] = said[Len(said)]
        BY <3>3, <3>4, <3>6, <4>2, Said
      <4>. QED  BY <3>3, <4>1, <4>3
    <3>8. \A q \in Run : q # r => new'[q] = new[q] /\ pc'[q] = pc[q] /\ success'[q] = success[q]
      BY <3>1
    <3>9. ASSUME NEW q \in Run, pc'[q] \in Speaking
          PROVE  /\ Len(new'[q]) >= 1
                 /\ \A i \in 1..Len(new'[q]) : new'[q][i].role = "user" <=> i = 1
                 /\ pc'[q] \in {"output", "save"} /\ success'[q] =>
                      new'[q][Len(new'[q])].role = "assistant"
      <4>. HIDE DEF TypeOK, Speaking
      <4>1. CASE q = r
        BY <4>1, <3>5
      <4>2. CASE q # r
        BY <4>2, <3>8, <3>9 DEF TurnForm
      <4>. QED  BY <4>1, <4>2
    <3>. QED  BY <3>9 DEF TurnForm
  <2>3. CASE ToolReturns(r) \/ UnknownTool(r)
    <3>. DEFINE said == <<Says(r, "assistant"), Says(r, "tool")>>
    <3>1. /\ new' = [new EXCEPT ![r] = new[r] \o said]
          /\ pc[r] \in {"tool", "asking"} /\ pc' = [pc EXCEPT ![r] = "loop"]
          /\ success' = success
      BY <2>3 DEF ToolReturns, UnknownTool, Observe
    <3>2. said \in Seq(Message) /\ Len(said) = 2 /\ said[1].role # "user" /\ said[2].role # "user"
      BY DEF Says, Message
    <3>3. new[r] \in Seq(Message)
      OBVIOUS
    <3>. HIDE DEF said
    <3>4. /\ Len(new[r]) >= 1 /\ \A i \in 1..Len(new[r]) : new[r][i].role = "user" <=> i = 1
      BY <3>1 DEF TurnForm
    <3>5. \A i \in 1..Len(said) : said[i].role # "user"
      <4> TAKE i \in 1..Len(said)
      <4>1. i = 1 \/ i = 2
        BY <3>2
      <4>. QED  BY <3>2, <4>1
    <3>6. /\ Len(new'[r]) >= 1
          /\ \A i \in 1..Len(new'[r]) : new'[r][i].role = "user" <=> i = 1
      <4>1. new'[r] = new[r] \o said
        BY <3>1
      <4>. HIDE DEF TypeOK
      <4>2. /\ Len(new[r] \o said) >= 1
            /\ \A i \in 1..Len(new[r] \o said) : (new[r] \o said)[i].role = "user" <=> i = 1
        BY <3>2, <3>3, <3>4, <3>5, Said
      <4>. QED  BY <4>1, <4>2
    <3>7. pc'[r] = "loop"
      BY <3>1
    <3>8. \A q \in Run : q # r => new'[q] = new[q] /\ pc'[q] = pc[q] /\ success'[q] = success[q]
      BY <3>1
    <3>9. ASSUME NEW q \in Run, pc'[q] \in Speaking
          PROVE  /\ Len(new'[q]) >= 1
                 /\ \A i \in 1..Len(new'[q]) : new'[q][i].role = "user" <=> i = 1
                 /\ pc'[q] \in {"output", "save"} /\ success'[q] =>
                      new'[q][Len(new'[q])].role = "assistant"
      <4>. HIDE DEF TypeOK, Speaking
      <4>1. CASE q = r
        BY <4>1, <3>6, <3>7
      <4>2. CASE q # r
        BY <4>2, <3>8, <3>9 DEF TurnForm
      <4>. QED  BY <4>1, <4>2
    <3>. QED  BY <3>9 DEF TurnForm
  <2>4. CASE ~(Assemble(r) \/ Answer(r) \/ ToolReturns(r) \/ UnknownTool(r))
    <3>1. /\ new' = new
          /\ \A q \in Run : pc'[q] \in Speaking => pc[q] \in Speaking
          /\ \A q \in Run : pc'[q] \in {"output", "save"} /\ success'[q] =>
               pc[q] \in {"output", "save"} /\ success[q]
      BY <1>1, <2>4 DEF Progress, InputAllowed, InputBlocked, LoadThread, AskModel,
         StopCancelled, GiveUp, CallTool, ReplyRaises, CheckOutput, NoThread, Extend, Put,
         SaveToMemory, Audit
    <3>. QED  BY <3>1 DEF TurnForm
  <2>. QED  BY <2>1, <2>2, <2>3, <2>4
<1>2. ASSUME NEW r \in Run, Raises(r) PROVE TurnForm'
  BY <1>2 DEF Raises, TurnForm
<1>3. CASE Cancel
  BY <1>3 DEF Cancel, TurnForm
<1>4. CASE \E t \in Thread : Delete(t)
  BY <1>4 DEF Delete, TurnForm
<1>5. CASE UNCHANGED vars
  BY <1>5 DEF vars, TurnForm
<1>. QED  BY <1>1, <1>2, <1>3, <1>4, <1>5 DEF Next, AllEnded

\* What is in a thread depends on the outcome of runs that are past saving.
LEMMA StaysClean ==
  ASSUME TypeOK, OnlySavedTurns, [Next]_vars, NEW o \in Object,
         Clean(messages[o])
  PROVE  Clean(messages[o]) /\ \A i \in 1..Len(messages[o]) :
           success'[messages[o][i].run] = success[messages[o][i].run]
<1>1. ASSUME NEW i \in 1..Len(messages[o]) PROVE messages[o][i].run \in Run
  <2>1. messages[o] \in Seq(Message)
    BY DEF TypeOK
  <2>2. messages[o][i] \in Message
    BY <2>1, ElementOfSeq
  <2>. QED  BY <2>2 DEF Message
<1>. QED  BY <1>1, OutcomeFixed DEF OnlySavedTurns

LEMMA NextTurnsDoNotMix ==
  ASSUME TypeOK, TypeOK', OwnWords, OnlySavedTurns, TurnForm, TurnsDoNotMix, [Next]_vars
  PROVE  TurnsDoNotMix'
<1>1. ASSUME NEW o \in Object, NEW s, s = messages'[o],
             Clean(s), \A i \in 1..Len(s) : success'[s[i].run] = success[s[i].run]
      PROVE  Clean(messages[o])'
  BY <1>1 DEF Clean
<1>2. /\ \A o \in Object : Clean(messages[o])
      /\ CheckpointsEndTurns
  BY EndsATurnAt DEF TurnsDoNotMix, Clean, CheckpointsEndTurns
<1>3. CASE ~\E r \in Run : Extend(r)
  <2>1. messages' = messages /\ checkpoints' = checkpoints
    BY <1>3, NonExtending
  <2>2. \A o \in Object : Clean(messages[o])'
    BY <1>1, <1>2, <2>1, StaysClean
  <2>3. CheckpointsEndTurns'
    BY <1>2, <2>1 DEF CheckpointsEndTurns, EndsATurn
  <2>. QED  BY <2>2, <2>3, EndsATurnAt DEF TurnsDoNotMix, Clean, CheckpointsEndTurns
<1>4. ASSUME NEW r \in Run, Extend(r) PROVE TurnsDoNotMix'
  <2>1. PICK o \in Object :
          /\ pc[r] = "save" /\ messages' = [messages EXCEPT ![o] = messages[o] \o new[r]]
          /\ success' = success
          /\ \/ checkpoints' = checkpoints
             \/ checkpoints' = [checkpoints EXCEPT ![o] = Append(checkpoints[o], messages'[o])]
    BY <1>4 DEF Extend, Goto, locals, TypeOK
  <2>2. \A i \in 1..Len(messages[o]) : messages[o][i].run # r
    BY <2>1 DEF OnlySavedTurns, Saved
  <2>t. messages[o] \in Seq(Message) /\ new[r] \in Seq(Message)
    BY DEF TypeOK
  <2>n. /\ Len(new[r]) >= 1
        /\ \A i \in 1..Len(new[r]) : new[r][i].run = r /\ (new[r][i].role = "user" <=> i = 1)
        /\ success[r] => new[r][Len(new[r])].role = "assistant"
    BY <2>1 DEF TurnForm, Speaking, OwnWords
  <2>3. Clean(messages[o] \o new[r])
    BY <1>2, <2>2, <2>t, <2>n, TurnJoins
  <2>4. \A p \in Object : Clean(messages'[p])
    BY <1>2, <2>1, <2>3 DEF TypeOK
  <2>5. \A p \in Object : Clean(messages[p])'
    BY <1>1, <2>1, <2>4
  <2>6. CheckpointsEndTurns'
    <3>. DEFINE s == messages[o]
                t == new[r]
    <3>1. /\ messages'[o] = s \o t /\ Len(s) \in Nat /\ Len(t) \in Nat
          /\ Len(s \o t) = Len(s) + Len(t)
          /\ \A i \in 1..Len(s) + Len(t) :
               (s \o t)[i] = IF i <= Len(s) THEN s[i] ELSE t[i - Len(s)]
      BY <2>1, <2>t, ConcatProperties, LenProperties DEF TypeOK
    <3>2. t[1].role = "user" /\ Len(t) >= 1
      BY <2>n, <3>1
    <3>. HIDE DEF s, t
    <3>3. EndsATurn(s \o t, Len(s \o t))
      BY <3>1, <3>2 DEF EndsATurn
    <3>4. ASSUME NEW n, EndsATurn(s, n) PROVE EndsATurn(s \o t, n)
      <4>1. n \in 1..Len(s) /\ (n = Len(s) \/ s[n + 1].role = "user")
        BY <3>4 DEF EndsATurn
      <4>2. CASE n = Len(s)
        <5>1. PICK i \in 1..Len(s) + Len(t) : i = n + 1 /\ ~(i <= Len(s)) /\ i - Len(s) = 1
          BY <3>1, <3>2, <4>2
        <5>2. (s \o t)[i] = t[i - Len(s)]
          BY <3>1, <5>1
        <5>3. (s \o t)[i].role = "user"
          BY <3>2, <5>1, <5>2
        <5>. QED  BY <3>1, <4>1, <5>1, <5>3 DEF EndsATurn
      <4>3. CASE n # Len(s)
        <5>1. n + 1 \in 1..Len(s) + Len(t) /\ n + 1 <= Len(s)
          BY <3>1, <4>1, <4>3
        <5>. QED  BY <3>1, <4>1, <4>3, <5>1 DEF EndsATurn
      <4>. QED  BY <4>2, <4>3
    <3>5. ASSUME NEW p \in Object, NEW i \in 1..Len(checkpoints'[p])
          PROVE  EndsATurn(messages'[p], Len(checkpoints'[p][i]))
      <4>1. checkpoints[p] \in Seq(Seq(Message)) /\ Len(checkpoints[p]) \in Nat
        BY LenProperties DEF TypeOK
      <4>2. CASE i \in 1..Len(checkpoints[p]) /\ checkpoints'[p][i] = checkpoints[p][i]
        <5>1. EndsATurn(messages[p], Len(checkpoints[p][i]))
          BY <1>2, <4>2 DEF CheckpointsEndTurns
        <5>2. p = o \/ messages'[p] = messages[p]
          BY <2>1 DEF TypeOK
        <5>. QED  BY <3>1, <3>4, <4>2, <5>1, <5>2 DEF s
      <4>3. CASE checkpoints'[p] = checkpoints[p]
        BY <3>5, <4>2, <4>3
      <4>4. CASE p = o /\ checkpoints'[p] = Append(checkpoints[p], messages'[o])
        <5>1. /\ Len(checkpoints'[p]) = Len(checkpoints[p]) + 1
              /\ \A j \in 1..Len(checkpoints[p]) : checkpoints'[p][j] = checkpoints[p][j]
              /\ checkpoints'[p][Len(checkpoints[p]) + 1] = messages'[o]
          <6>1. messages'[o] \in Seq(Message)
            BY DEF TypeOK
          <6>. QED  BY <4>1, <4>4, <6>1, AppendProperties
        <5>2. i \in 1..Len(checkpoints[p]) \/ i = Len(checkpoints[p]) + 1
          BY <3>5, <4>1, <5>1
        <5>3. CASE i \in 1..Len(checkpoints[p])
          BY <4>2, <5>1, <5>3
        <5>4. CASE i = Len(checkpoints[p]) + 1
          BY <3>1, <3>3, <4>4, <5>1, <5>4
        <5>. QED  BY <5>2, <5>3, <5>4
      <4>5. checkpoints'[p] = checkpoints[p] \/ (p = o /\ checkpoints'[p] = Append(checkpoints[p], messages'[o]))
        BY <2>1 DEF TypeOK
      <4>. QED  BY <4>3, <4>4, <4>5
    <3>. QED  BY <3>5 DEF CheckpointsEndTurns, EndsATurn
  <2>. QED  BY <2>5, <2>6, EndsATurnAt DEF TurnsDoNotMix, Clean, CheckpointsEndTurns
<1>. QED  BY <1>3, <1>4

\* The messages of a run are in one piece in every thread, whatever runs at
\* the same time, with its question first and, after a success, its answer last;
\* and every checkpoint of the thread ends where one of these turns does.
THEOREM TurnsAreWhole == Spec => []TurnsDoNotMix
<1>. DEFINE Whole == OwnWords /\ OnlySavedTurns /\ TurnKept /\ TurnForm /\ TurnsDoNotMix
<1>1. Init => Whole
  <2> SUFFICES ASSUME Init PROVE Whole
    OBVIOUS
  <2>1. /\ \A r \in Run : new[r] = << >> /\ Len(new[r]) = 0 /\ pc[r] = "guard"
        /\ \A o \in Object : messages[o] = << >> /\ Len(messages[o]) = 0
    BY EmptySeq DEF Init
  <2>2. OwnWords /\ OnlySavedTurns /\ TurnKept
    BY <2>1 DEF OwnWords, OnlySavedTurns, TurnKept, Saved
  <2>3. TurnForm
    BY <2>1 DEF TurnForm, Speaking
  <2>4. TurnsDoNotMix
    BY <2>1, EmptySeq DEF Init, TurnsDoNotMix
  <2>. QED  BY <2>2, <2>3, <2>4
<1>2. TypeOK /\ TypeOK' /\ Whole /\ [Next]_vars => Whole'
  BY NextOwnWords, NextTurnKept, NextTurnForm, NextTurnsDoNotMix
<1>3. Whole => TurnsDoNotMix
  OBVIOUS
<1>. HIDE DEF Whole
<1>. QED  BY <1>1, <1>2, <1>3, TypeInvariant, PTL DEF Spec
=============================================================================
