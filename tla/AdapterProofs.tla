----------------------------- MODULE AdapterProofs -----------------------------
(***************************************************************************)
(* The safety of the adapters that keep everything in memory: the human    *)
(* task queue, the event bus, the business calendar and the memory tiers,  *)
(* each on its own, for every number of clients and every size.            *)
(***************************************************************************)
EXTENDS HumanTaskQueue, EventBus, BusinessCalendar, MemoryTiers, ListProofs,
        FiniteSetTheorems, TLAPS

-----------------------------------------------------------------------------
(* Lists.                                                                  *)

LEMMA AppendElement ==
  ASSUME NEW T, NEW t \in Seq(T), NEW e \in T
  PROVE  Append(t, e) \in Seq(T) /\ Elements(Append(t, e)) = Elements(t) \cup {e}
<1>1. PICK u : u = Append(t, e)
  OBVIOUS
<1>2. /\ u \in Seq(T) /\ DOMAIN u = 1..(Len(t) + 1) /\ DOMAIN t = 1..Len(t) /\ Len(t) \in Nat
      /\ \A i \in 1..Len(t) : u[i] = t[i]
      /\ u[Len(t) + 1] = e
  BY <1>1
<1>3. DOMAIN u = DOMAIN t \cup {Len(t) + 1}
  BY <1>2
<1>4. Elements(u) = Elements(t) \cup {e}
  BY <1>2, <1>3 DEF Elements
<1>. QED  BY <1>1, <1>2, <1>4

LEMMA KeepKeeps ==
  ASSUME NEW T, NEW s \in Seq(T), NEW S
  PROVE  Keep(s, S) \in Seq(T) /\ Elements(Keep(s, S)) = Elements(s) \cap S
<1>. DEFINE P == {t \in Seq(T) : Keep(t, S) \in Seq(T) /\ Elements(Keep(t, S)) = Elements(t) \cap S}
<1>1. << >> \in P
  <2>1. << >> \in Seq(T) /\ Elements(<< >>) = {}
    BY DEF Elements
  <2>2. Keep(<< >>, S) = << >>
    BY KeepEmpty
  <2>. QED  BY <2>1, <2>2
<1>2. ASSUME NEW t \in P, NEW e \in T PROVE Append(t, e) \in P
  <2>1. /\ Append(t, e) \in Seq(T) /\ Elements(Append(t, e)) = Elements(t) \cup {e}
        /\ Append(Keep(t, S), e) \in Seq(T)
        /\ Elements(Append(Keep(t, S), e)) = Elements(Keep(t, S)) \cup {e}
    BY AppendElement
  <2>2. Keep(Append(t, e), S) = IF e \in S THEN Append(Keep(t, S), e) ELSE Keep(t, S)
    BY KeepAppend
  <2>. QED  BY <2>1, <2>2
<1>3. P = Seq(T)
  <2>. HIDE DEF P
  <2>1. P \in SUBSET Seq(T)
    BY DEF P
  <2>. QED  BY <1>1, <1>2, <2>1, SeqInduction
<1>. QED  BY <1>3

-----------------------------------------------------------------------------
(* HumanTaskQueue.  Claim being a lock is inductive together with the      *)
(* types: every operation by which a task changes hands changes working,   *)
(* status and claimed_by in one step, because none of them awaits.         *)

LEMMA EmittedCount == QueueTypeOK => Cardinality(Emitted) \in Nat
<1> SUFFICES ASSUME QueueTypeOK PROVE Cardinality(Emitted) \in Nat
  OBVIOUS
<1>1. Emitted \subseteq Task
  BY DEF Emitted
<1>2. IsFiniteSet(Emitted)
  BY <1>1, QueueAssumption, FS_Subset
<1>3. QED
  BY <1>2, FS_CardinalityType

LEMMA InitType == QueueInit => QueueTypeOK
BY DEF QueueInit, QueueTypeOK, TaskStatus

LEMMA NextType == QueueTypeOK /\ [QueueNext]_queueVars => QueueTypeOK'
<1> SUFFICES ASSUME QueueTypeOK, [QueueNext]_queueVars PROVE QueueTypeOK'
  OBVIOUS
<1> USE DEF QueueTypeOK, TaskStatus, record, people, bounds
<1>1. ASSUME NEW t \in Task, Emit(t) PROVE QueueTypeOK'
  BY <1>1, EmittedCount DEF Emit
<1>2. ASSUME NEW t \in Task, ReleaseAbandoned(t) PROVE QueueTypeOK'
  BY <1>2 DEF ReleaseAbandoned, PutBack
<1>3. ASSUME NEW u \in User, Poll(u) PROVE QueueTypeOK'
  BY <1>3 DEF Poll, Listing, UpToLimit, Emitted
<1>4. ASSUME NEW u \in User, NEW t \in Task, Claim(u, t) PROVE QueueTypeOK'
  BY <1>4 DEF Claim, Looked
<1>5. ASSUME NEW u \in User, NEW t \in Task, ClaimRefused(u, t) PROVE QueueTypeOK'
  BY <1>5 DEF ClaimRefused, Looked
<1>6. ASSUME NEW u \in User, NEW t \in Task, Complete(u, t) PROVE QueueTypeOK'
  BY <1>6 DEF Complete
<1>7. ASSUME NEW u \in User, Forget(u) PROVE QueueTypeOK'
  BY <1>7 DEF Forget
<1>8. ASSUME NEW u \in User, NEW t \in Task, Release(u, t) PROVE QueueTypeOK'
  BY <1>8 DEF Release, PutBack
<1>9. ASSUME NEW u \in User, NEW w \in User, NEW t \in Task, Delegate(u, w, t)
      PROVE  QueueTypeOK'
  BY <1>9 DEF Delegate
<1>10. CASE AllDone \/ UNCHANGED queueVars
  BY <1>10 DEF AllDone, queueVars
<1>11. QED
  BY <1>1, <1>2, <1>3, <1>4, <1>5, <1>6, <1>7, <1>8, <1>9, <1>10 DEF QueueNext, WorkerStep

\* Every value a variable takes is one the queue's records can hold, and
\* people never have anything on screen or in hand but tasks.
THEOREM QueueTypeCorrect == QueueSpec => []QueueTypeOK
BY InitType, NextType, PTL DEF QueueSpec

-----------------------------------------------------------------------------
LEMMA NextLock == QueueTypeOK /\ ClaimIsALock /\ [QueueNext]_queueVars => ClaimIsALock'
<1> SUFFICES ASSUME QueueTypeOK, ClaimIsALock, [QueueNext]_queueVars,
                    NEW u \in User, NEW t \in working'[u]
             PROVE  status'[t] = "CLAIMED" /\ claimedBy'[t] = u
  BY DEF ClaimIsALock
<1> USE DEF QueueTypeOK, record, people, bounds
<1>t. t \in Task
  <2>1. QueueTypeOK'
    BY NextType
  <2>2. QED
    BY <2>1
<1>old. ASSUME t \in working[u]
        PROVE  /\ status[t] = "CLAIMED" /\ claimedBy[t] = u
               /\ \A v \in User : t \in working[v] => v = u
  BY <1>old DEF ClaimIsALock
<1>1. ASSUME NEW s \in Task, Emit(s) PROVE status'[t] = "CLAIMED" /\ claimedBy'[t] = u
  BY <1>1, <1>old DEF Emit
<1>2. ASSUME NEW s \in Task, ReleaseAbandoned(s)
      PROVE  status'[t] = "CLAIMED" /\ claimedBy'[t] = u
  BY <1>2, <1>old, <1>t DEF ReleaseAbandoned, PutBack
<1>3. ASSUME NEW v \in User, Poll(v) PROVE status'[t] = "CLAIMED" /\ claimedBy'[t] = u
  BY <1>3, <1>old DEF Poll
<1>4. ASSUME NEW v \in User, NEW s \in Task, Claim(v, s)
      PROVE  status'[t] = "CLAIMED" /\ claimedBy'[t] = u
  BY <1>4, <1>old, <1>t DEF Claim
<1>5. ASSUME NEW v \in User, NEW s \in Task, ClaimRefused(v, s)
      PROVE  status'[t] = "CLAIMED" /\ claimedBy'[t] = u
  BY <1>5, <1>old DEF ClaimRefused
<1>6. ASSUME NEW v \in User, NEW s \in Task, Complete(v, s)
      PROVE  status'[t] = "CLAIMED" /\ claimedBy'[t] = u
  BY <1>6, <1>old, <1>t DEF Complete
<1>7. ASSUME NEW v \in User, Forget(v) PROVE status'[t] = "CLAIMED" /\ claimedBy'[t] = u
  BY <1>7, <1>old DEF Forget
<1>8. ASSUME NEW v \in User, NEW s \in Task, Release(v, s)
      PROVE  status'[t] = "CLAIMED" /\ claimedBy'[t] = u
  BY <1>8, <1>old, <1>t DEF Release, PutBack
<1>9. ASSUME NEW v \in User, NEW w \in User, NEW s \in Task, Delegate(v, w, s)
      PROVE  status'[t] = "CLAIMED" /\ claimedBy'[t] = u
  BY <1>9, <1>old, <1>t DEF Delegate
<1>10. CASE AllDone \/ UNCHANGED queueVars
  BY <1>10, <1>old DEF AllDone, queueVars
<1>11. QED
  BY <1>1, <1>2, <1>3, <1>4, <1>5, <1>6, <1>7, <1>8, <1>9, <1>10 DEF QueueNext, WorkerStep

\* Claims exclude each other: a task in somebody's hands is CLAIMED by that
\* person, hence in nobody else's, however polls, claims, hand-overs and
\* restarts interleave.
THEOREM ClaimsExclude == QueueSpec => []ClaimIsALock
<1>1. QueueInit => ClaimIsALock
  BY DEF QueueInit, ClaimIsALock
<1>2. QED
  BY <1>1, NextLock, QueueTypeCorrect, PTL DEF QueueSpec

-----------------------------------------------------------------------------
LEMMA NextAnswer ==
  QueueTypeOK /\ ClaimIsALock /\ AnsweredByClaimer /\ [QueueNext]_queueVars => AnsweredByClaimer'
<1> SUFFICES ASSUME QueueTypeOK, ClaimIsALock, AnsweredByClaimer, [QueueNext]_queueVars,
                    NEW t \in Task, status'[t] = "COMPLETED"
             PROVE  answer'[t] = claimedBy'[t]
  BY DEF AnsweredByClaimer
<1> USE DEF QueueTypeOK, AnsweredByClaimer, record, people, bounds
<1>1. ASSUME NEW s \in Task, Emit(s) PROVE answer'[t] = claimedBy'[t]
  BY <1>1 DEF Emit
<1>2. ASSUME NEW s \in Task, ReleaseAbandoned(s) PROVE answer'[t] = claimedBy'[t]
  BY <1>2 DEF ReleaseAbandoned, PutBack
<1>3. ASSUME NEW u \in User, Poll(u) \/ Forget(u) PROVE answer'[t] = claimedBy'[t]
  BY <1>3 DEF Poll, Forget
<1>4. ASSUME NEW u \in User, NEW s \in Task, Claim(u, s) PROVE answer'[t] = claimedBy'[t]
  BY <1>4 DEF Claim
<1>5. ASSUME NEW u \in User, NEW s \in Task, ClaimRefused(u, s)
      PROVE  answer'[t] = claimedBy'[t]
  BY <1>5 DEF ClaimRefused
<1>6. ASSUME NEW u \in User, NEW s \in Task, Complete(u, s)
      PROVE  answer'[t] = claimedBy'[t]
  BY <1>6 DEF Complete, ClaimIsALock
<1>7. ASSUME NEW u \in User, NEW s \in Task, Release(u, s) PROVE answer'[t] = claimedBy'[t]
  BY <1>7 DEF Release, PutBack
<1>8. ASSUME NEW u \in User, NEW w \in User, NEW s \in Task, Delegate(u, w, s)
      PROVE  answer'[t] = claimedBy'[t]
  BY <1>8 DEF Delegate
<1>9. CASE AllDone \/ UNCHANGED queueVars
  BY <1>9 DEF AllDone, queueVars
<1>10. QED
  BY <1>1, <1>2, <1>3, <1>4, <1>5, <1>6, <1>7, <1>8, <1>9 DEF QueueNext, WorkerStep

\* Whoever claimed_by names gave the answer, for a task that is COMPLETED.
THEOREM AnswersAreTheClaimers == QueueSpec => []AnsweredByClaimer
<1>1. QueueInit => AnsweredByClaimer
  BY DEF QueueInit, AnsweredByClaimer
<1>2. QED
  BY <1>1, NextAnswer, QueueTypeCorrect, ClaimsExclude, PTL DEF QueueSpec
-----------------------------------------------------------------------------
(* EventBus.                                                               *)

\* Only who waits is subscribed, and only to what it waits for.
Subscribed ==
  \A t \in Topic : \A w \in Elements(handlers[t]) :
    /\ w \in Catcher => t = "signal" /\ phase[w] = "waiting"
    /\ w \in Requester => t = addr[w] /\ phase[w] \in {"publishing", "waiting", "raised"}

Addressed ==
  /\ \A q \in Requester : phase[q] # "idle" => addr[q] \in Addr
  /\ \A q \in owed : phase[q] # "idle"

Busy == \A p \in Publisher : busy[p] => phase[p] = "publishing"

\* Of the handlers on its copy of the list, publish() has been to the first.
HeardBy(p) ==
  /\ phase[p] = "idle" => called[p] = 0
  /\ p \in Thrower /\ phase[p] = "done" => called[p] >= Len(snapshot[p])
  /\ \A i \in 1..Len(snapshot[p]) :
       snapshot[p][i] \in Catcher =>
         /\ phase[snapshot[p][i]] # "idle"
         /\ i <= called[p] /\ phase[snapshot[p][i]] = "waiting" =>
              future[snapshot[p][i]] # NoValue

Heard == \A p \in Publisher : HeardBy(p)

LEMMA SubscribeAdds ==
  ASSUME BusTypeOK, NEW h \in Handler, NEW t \in Topic, Subscribe(h, t)
  PROVE  /\ handlers' \in [Topic -> Seq(Handler)]
         /\ \A u \in Topic : Elements(handlers'[u]) =
              IF u = t THEN Elements(handlers[u]) \cup {h} ELSE Elements(handlers[u])
<1>1. handlers \in [Topic -> Seq(Handler)] /\ handlers[t] \in Seq(Handler)
  BY DEF BusTypeOK
<1>2. PICK s : s = Append(handlers[t], h)
  OBVIOUS
<1>3. s \in Seq(Handler) /\ Elements(s) = Elements(handlers[t]) \cup {h}
  BY <1>1, <1>2, AppendElement
<1>4. handlers' = [handlers EXCEPT ![t] = s]
  BY <1>2 DEF Subscribe
<1>. QED  BY <1>1, <1>3, <1>4

LEMMA UnsubscribeRemoves ==
  ASSUME BusTypeOK, NEW h, NEW t \in Topic, Unsubscribe(h, t)
  PROVE  /\ handlers' \in [Topic -> Seq(Handler)]
         /\ \A u \in Topic : Elements(handlers'[u]) =
              IF u = t THEN Elements(handlers[u]) \ {h} ELSE Elements(handlers[u])
<1>1. handlers \in [Topic -> Seq(Handler)] /\ handlers[t] \in Seq(Handler)
  BY DEF BusTypeOK
<1>2. PICK s : s = Keep(handlers[t], Handler \ {h})
  OBVIOUS
<1>3. s \in Seq(Handler) /\ Elements(s) = Elements(handlers[t]) \cap (Handler \ {h})
  BY <1>1, <1>2, KeepKeeps
<1>4. Elements(handlers[t]) \subseteq Handler
  BY <1>1 DEF Elements
<1>5. handlers' = [handlers EXCEPT ![t] = s]
  BY <1>2 DEF Unsubscribe
<1>. QED  BY <1>1, <1>3, <1>4, <1>5
LEMMA SetResultOnce ==
  ASSUME BusTypeOK, NEW w, NEW p \in Publisher, SetResult(w, p)
  PROVE  /\ future' \in [Waiter -> Publisher \cup {NoValue}]
         /\ \A v \in Waiter : future[v] # NoValue \/ phase[v] = "timedout" => future'[v] = future[v]
         /\ w \in Waiter /\ phase[w] # "timedout" => future'[w] # NoValue
  BY BusAssumption DEF BusTypeOK, SetResult

\* A step that touches neither the list of p nor how far publish() is in it.
LEMMA HeardStill ==
  ASSUME BusTypeOK, Heard, NEW p \in Publisher,
         snapshot'[p] = snapshot[p], called'[p] = called[p],
         phase'[p] = "idle" => phase[p] = "idle",
         phase'[p] = "done" => phase[p] = "done" \/ p \notin Thrower \/ called[p] >= Len(snapshot[p]),
         \A c \in Catcher : phase'[c] = "idle" => phase[c] = "idle",
         \A c \in Catcher : phase'[c] = "waiting" => phase[c] \in {"idle", "waiting"},
         \A c \in Catcher : future[c] # NoValue => future'[c] = future[c]
  PROVE  HeardBy(p)'
  BY DEF Heard, HeardBy

BusInv == BusTypeOK /\ Subscribed /\ Addressed /\ Busy /\ Heard

LEMMA InitBus == BusInit => BusInv
<1>. SUFFICES ASSUME BusInit PROVE BusInv
  OBVIOUS
<1>1. << >> \in Seq(Handler) /\ Len(<< >>) = 0 /\ Elements(<< >>) = {}
  BY DEF Elements
<1>2. BusTypeOK
  BY <1>1 DEF BusInit, BusTypeOK
<1>3. Subscribed
  BY <1>1 DEF BusInit, Subscribed
<1>4. Addressed /\ Busy /\ Heard
  BY <1>1 DEF BusInit, Addressed, Busy, Heard, HeardBy, Publisher
<1>. QED  BY <1>2, <1>3, <1>4 DEF BusInv

\* Handlers of the application come and go.
LEMMA NextListening ==
  ASSUME BusInv, NEW h \in Listener, NEW t \in {"signal", "request"},
         Listen(h, t) \/ StopListening(h, t)
  PROVE  BusInv'
<1>. USE DEF BusInv
<1>1. UNCHANGED <<cast, phase, snapshot, called, busy, future, addr, owed>>
  BY DEF Listen, StopListening
<1>2. h \in Handler /\ t \in Topic /\ h \notin Waiter
  BY BusAssumption DEF Handler, Topic
<1>3. /\ handlers' \in [Topic -> Seq(Handler)]
      /\ \A u \in Topic : Elements(handlers'[u]) \subseteq Elements(handlers[u]) \cup {h}
  BY <1>2, SubscribeAdds, UnsubscribeRemoves DEF Listen, StopListening
<1>4. BusTypeOK'
  BY <1>1, <1>3 DEF BusTypeOK
<1>5. Subscribed'
  <2>1. h \notin Catcher /\ h \notin Requester
    BY <1>2 DEF Waiter
  <2>. QED  BY <1>1, <1>3, <2>1 DEF Subscribed
<1>6. Addressed' /\ Busy' /\ Heard'
  BY <1>1 DEF Addressed, Busy, Heard, HeardBy
<1>. QED  BY <1>4, <1>5, <1>6

\* publish() goes to its next handler.
LEMMA NextPublish ==
  ASSUME BusInv, NEW p \in Publisher, PublishStep(p) \/ ListenerRaises(p)
  PROVE  BusInv'
<1>. USE DEF BusInv
<1>0. /\ p \in Publisher \cup Catcher /\ p \notin Catcher
      /\ Thrower \cap Requester = {} /\ Catcher \cap Requester = {} /\ Catcher \subseteq Waiter
      /\ Requester \subseteq Publisher
  BY BusAssumption DEF Publisher, Waiter, Handler
<1>1. UNCHANGED <<cast, handlers, snapshot, addr>>
  BY DEF PublishStep, WakeCatcher, EnterListener, ListenerReturns, EndPublish, ListenerRaises
<1>2. phase[p] = "publishing"
  BY DEF PublishStep, WakeCatcher, EnterListener, MayCall, ListenerReturns, EndPublish,
         ListenerRaises, Busy
<1>3. /\ phase' \in [Publisher \cup Catcher -> {"idle", "publishing", "waiting"} \cup Ended]
      /\ \A x \in Publisher \cup Catcher : x # p => phase'[x] = phase[x]
      /\ \/ phase'[p] = phase[p]
         \/ phase'[p] = "raised" /\ ~busy'[p]
         \/ EndPublish(p) /\ ~busy'[p] /\ phase'[p] = IF p \in Thrower THEN "done" ELSE "waiting"
  BY <1>0 DEF PublishStep, WakeCatcher, EnterListener, ListenerReturns, EndPublish,
              ListenerRaises, BusTypeOK, Ended
<1>4. /\ future' \in [Waiter -> Publisher \cup {NoValue}]
      /\ \A w \in Waiter : future[w] # NoValue => future'[w] = future[w]
  <2>1. future' = future \/ SetResult(NextHandler(p), p)
    BY DEF PublishStep, WakeCatcher, EnterListener, ListenerReturns, EndPublish, ListenerRaises
  <2>. QED  BY <2>1, SetResultOnce DEF BusTypeOK
<1>5. BusTypeOK'
  <2>1. /\ called' = called \/ called' = [called EXCEPT ![p] = called[p] + 1]
        /\ busy' = busy \/ busy' = [busy EXCEPT ![p] = TRUE] \/ busy' = [busy EXCEPT ![p] = FALSE]
        /\ owed' = owed \/ owed' = owed \cup ({p} \cap Requester)
    BY DEF PublishStep, WakeCatcher, EnterListener, ListenerReturns, EndPublish, ListenerRaises
  <2>2. called' \in [Publisher -> Nat]
    <3>1. called \in [Publisher -> Nat] /\ called[p] + 1 \in Nat
      BY DEF BusTypeOK
    <3>. QED  BY <2>1, <3>1
  <2>3. busy' \in [Publisher -> BOOLEAN]
    BY <2>1 DEF BusTypeOK
  <2>4. owed' \subseteq Requester
    BY <2>1 DEF BusTypeOK
  <2>. QED  BY <1>1, <1>3, <1>4, <2>2, <2>3, <2>4 DEF BusTypeOK
<1>6. Busy'
  <2>1. \A x \in Publisher : x # p => busy'[x] = busy[x]
    BY DEF PublishStep, WakeCatcher, EnterListener, ListenerReturns, EndPublish, ListenerRaises, BusTypeOK
  <2>. QED  BY <1>2, <1>3, <2>1 DEF Busy
<1>7. Subscribed'
  BY <1>0, <1>1, <1>2, <1>3 DEF Subscribed
<1>8. Addressed'
  <2>1. owed' = owed \/ owed' = owed \cup ({p} \cap Requester)
    BY DEF PublishStep, WakeCatcher, EnterListener, ListenerReturns, EndPublish, ListenerRaises
  <2>2. phase'[p] # "idle"
    BY <1>2, <1>3
  <2>. QED  BY <1>0, <1>1, <1>2, <1>3, <2>1, <2>2 DEF Addressed, BusTypeOK
<1>9. ASSUME NEW x \in Publisher PROVE HeardBy(x)'
  <2>1. /\ snapshot'[x] = snapshot[x]
        /\ phase'[x] = "idle" => phase[x] = "idle"
        /\ \A c \in Catcher : c # p /\ phase'[c] = phase[c] /\ c \in Waiter
    BY <1>0, <1>1, <1>2, <1>3
  <2>2. CASE called'[x] = called[x]
    <3>1. phase'[x] = "done" => phase[x] = "done" \/ x \notin Thrower \/ called[x] >= Len(snapshot[x])
      BY <1>2, <1>3 DEF EndPublish, CalledList
    <3>. QED  BY <1>4, <2>1, <2>2, <3>1, HeardStill
  <2>3. CASE called'[x] # called[x]
    <3>1. x = p /\ called'[p] = called[p] + 1 /\ called[p] \in Nat /\ phase'[p] = phase[p]
          /\ (WakeCatcher(p) \/ EnterListener(p))
      BY <2>3 DEF PublishStep, WakeCatcher, EnterListener, ListenerReturns, EndPublish,
                  ListenerRaises, BusTypeOK
    <3>2. ASSUME snapshot[p][called[p] + 1] \in Catcher, phase[snapshot[p][called[p] + 1]] = "waiting"
          PROVE  future'[snapshot[p][called[p] + 1]] # NoValue
      <4>1. WakeCatcher(p)
        BY <1>0, <3>1, <3>2, BusAssumption DEF EnterListener, NextHandler, CalledList
      <4>2. SetResult(snapshot[p][called[p] + 1], p)
        BY <4>1 DEF WakeCatcher, NextHandler, CalledList
      <4>. QED  BY <1>0, <3>2, <4>2, SetResultOnce
    <3>3. \A i \in 1..Len(snapshot[p]) : i <= called[p] + 1 => i <= called[p] \/ i = called[p] + 1
      BY <3>1
    <3>. QED  BY <1>1, <1>2, <1>4, <2>1, <3>1, <3>2, <3>3 DEF Heard, HeardBy
  <2>. QED  BY <2>2, <2>3
<1>. QED  BY <1>5, <1>6, <1>7, <1>8, <1>9 DEF Heard, BusTypeOK
\* publish() begins, alone or in request().
LEMMA NextBegin ==
  ASSUME BusInv, NEW p \in Publisher,
         \/ p \in Thrower /\ Throw(p)
         \/ p \in Requester /\ \E a \in Addr : Request(p, a)
  PROVE  BusInv'
<1>. USE DEF BusInv
<1>0. /\ p \in Publisher \cup Catcher /\ p \notin Catcher
      /\ Thrower \cap Requester = {} /\ Catcher \cap Requester = {} /\ Requester \subseteq Publisher
      /\ Catcher \subseteq Waiter /\ Requester \subseteq Handler /\ Thrower \cap Handler = {}
  BY BusAssumption DEF Publisher, Waiter, Handler
<1>1. /\ phase[p] = "idle" /\ phase' = [phase EXCEPT ![p] = "publishing"]
      /\ snapshot' = [snapshot EXCEPT ![p] = handlers[TopicOf(p)]]
      /\ UNCHANGED <<cast, called, busy, future, owed>>
  BY DEF Throw, Request, BeginPublish
<1>2. TopicOf(p) \in Topic
  BY DEF TopicOf, Topic
<1>3. handlers[TopicOf(p)] \in Seq(Handler)
  BY <1>2 DEF BusTypeOK
<1>4. PICK a \in Addr \cup {NoValue} :
        IF p \in Requester
          THEN a \in Addr /\ addr' = [addr EXCEPT ![p] = a] /\ Subscribe(p, a)
          ELSE UNCHANGED <<handlers, addr>>
  BY <1>0 DEF Throw, Request
<1>5. /\ handlers' \in [Topic -> Seq(Handler)]
      /\ \A t \in Topic : Elements(handlers'[t]) =
           IF p \in Requester /\ t = a THEN Elements(handlers[t]) \cup {p} ELSE Elements(handlers[t])
  <2>1. CASE p \in Requester
    <3>1. p \in Handler /\ a \in Topic
      BY <1>0, <1>4, <2>1 DEF Topic
    <3>. QED  BY <1>4, <2>1, <3>1, SubscribeAdds
  <2>2. CASE p \notin Requester
    BY <1>4, <2>2 DEF BusTypeOK
  <2>. QED  BY <2>1, <2>2
<1>6. BusTypeOK'
  <2>1. phase' \in [Publisher \cup Catcher -> {"idle", "publishing", "waiting"} \cup Ended]
        /\ snapshot' \in [Publisher -> Seq(Handler)]
    BY <1>0, <1>1, <1>3 DEF BusTypeOK
  <2>2. addr' \in [Requester -> Addr \cup {NoValue}]
    BY <1>4 DEF BusTypeOK
  <2>. QED  BY <1>1, <1>5, <2>1, <2>2 DEF BusTypeOK
<1>7. \A x \in Publisher \cup Catcher : phase'[x] = IF x = p THEN "publishing" ELSE phase[x]
  BY <1>0, <1>1 DEF BusTypeOK
<1>8. \A q \in Requester : addr'[q] = IF q = p THEN a ELSE addr[q]
  BY <1>4 DEF BusTypeOK
<1>9. \A t \in Topic : Elements(handlers[t]) \subseteq Handler
  BY DEF BusTypeOK, Elements
<1>10. \A t \in Topic : p \notin Elements(handlers[t])
  BY <1>0, <1>1, <1>9 DEF Subscribed, Publisher
<1>11. Subscribed'
  <2>. SUFFICES ASSUME NEW t \in Topic, NEW w \in Elements(handlers'[t])
                PROVE  /\ w \in Catcher => t = "signal" /\ phase'[w] = "waiting"
                       /\ w \in Requester => t = addr'[w] /\ phase'[w] \in {"publishing", "waiting", "raised"}
    BY DEF Subscribed
  <2>1. CASE w = p
    BY <1>0, <1>5, <1>7, <1>8, <1>10, <2>1
  <2>2. CASE w # p
    <3>1. w \in Elements(handlers[t])
      BY <1>5, <2>2
    <3>. QED  BY <1>0, <1>7, <1>8, <2>2, <3>1 DEF Subscribed
  <2>. QED  BY <2>1, <2>2
<1>12. Addressed'
  BY <1>0, <1>1, <1>4, <1>7, <1>8 DEF Addressed, BusTypeOK
<1>13. Busy'
  BY <1>1, <1>7 DEF Busy
<1>14. ASSUME NEW x \in Publisher PROVE HeardBy(x)'
  <2>1. CASE x # p
    BY <1>0, <1>1, <1>7, <2>1, HeardStill DEF BusTypeOK
  <2>2. CASE x = p
    <3>1. called'[p] = 0 /\ phase'[p] = "publishing" /\ snapshot'[p] = handlers[TopicOf(p)]
      BY <1>1, <1>7, <2>2 DEF Heard, HeardBy, BusTypeOK
    <3>2. ASSUME NEW i \in 1..Len(snapshot'[p]), snapshot'[p][i] \in Catcher
          PROVE  phase'[snapshot'[p][i]] # "idle" /\ ~(i <= called'[p])
      <4>1. snapshot'[p][i] \in Elements(handlers[TopicOf(p)])
        BY <1>3, <3>1 DEF Elements
      <4>2. phase[snapshot'[p][i]] = "waiting"
        BY <1>2, <3>2, <4>1 DEF Subscribed
      <4>. QED  BY <1>0, <1>7, <3>1, <3>2, <4>2
    <3>. QED  BY <2>2, <3>1, <3>2 DEF HeardBy
  <2>. QED  BY <2>1, <2>2
<1>. QED  BY <1>6, <1>11, <1>12, <1>13, <1>14 DEF Heard

\* A waiter subscribes to the signal, or stops waiting and unsubscribes.
LEMMA NextWaiting ==
  ASSUME BusInv, NEW w \in Waiter,
         \/ w \in Catcher /\ (Catch(w) \/ CatcherStep(w))
         \/ w \in Requester /\ RequestStep(w)
  PROVE  BusInv'
<1>. USE DEF BusInv
<1>0. /\ w \in Publisher \cup Catcher /\ w \in Handler /\ "signal" \in Topic /\ Addr \subseteq Topic
      /\ Thrower \cap Requester = {} /\ Catcher \cap Requester = {} /\ Catcher \cap Publisher = {}
      /\ Thrower \cap Handler = {}
  BY BusAssumption DEF Publisher, Waiter, Handler, Topic
<1>1. UNCHANGED <<cast, snapshot, called, busy, future, addr, owed>>
  BY DEF Catch, CatcherStep, Caught, CatchTimesOut, RequestStep, Replied, RequestTimesOut
<1>2. PICK t \in Topic : (w \in Catcher => t = "signal") /\ (w \in Requester => t = addr[w])
  BY <1>0, BusAssumption DEF RequestStep, Replied, RequestTimesOut, Addressed
<1>3. \/ /\ w \in Catcher /\ phase[w] = "idle" /\ phase' = [phase EXCEPT ![w] = "waiting"]
         /\ Subscribe(w, t)
      \/ /\ phase[w] = "waiting" /\ phase' \in {[phase EXCEPT ![w] = e] : e \in {"done", "timedout"}}
         /\ Unsubscribe(w, t)
  <2>1. CASE w \in Catcher
    BY <1>0, <1>2, <2>1 DEF Catch, CatcherStep, Caught, CatchTimesOut
  <2>2. CASE w \in Requester
    BY <1>0, <1>2, <2>2 DEF RequestStep, Replied, RequestTimesOut
  <2>. QED  BY <2>1, <2>2 DEF Waiter
<1>4. /\ phase' \in [Publisher \cup Catcher -> {"idle", "publishing", "waiting"} \cup Ended]
      /\ \A x \in Publisher \cup Catcher : x # w => phase'[x] = phase[x]
      /\ phase'[w] \in {"waiting", "done", "timedout"} /\ phase[w] \in {"idle", "waiting"}
      /\ phase[w] = "idle" => w \in Catcher
  BY <1>0, <1>3 DEF BusTypeOK, Ended
<1>5. /\ handlers' \in [Topic -> Seq(Handler)]
      /\ \A u \in Topic : Elements(handlers'[u]) \subseteq Elements(handlers[u]) \cup ({w} \cap IF u = t THEN {w} ELSE {})
      /\ phase'[w] # "waiting" => \A u \in Topic : w \notin Elements(handlers'[u])
  <2>1. CASE Subscribe(w, t) /\ phase'[w] = "waiting"
    BY <1>0, <2>1, SubscribeAdds
  <2>2. CASE Unsubscribe(w, t) /\ phase[w] # "idle"
    <3>1. ASSUME NEW u \in Topic, w \in Elements(handlers[u]) PROVE u = t
      <4>1. /\ w \in Catcher => u = "signal"
            /\ w \in Requester => u = addr[w]
        BY <3>1 DEF Subscribed
      <4>. QED  BY <1>0, <1>2, <4>1 DEF Waiter
    <3>2. /\ handlers' \in [Topic -> Seq(Handler)]
          /\ \A u \in Topic : Elements(handlers'[u]) = Elements(handlers[u]) \ IF u = t THEN {w} ELSE {}
      BY <1>0, <2>2, UnsubscribeRemoves
    <3>3. ASSUME NEW u \in Topic PROVE w \notin Elements(handlers'[u])
      BY <3>1, <3>2
    <3>4. ASSUME NEW u \in Topic PROVE Elements(handlers'[u]) \subseteq Elements(handlers[u])
      BY <3>2
    <3>. QED  BY <3>2, <3>3, <3>4
  <2>. QED  BY <1>0, <1>3, <2>1, <2>2 DEF BusTypeOK
<1>6. BusTypeOK'
  BY <1>1, <1>4, <1>5 DEF BusTypeOK
<1>7. Subscribed'
  <2>. SUFFICES ASSUME NEW u \in Topic, NEW v \in Elements(handlers'[u])
                PROVE  /\ v \in Catcher => u = "signal" /\ phase'[v] = "waiting"
                       /\ v \in Requester => u = addr'[v] /\ phase'[v] \in {"publishing", "waiting", "raised"}
    BY DEF Subscribed
  <2>1. CASE v = w
    <3>1. phase'[w] = "waiting"
      BY <1>4, <1>5, <2>1
    <3>2. v \in Elements(handlers[u]) \/ u = t
      BY <1>5
    <3>. QED  BY <1>1, <1>2, <2>1, <3>1, <3>2 DEF Subscribed
  <2>2. CASE v # w
    <3>1. v \in Elements(handlers[u])
      BY <1>5, <2>2
    <3>. QED  BY <1>1, <1>4, <2>2, <3>1 DEF Subscribed, Publisher
  <2>. QED  BY <2>1, <2>2
<1>8. Addressed'
  BY <1>0, <1>1, <1>4 DEF Addressed, BusTypeOK, Publisher
<1>9. Busy'
  BY <1>0, <1>1, <1>4 DEF Busy
<1>10. ASSUME NEW p \in Publisher PROVE HeardBy(p)'
  <2>1. w = p => p \notin Thrower
    BY <1>0 DEF Publisher, Waiter
  <2>. QED  BY <1>0, <1>1, <1>4, <2>1, HeardStill
<1>. QED  BY <1>6, <1>7, <1>8, <1>9, <1>10 DEF Heard

LEMMA NextReply ==
  ASSUME BusInv, NEW q \in Requester, Reply(q)
  PROVE  BusInv'
<1>. USE DEF BusInv
<1>1. /\ UNCHANGED <<cast, handlers, phase, snapshot, called, busy, addr>>
      /\ owed' = owed \ {q}
      /\ future' = future \/ SetResult(handlers[addr[q]][1], q)
  BY DEF Reply
<1>2. /\ future' \in [Waiter -> Publisher \cup {NoValue}]
      /\ \A w \in Waiter : future[w] # NoValue => future'[w] = future[w]
  <2>1. q \in Publisher
    BY DEF Publisher
  <2>. QED  BY <1>1, <2>1, SetResultOnce DEF BusTypeOK
<1>3. BusTypeOK'
  BY <1>1, <1>2 DEF BusTypeOK
<1>4. Subscribed' /\ Addressed' /\ Busy'
  BY <1>1 DEF Subscribed, Addressed, Busy
<1>5. Heard'
  BY <1>1, <1>2, HeardStill DEF Heard, HeardBy, Waiter
<1>. QED  BY <1>3, <1>4, <1>5

LEMMA NextBus == BusInv /\ [BusNext]_busVars => BusInv'
<1>. SUFFICES ASSUME BusInv, [BusNext]_busVars PROVE BusInv'
  OBVIOUS
<1>1. CASE UNCHANGED busVars
  BY <1>1 DEF busVars, BusInv, BusTypeOK, Subscribed, Addressed, Busy, Heard, HeardBy
<1>2. ASSUME NEW c \in Catcher, Catch(c) \/ CatcherStep(c) PROVE BusInv'
  BY <1>2, NextWaiting DEF Waiter
<1>3. ASSUME NEW q \in Requester, RequestStep(q) PROVE BusInv'
  BY <1>3, NextWaiting DEF Waiter
<1>4. ASSUME NEW q \in Requester, NEW a \in Addr, Request(q, a) PROVE BusInv'
  BY <1>4, NextBegin DEF Publisher
<1>5. ASSUME NEW p \in Thrower, Throw(p) PROVE BusInv'
  BY <1>5, NextBegin DEF Publisher
<1>. QED
  BY <1>1, <1>2, <1>3, <1>4, <1>5, NextListening, NextPublish, NextReply DEF BusNext

(* Nobody who has stopped waiting stays subscribed, for any publishers,    *)
(* catchers and requests and however their wake-ups and timeouts           *)
(* interleave (unsubscribe() in SignalNode and request()).                 *)
THEOREM NobodyStaysSubscribed == BusSpec => []NoHandlerLeftBehind
<1>1. BusInv => NoHandlerLeftBehind
  BY DEF BusInv, Subscribed, NoHandlerLeftBehind, Waiter
<1>. QED  BY <1>1, InitBus, NextBus, PTL DEF BusSpec

(* A signal reaches whoever was subscribed when it was published, although *)
(* the list changes while publish() awaits the handlers (the copy that     *)
(* publish() iterates).                                                    *)
THEOREM SignalsReachAll == BusSpec => []SignalReachesAll
<1>1. BusInv => SignalReachesAll
  <2>. SUFFICES ASSUME BusInv, NEW p \in Thrower, phase[p] = "done",
                       NEW c \in Catcher \cap Elements(snapshot[p]), phase[c] = "waiting"
                PROVE  future[c] # NoValue
    BY DEF SignalReachesAll
  <2>1. p \in Publisher /\ snapshot[p] \in Seq(Handler) /\ called[p] \in Nat
    BY DEF BusInv, BusTypeOK, Publisher
  <2>2. PICK i \in 1..Len(snapshot[p]) : snapshot[p][i] = c
    BY <2>1 DEF Elements
  <2>3. i <= called[p]
    BY <2>1, <2>2 DEF BusInv, Heard, HeardBy
  <2>. QED  BY <2>1, <2>2, <2>3 DEF BusInv, Heard, HeardBy
<1>. QED  BY <1>1, InitBus, NextBus, PTL DEF BusSpec

\* A request has its handler subscribed until it is answered or times out,
\* which is what tells its reply topic from those of other requests.
AtTopic(q) == addr[q] # NoValue /\ q \in Elements(handlers[addr[q]])

TopicsAreApart ==
  /\ \A q \in Requester : phase[q] \in {"publishing", "waiting", "raised"} => AtTopic(q)
  /\ \A q, x \in Requester : AtTopic(q) /\ AtTopic(x) /\ q # x => addr[q] # addr[x]

\* Only replies answer requests.
Answered ==
  \A q \in Requester :
    /\ future[q] \in Requester \cup {NoValue}
    /\ phase[q] = "idle" => future[q] = NoValue

ReplyInv == TopicsAreApart /\ Answered /\ StrayRepliesComeLate

\* Steps that subscribe no request: whoever leaves its topic has ended.
LEMMA StillApart ==
  ASSUME BusTypeOK, TopicsAreApart, addr' = addr,
         \A a \in Addr : \A q \in Requester :
           q \in Elements(handlers'[a]) => q \in Elements(handlers[a]),
         \A q \in Requester : phase'[q] \in {"publishing", "waiting", "raised"} =>
           /\ phase[q] \in {"publishing", "waiting", "raised"}
           /\ addr[q] \in Addr /\ q \in Elements(handlers[addr[q]]) => q \in Elements(handlers'[addr[q]])
  PROVE  TopicsAreApart'
<1>1. \A q \in Requester : addr[q] \in Addr \cup {NoValue}
  BY DEF BusTypeOK
<1>2. \A q \in Requester : AtTopic(q)' => AtTopic(q)
  BY <1>1 DEF AtTopic
<1>3. \A q \in Requester : phase'[q] \in {"publishing", "waiting", "raised"} => AtTopic(q)'
  BY <1>1 DEF AtTopic, TopicsAreApart
<1>. QED  BY <1>2, <1>3 DEF TopicsAreApart

\* Steps that answer no request: who has ended stays so.
LEMMA StillLate ==
  ASSUME Answered, StrayRepliesComeLate,
         \A q \in Requester :
           /\ future'[q] = future[q]
           /\ phase'[q] = "idle" => phase[q] = "idle"
           /\ phase[q] # "idle" => addr'[q] = addr[q]
           /\ phase[q] \in {"done", "timedout"} => phase'[q] = phase[q]
  PROVE  Answered' /\ StrayRepliesComeLate'
  BY DEF Answered, StrayRepliesComeLate

LEMMA NextReplyInv == BusInv /\ ReplyInv /\ [BusNext]_busVars => ReplyInv'
<1>. SUFFICES ASSUME BusInv, ReplyInv, [BusNext]_busVars PROVE ReplyInv'
  OBVIOUS
<1>. USE DEF BusInv, ReplyInv
<1>0. /\ Requester \subseteq Publisher /\ Requester \subseteq Waiter /\ Waiter \subseteq Handler
      /\ Requester \cap Catcher = {} /\ Requester \cap Thrower = {} /\ Requester \cap Listener = {}
      /\ Addr \subseteq Topic /\ "signal" \notin Addr /\ "request" \notin Addr
      /\ NoValue \notin Addr
  BY BusAssumption DEF Publisher, Waiter, Handler, Topic
<1>1. CASE UNCHANGED busVars
  BY <1>1, StillApart, StillLate DEF busVars
<1>2. ASSUME NEW h \in Listener, NEW t \in {"signal", "request"}, Listen(h, t) \/ StopListening(h, t)
      PROVE  ReplyInv'
  <2>1. /\ UNCHANGED <<phase, future, addr>>
        /\ \A a \in Addr : handlers'[a] = handlers[a]
    BY <1>0, <1>2 DEF Listen, StopListening, Subscribe, Unsubscribe, BusTypeOK
  <2>. QED  BY <2>1, StillApart, StillLate
<1>3. ASSUME NEW p \in Publisher, PublishStep(p) \/ ListenerRaises(p) PROVE ReplyInv'
  <2>1. UNCHANGED <<handlers, addr>>
    BY <1>3 DEF PublishStep, WakeCatcher, EnterListener, ListenerReturns, EndPublish, ListenerRaises
  <2>2. phase[p] = "publishing"
    BY <1>3 DEF PublishStep, WakeCatcher, EnterListener, MayCall, ListenerReturns, EndPublish,
           ListenerRaises, Busy
  <2>3. \A q \in Requester :
          phase'[q] = phase[q] \/ (phase[q] = "publishing" /\ phase'[q] \in {"waiting", "raised"})
    BY <1>0, <1>3, <2>2 DEF PublishStep, WakeCatcher, EnterListener, ListenerReturns, EndPublish,
                ListenerRaises, BusTypeOK
  <2>4. \A q \in Requester : future'[q] = future[q]
    <3>1. future' = future \/ (NextHandler(p) \in Catcher /\ SetResult(NextHandler(p), p))
      BY <1>3 DEF PublishStep, WakeCatcher, EnterListener, ListenerReturns, EndPublish, ListenerRaises
    <3>. QED  BY <1>0, <3>1 DEF SetResult, BusTypeOK
  <2>5. TopicsAreApart'
    BY <2>1, <2>3, StillApart
  <2>6. Answered' /\ StrayRepliesComeLate'
    BY <2>1, <2>3, <2>4, StillLate
  <2>. QED  BY <2>5, <2>6
<1>4. ASSUME NEW p \in Thrower, Throw(p) PROVE ReplyInv'
  <2>1. /\ UNCHANGED <<handlers, addr, future>>
        /\ \A q \in Requester : phase'[q] = phase[q]
    BY <1>0, <1>4 DEF Throw, BeginPublish, BusTypeOK
  <2>. QED  BY <2>1, StillApart, StillLate
<1>5. ASSUME NEW c \in Catcher, Catch(c) \/ CatcherStep(c) PROVE ReplyInv'
  <2>1. /\ UNCHANGED <<addr, future>>
        /\ \A q \in Requester : phase'[q] = phase[q]
        /\ \A a \in Addr : handlers'[a] = handlers[a]
    BY <1>0, <1>5 DEF Catch, CatcherStep, Caught, CatchTimesOut, Subscribe, Unsubscribe, BusTypeOK
  <2>. QED  BY <2>1, StillApart, StillLate
<1>6. ASSUME NEW p \in Requester, NEW a \in Addr, Request(p, a) PROVE ReplyInv'
  <2>1. /\ phase[p] = "idle" /\ future' = future /\ Subscribe(p, a)
        /\ \A x \in Requester : Alive(x) => addr[x] # a
        /\ \A x \in Requester : phase'[x] = IF x = p THEN "publishing" ELSE phase[x]
        /\ \A x \in Requester : addr'[x] = IF x = p THEN a ELSE addr[x]
    BY <1>0, <1>6 DEF Request, BeginPublish, BusTypeOK
  <2>2. \A t \in Topic : Elements(handlers'[t]) =
          IF t = a THEN Elements(handlers[t]) \cup {p} ELSE Elements(handlers[t])
    BY <1>0, <2>1, SubscribeAdds
  <2>3. \A q \in Requester : addr[q] \in Addr \cup {NoValue}
    BY DEF BusTypeOK
  <2>4. \A q \in Requester \ {p} : AtTopic(q)' <=> AtTopic(q)
    BY <1>0, <2>1, <2>2, <2>3 DEF AtTopic
  <2>5. AtTopic(p)' /\ addr'[p] = a
    BY <1>0, <2>1, <2>2 DEF AtTopic
  <2>6. \A q \in Requester \ {p} : AtTopic(q) => addr[q] # a
    BY <2>1 DEF AtTopic, Alive
  <2>7. TopicsAreApart'
    <3>1. ASSUME NEW q \in Requester, phase'[q] \in {"publishing", "waiting", "raised"}
          PROVE  AtTopic(q)'
      BY <2>1, <2>4, <2>5, <3>1 DEF TopicsAreApart
    <3>2. ASSUME NEW q \in Requester, NEW x \in Requester, AtTopic(q)', AtTopic(x)', q # x
          PROVE  addr'[q] # addr'[x]
      BY <2>1, <2>4, <2>5, <2>6, <3>2 DEF TopicsAreApart
    <3>. QED  BY <3>1, <3>2 DEF TopicsAreApart
  <2>8. Answered' /\ StrayRepliesComeLate'
    BY <2>1, StillLate
  <2>. QED  BY <2>7, <2>8
<1>7. ASSUME NEW q \in Requester, RequestStep(q) PROVE ReplyInv'
  <2>1. /\ UNCHANGED <<addr, future>> /\ phase[q] = "waiting"
        /\ phase'[q] \in {"done", "timedout"} /\ \A x \in Requester \ {q} : phase'[x] = phase[x]
        /\ Unsubscribe(q, addr[q])
    BY <1>0, <1>7 DEF RequestStep, Replied, RequestTimesOut, BusTypeOK
  <2>2. addr[q] \in Topic
    BY <1>0, <2>1 DEF Addressed
  <2>3. \A t \in Topic : Elements(handlers'[t]) =
          IF t = addr[q] THEN Elements(handlers[t]) \ {q} ELSE Elements(handlers[t])
    BY <1>0, <2>1, <2>2, UnsubscribeRemoves
  <2>4. TopicsAreApart'
    <3>1. \A a \in Addr : \A x \in Requester :
            x \in Elements(handlers'[a]) => x \in Elements(handlers[a])
      BY <1>0, <2>3
    <3>2. \A x \in Requester : phase'[x] \in {"publishing", "waiting", "raised"} =>
            /\ phase[x] \in {"publishing", "waiting", "raised"}
            /\ addr[x] \in Addr /\ x \in Elements(handlers[addr[x]]) => x \in Elements(handlers'[addr[x]])
      BY <1>0, <2>1, <2>3
    <3>. QED  BY <2>1, <3>1, <3>2, StillApart
  <2>5. Answered' /\ StrayRepliesComeLate'
    BY <2>1, StillLate
  <2>. QED  BY <2>4, <2>5
<1>8. ASSUME NEW q \in Requester, Reply(q) PROVE ReplyInv'
  <2>1. UNCHANGED <<handlers, phase, addr>> /\ phase[q] # "idle" /\ addr[q] \in Addr
    BY <1>8 DEF Reply, Addressed
  <2>2. TopicsAreApart'
    BY <2>1, StillApart
  <2>3. CASE future' = future
    BY <2>1, <2>2, <2>3, StillLate
  <2>4. CASE handlers[addr[q]] # << >> /\ SetResult(handlers[addr[q]][1], q)
    <3>. DEFINE w == handlers[addr[q]][1]
    <3>1. w \in Elements(handlers[addr[q]])
      <4>1. handlers[addr[q]] \in Seq(Handler)
        BY <1>0, <2>1 DEF BusTypeOK
      <4>2. 1 \in DOMAIN handlers[addr[q]]
        BY <2>4, <4>1
      <4>. QED  BY <4>2 DEF Elements
    <3>. HIDE DEF w
    <3>2. \A x \in Requester : future'[x] = future[x] \/ (x = w /\ future'[x] = q)
      BY <1>0, <2>4 DEF SetResult, BusTypeOK, w
    <3>3. ASSUME w \in Requester
          PROVE  /\ phase[w] # "idle" /\ addr[w] = addr[q]
                 /\ w # q => phase[q] \in {"done", "timedout"}
      <4>1. addr[w] = addr[q] /\ phase[w] \in {"publishing", "waiting", "raised"}
        BY <1>0, <2>1, <3>1, <3>3 DEF Subscribed
      <4>2. w # q => ~AtTopic(q)
        BY <1>0, <2>1, <3>1, <3>3, <4>1 DEF TopicsAreApart, AtTopic
      <4>3. phase[q] \in {"idle", "publishing", "waiting"} \cup Ended
        BY <1>0 DEF BusTypeOK
      <4>. QED  BY <2>1, <4>1, <4>2, <4>3 DEF TopicsAreApart, Ended
    <3>4. Answered'
      BY <2>1, <3>2, <3>3 DEF Answered
    <3>5. StrayRepliesComeLate'
      BY <2>1, <3>2, <3>3 DEF StrayRepliesComeLate
    <3>. QED  BY <2>2, <3>4, <3>5
  <2>. QED  BY <1>8, <2>3, <2>4 DEF Reply
<1>. QED  BY <1>1, <1>2, <1>3, <1>4, <1>5, <1>6, <1>7, <1>8 DEF BusNext

(* A request is answered by a reply to its own event or, once ids come     *)
(* back, by one to a request that is over and did not raise, for any       *)
(* requests, listeners and reuse of ids (the reply topic of request()).    *)
THEOREM OnlyLateRepliesStray == BusSpec => []StrayRepliesComeLate
<1>1. BusInit => ReplyInv
  <2>. SUFFICES ASSUME BusInit PROVE ReplyInv
    OBVIOUS
  <2>1. \A q \in Requester : phase[q] = "idle" /\ future[q] = NoValue /\ addr[q] = NoValue
    BY DEF BusInit, Publisher, Waiter
  <2>. QED  BY <2>1 DEF ReplyInv, TopicsAreApart, AtTopic, Answered, StrayRepliesComeLate
<1>2. ReplyInv => StrayRepliesComeLate
  BY DEF ReplyInv
<1>. QED  BY <1>1, <1>2, InitBus, NextBus, NextReplyInv, PTL DEF BusSpec
-----------------------------------------------------------------------------
(* Memory tiers.                                                           *)

Longer(a, z) == Len(a) <= Len(z) /\ \A i \in 1..Len(a) : z[i] = a[i]

InEpisodes(q) == "episodic" \notin Tiers \/ q \in ToSet(episodes)

\* What load_context has of the tiers once it has read them.
ToldShort(r) ==
  \A q \in earlier[r] :
    "short" \in Tiers /\ LoadScope(r) # None /\ LoadScope(q) = LoadScope(r) =>
      q \in ToSet(context[r].short) \cup removed["short"]

\* Of every earlier run of the user: it is told, its key is still to be read,
\* was deleted or was cut off.  A key that is still to be read is in the list
\* or was deleted.
ToldLong(r) ==
  /\ \A q \in ToSet(context[r].long) : UserOf[q] = UserOf[r]
  /\ \A q \in ToSet(keys[r]) : UserOf[r] # None /\ q \in ToSet(long[UserOf[r]]) \cup removed["long"]
  /\ \A q \in earlier[r] :
       "long" \in Tiers /\ UserOf[r] # None /\ UserOf[q] = UserOf[r] =>
         q \in ToSet(context[r].long) \cup ToSet(keys[r]) \cup removed["long"] \/ CutOff(q, listed[r])

ToldEpisodes(r) ==
  "episodic" \in Tiers =>
    \A q \in earlier[r] :
      q \in ToSet(context[r].episodic) \/ AllAfter(context[r].episodic, q, episodes)

\* How far a run has come tells what it has read and what it has saved.
Remembers(r) ==
  /\ pc[r] \in {"setLong", "store", "done"} => InShort(r)
  /\ pc[r] \in {"store", "done"} => InLong(r)
  /\ pc[r] = "done" => InEpisodes(r)
  /\ \A q \in earlier[r] : pc[q] = "done"
  /\ pc[r] \in {"idle", "short", "long"} => context[r].long = << >>
  /\ pc[r] \in {"long", "get", "recall"} \/ Loaded(r) => ToldShort(r)
  /\ pc[r] \in {"get", "recall"} \/ Loaded(r) => ToldLong(r)
  /\ pc[r] \in {"idle", "short", "long", "recall"} \/ Loaded(r) => keys[r] = << >>
  /\ Loaded(r) => ToldEpisodes(r)

MemoryInv == MemoryTypeOK /\ SavesAreAPrefix /\ \A r \in Runs : Remembers(r)

\* What any step may do to the tiers: add the interaction of a run whose
\* turn it is to save, and remove.
TiersMove ==
  /\ ToSet(short) \cup removed["short"] \subseteq ToSet(short') \cup removed'["short"]
  /\ removed["short"] \subseteq removed'["short"]
  /\ \A u \in Users :
       /\ ToSet(long[u]) \cup removed["long"] \subseteq ToSet(long'[u]) \cup removed'["long"]
       /\ ToSet(long'[u]) \subseteq ToSet(long[u]) \cup {q \in Runs : pc[q] = "setLong" /\ UserOf[q] = u}
  /\ removed["long"] \subseteq removed'["long"]
  /\ ToSet(episodes') \subseteq ToSet(episodes) \cup {q \in Runs : pc[q] = "store"}
  /\ Longer(episodes, episodes')

LEMMA AppendsToList ==
  ASSUME NEW s \in Seq(Runs), NEW e \in Runs
  PROVE  /\ Append(s, e) \in Seq(Runs)
         /\ ToSet(Append(s, e)) = ToSet(s) \cup {e}
         /\ Longer(s, Append(s, e))
<1>1. Append(s, e) \in Seq(Runs) /\ Elements(Append(s, e)) = Elements(s) \cup {e}
  BY AppendElement
<1>2. Longer(s, Append(s, e))
  BY DEF Longer
<1>. QED  BY <1>1, <1>2 DEF Elements, ToSet

LEMMA KeepsOfList ==
  ASSUME NEW s \in Seq(Runs), NEW S
  PROVE  Keep(s, S) \in Seq(Runs) /\ ToSet(Keep(s, S)) = ToSet(s) \cap S
  BY KeepKeeps DEF Elements, ToSet

\* context[r][tier] is replaced, and nothing else of context.
LEMMA SeenIs ==
  ASSUME MemoryTypeOK, NEW r \in Runs, NEW tier \in {"short", "long", "episodic"},
         NEW s \in Seq(Runs), Seen(r, tier, s)
  PROVE  /\ context' \in [Runs -> [short : Seq(Runs), long : Seq(Runs), episodic : Seq(Runs)]]
         /\ \A q \in Runs \ {r} : context'[q] = context[q]
         /\ context'[r].short = IF tier = "short" THEN s ELSE context[r].short
         /\ context'[r].long = IF tier = "long" THEN s ELSE context[r].long
         /\ context'[r].episodic = IF tier = "episodic" THEN s ELSE context[r].episodic
<1>. DEFINE Context == [short : Seq(Runs), long : Seq(Runs), episodic : Seq(Runs)]
<1>1. context \in [Runs -> Context] /\ context[r] \in Context
  BY DEF MemoryTypeOK
<1>2. PICK c : c = [context[r] EXCEPT ![tier] = s]
  OBVIOUS
<1>3. /\ c \in Context
      /\ c.short = IF tier = "short" THEN s ELSE context[r].short
      /\ c.long = IF tier = "long" THEN s ELSE context[r].long
      /\ c.episodic = IF tier = "episodic" THEN s ELSE context[r].episodic
  <2>1. CASE tier = "short"  BY <1>1, <1>2, <2>1
  <2>2. CASE tier = "long"  BY <1>1, <1>2, <2>2
  <2>3. CASE tier = "episodic"  BY <1>1, <1>2, <2>3
  <2>. QED  BY <2>1, <2>2, <2>3
<1>4. context' = [context EXCEPT ![r] = c]
  BY <1>2 DEF Seen
<1>. QED  BY <1>1, <1>3, <1>4

LEMMA TiersStay ==
  ASSUME MemoryTypeOK, UNCHANGED <<short, long, episodes, removed>>
  PROVE  TiersMove
<1>1. \A s \in Seq(Runs) : Longer(s, s)
  BY DEF Longer
<1>. QED  BY <1>1 DEF TiersMove, MemoryTypeOK

LEMMA MemoryWrites ==
  ASSUME MemoryTypeOK, [MemoryNext]_memoryVars
  PROVE  TiersMove
<1>. DEFINE quiet == UNCHANGED <<short, long, episodes, removed>>
<1>1. \/ quiet
      \/ \E r \in Runs : SetShort(r) \/ SetLong(r) \/ StoreEpisode(r)
      \/ ClearSession
      \/ \E u \in Users, q \in Runs : Delete(u, q)
  BY DEF MemoryNext, memoryVars, Begin, LoadShort, ListKeys, GetKey, KeysEnd, Recall,
     AnswerFound, Fail
<1>2. CASE quiet
  BY <1>2, TiersStay
<1>3. \A s \in Seq(Runs) : Longer(s, s)
  BY DEF Longer
<1>4. /\ short \in Seq(Runs) /\ episodes \in Seq(Runs) /\ long \in [Users -> Seq(Runs)]
      /\ removed \in [{"short", "long"} -> SUBSET Runs]
  BY DEF MemoryTypeOK
<1>5. ASSUME NEW r \in Runs, SetShort(r) PROVE TiersMove
  <2>1. ToSet(short) \subseteq ToSet(short')
    BY <1>4, <1>5, AppendsToList DEF SetShort
  <2>. QED  BY <1>3, <1>4, <1>5, <2>1 DEF SetShort, TiersMove
<1>6. ASSUME NEW r \in Runs, SetLong(r) PROVE TiersMove
  <2>1. ASSUME NEW u \in Users
        PROVE  /\ ToSet(long[u]) \subseteq ToSet(long'[u])
               /\ ToSet(long'[u]) \subseteq ToSet(long[u]) \cup {q \in Runs : pc[q] = "setLong" /\ UserOf[q] = u}
    <3>1. CASE "long" \in Tiers /\ UserOf[r] = u /\ u # None
      <4>1. long'[u] = Append(long[u], r) /\ pc[r] = "setLong" /\ long[u] \in Seq(Runs)
        BY <1>4, <1>6, <3>1 DEF SetLong
      <4>. QED  BY <3>1, <4>1, AppendsToList
    <3>2. CASE ~("long" \in Tiers /\ UserOf[r] = u /\ u # None)
      <4>1. long'[u] = long[u] /\ long[u] \in Seq(Runs)
        BY <1>4, <1>6, <3>2 DEF SetLong
      <4>. QED  BY <1>3, <4>1
    <3>. QED  BY <3>1, <3>2
  <2>2. UNCHANGED <<short, episodes, removed>>
    BY <1>6 DEF SetLong
  <2>. QED  BY <1>3, <1>4, <2>1, <2>2 DEF TiersMove
<1>7. ASSUME NEW r \in Runs, StoreEpisode(r) PROVE TiersMove
  <2>1. /\ ToSet(episodes') \subseteq ToSet(episodes) \cup {q \in Runs : pc[q] = "store"}
        /\ Longer(episodes, episodes')
    BY <1>3, <1>4, <1>7, AppendsToList DEF StoreEpisode
  <2>. QED  BY <1>3, <1>4, <1>7, <2>1 DEF StoreEpisode, TiersMove
<1>8. CASE ClearSession
  <2>1. /\ removed'["short"] = removed["short"] \cup ToSet(short)
        /\ removed'["long"] = removed["long"]
        /\ UNCHANGED <<long, episodes>>
    BY <1>4, <1>8 DEF ClearSession
  <2>. QED  BY <1>3, <1>4, <2>1 DEF TiersMove
<1>9. ASSUME NEW u \in Users, NEW q \in Runs, Delete(u, q) PROVE TiersMove
  <2>1. /\ removed'["long"] = removed["long"] \cup {q}
        /\ removed'["short"] = removed["short"]
        /\ UNCHANGED <<short, episodes>>
    BY <1>4, <1>9 DEF Delete
  <2>2. \A v \in Users : /\ ToSet(long'[v]) \subseteq ToSet(long[v])
                         /\ ToSet(long[v]) \subseteq ToSet(long'[v]) \cup {q}
    <3>1. \A v \in Users : v # u => long'[v] = long[v]
      BY <1>4, <1>9 DEF Delete
    <3>2. long'[u] = Keep(long[u], Runs \ {q}) /\ long[u] \in Seq(Runs)
      BY <1>4, <1>9 DEF Delete
    <3>3. ToSet(long[u]) \subseteq Runs
      BY <3>2 DEF ToSet
    <3>4. ToSet(long'[u]) = ToSet(long[u]) \cap (Runs \ {q})
      BY <3>2, KeepsOfList
    <3>. QED  BY <3>1, <3>3, <3>4
  <2>. QED  BY <1>3, <1>4, <2>1, <2>2 DEF TiersMove
<1>. QED  BY <1>1, <1>2, <1>5, <1>6, <1>7, <1>8, <1>9

LEMMA HeadAndTail ==
  ASSUME NEW s \in Seq(Runs), s # << >>
  PROVE  /\ Head(s) \in Runs /\ Tail(s) \in Seq(Runs) /\ Head(s) \in ToSet(s)
         /\ ToSet(s) = {Head(s)} \cup ToSet(Tail(s))
<1>1. PICK t, n : t = Tail(s) /\ n = Len(s)
  OBVIOUS
<1>2. /\ n \in Nat \ {0} /\ t \in Seq(Runs) /\ Len(t) = n - 1 /\ Head(s) = s[1] /\ Head(s) \in Runs
      /\ \A i \in 1..(n - 1) : t[i] = s[i + 1]
  BY <1>1
<1>3. DOMAIN s = 1..n /\ DOMAIN t = 1..(n - 1)
  BY <1>1, <1>2
<1>4. ASSUME NEW i \in 1..n PROVE s[i] = Head(s) \/ s[i] \in ToSet(t)
  <2>1. i = 1 \/ (i - 1 \in 1..(n - 1) /\ (i - 1) + 1 = i)
    BY <1>2
  <2>. QED  BY <1>2, <1>3, <2>1 DEF ToSet
<1>5. \A i \in 1..(n - 1) : i + 1 \in 1..n
  BY <1>2
<1>6. ToSet(t) \subseteq ToSet(s)
  BY <1>2, <1>3, <1>5 DEF ToSet
<1>7. Head(s) \in ToSet(s)
  <2>1. 1 \in DOMAIN s
    BY <1>2, <1>3
  <2>. QED  BY <1>2, <2>1 DEF ToSet
<1>8. ToSet(s) \subseteq {Head(s)} \cup ToSet(t)
  BY <1>3, <1>4 DEF ToSet
<1>. QED  BY <1>1, <1>2, <1>6, <1>7, <1>8

\* What has been read and saved, and what has been told, in a step of anyone.
Lasts(r) ==
  /\ (InShort(r) => InShort(r)') /\ (InLong(r) => InLong(r)') /\ (InEpisodes(r) => InEpisodes(r)')
  /\ context'[r].short = context[r].short => (ToldShort(r) => ToldShort(r)')
  /\ context'[r].long = context[r].long /\ keys'[r] = keys[r] /\ listed'[r] = listed[r]
       => (ToldLong(r) => ToldLong(r)')
  /\ context'[r].episodic = context[r].episodic => (ToldEpisodes(r) => ToldEpisodes(r)')

LEMMA ToldLasts ==
  ASSUME MemoryInv, MemoryTypeOK', TiersMove, NEW r \in Runs, earlier'[r] = earlier[r]
  PROVE  Lasts(r)
<1>. DEFINE C == context[r]
            K == keys[r]
<1>1. /\ MemoryTypeOK /\ Remembers(r)
      /\ UserOf[r] # None => UserOf[r] \in Users
      /\ C.short \in Seq(Runs) /\ C.long \in Seq(Runs) /\ C.episodic \in Seq(Runs)
      /\ K \in Seq(Runs) /\ earlier[r] \subseteq Runs
  BY DEF MemoryInv, MemoryTypeOK, Users
<1>2. /\ ToSet(short) \cup removed["short"] \subseteq ToSet(short') \cup removed'["short"]
      /\ removed["short"] \subseteq removed'["short"]
      /\ removed["long"] \subseteq removed'["long"]
      /\ \A u \in Users :
           ToSet(long[u]) \cup removed["long"] \subseteq ToSet(long'[u]) \cup removed'["long"]
      /\ Longer(episodes, episodes')
  BY DEF TiersMove
<1>3. (InShort(r) => InShort(r)') /\ (InLong(r) => InLong(r)')
  BY <1>1, <1>2 DEF InShort, InLong
<1>4. InEpisodes(r) => InEpisodes(r)'
  <2>1. /\ Len(episodes) \in Nat /\ Len(episodes') \in Nat
        /\ DOMAIN episodes = 1..Len(episodes) /\ DOMAIN episodes' = 1..Len(episodes')
    BY DEF MemoryTypeOK, MemoryInv
  <2>2. \A i \in 1..Len(episodes) : i \in 1..Len(episodes') /\ episodes'[i] = episodes[i]
    BY <1>2, <2>1 DEF Longer
  <2>3. ToSet(episodes) \subseteq ToSet(episodes')
    BY <2>1, <2>2 DEF ToSet
  <2>. QED  BY <2>3 DEF InEpisodes
<1>5. ASSUME context'[r].short = C.short PROVE ToldShort(r) => ToldShort(r)'
  BY <1>2, <1>5 DEF ToldShort, LoadScope
<1>6. ASSUME context'[r].long = C.long, keys'[r] = K, listed'[r] = listed[r], ToldLong(r)
      PROVE  ToldLong(r)'
  <2>1. ASSUME NEW q \in ToSet(K)
        PROVE  UserOf[r] # None /\ q \in ToSet(long'[UserOf[r]]) \cup removed'["long"]
    <3>1. UserOf[r] # None /\ q \in ToSet(long[UserOf[r]]) \cup removed["long"]
      BY <1>6 DEF ToldLong
    <3>. QED  BY <1>1, <1>2, <3>1
  <2>. QED  BY <1>2, <1>6, <2>1 DEF ToldLong
<1>7. ASSUME context'[r].episodic = C.episodic PROVE ToldEpisodes(r) => ToldEpisodes(r)'
  <2>1. episodes \in Seq(Runs)
    BY <1>1 DEF MemoryTypeOK
  <2>2. \A a, b : Before(a, b, episodes) => Before(a, b, episodes')
    BY <1>2, <2>1 DEF Before, Longer
  <2>. QED  BY <1>7, <2>2 DEF ToldEpisodes, AllAfter
<1>. QED
  BY <1>3, <1>4, <1>5, <1>6, <1>7 DEF Lasts

\* What a step means for a run that does not take it.
LEMMA OthersRemember ==
  ASSUME MemoryInv, MemoryTypeOK', TiersMove, NEW r \in Runs,
         keys'[r] = keys[r], listed'[r] = listed[r], context'[r] = context[r],
         earlier'[r] = earlier[r], pc'[r] = pc[r], \A q \in Runs : pc[q] = "done" => pc'[q] = "done"
  PROVE  Remembers(r)'
<1>1. Remembers(r) /\ Lasts(r) /\ earlier[r] \subseteq Runs
  BY ToldLasts DEF MemoryInv, MemoryTypeOK
<1>. QED  BY <1>1 DEF Remembers, Loaded, Lasts

LEMMA RecalledAre ==
  ASSUME NEW s \in Seq(Runs)
  PROVE  /\ RecallOf(s) \in Seq(Runs)
         /\ \A q \in ToSet(s) :
              \/ q \in ToSet(RecallOf(s))
              \/ Len(RecallOf(s)) = MaxEntries /\ \A e \in ToSet(RecallOf(s)) : Before(q, e, s)
<1>1. Len(s) \in Nat /\ MaxEntries \in Nat \ {0}
  BY MemoryAssumption
<1>2. PICK from : from = IF Len(s) <= MaxEntries THEN 0 ELSE Len(s) - MaxEntries
  OBVIOUS
<1>3. /\ from \in Nat /\ Len(s) - from \in Nat
      /\ from # 0 => Len(s) - from = MaxEntries
  BY <1>1, <1>2
<1>4. PICK z : z = IF Len(s) <= MaxEntries THEN s ELSE SubSeq(s, Len(s) - MaxEntries + 1, Len(s))
  OBVIOUS
<1>5. z \in Seq(Runs) /\ Len(z) = Len(s) - from /\ \A i \in 1..Len(z) : z[i] = s[from + i]
  BY <1>1, <1>2, <1>4
<1>6. PICK y : y = Reverse(z)
  OBVIOUS
<1>7. /\ y \in Seq(Runs) /\ Len(y) = Len(z)
      /\ \A i \in 1..Len(y) : y[i] = z[(Len(z) - i) + 1]
  <2>1. Len(z) \in Nat /\ \A i \in 1..Len(z) : (Len(z) - i) + 1 \in 1..Len(z)
    BY <1>5
  <2>2. y = [i \in 1..Len(z) |-> z[(Len(z) - i) + 1]]
    BY <1>6 DEF Reverse
  <2>3. \A i \in 1..Len(z) : z[(Len(z) - i) + 1] \in Runs
    BY <1>5, <2>1
  <2>. QED  BY <2>1, <2>2, <2>3
<1>8. y = RecallOf(s)
  BY <1>4, <1>6 DEF RecallOf
<1>9. ASSUME NEW j \in 1..Len(s), j > from PROVE s[j] \in ToSet(y)
  <2>1. PICK i : i = (Len(s) - j) + 1
    OBVIOUS
  <2>2. i \in 1..Len(y) /\ (Len(z) - i) + 1 \in 1..Len(z) /\ from + ((Len(z) - i) + 1) = j
    BY <1>1, <1>3, <1>5, <1>7, <1>9, <2>1
  <2>3. y[i] = s[j]
    BY <1>5, <1>7, <2>2
  <2>4. i \in DOMAIN y
    BY <1>7, <2>2
  <2>. QED  BY <2>3, <2>4 DEF ToSet
<1>10. ASSUME NEW j \in 1..Len(s), ~(j > from), NEW e \in ToSet(y)
       PROVE  Len(y) = MaxEntries /\ Before(s[j], e, s)
  <2>1. PICK i \in DOMAIN y : e = y[i]
    BY DEF ToSet
  <2>2. i \in 1..Len(y) /\ (Len(z) - i) + 1 \in 1..Len(z)
    BY <1>3, <1>5, <1>7, <2>1
  <2>3. PICK k : k = from + ((Len(z) - i) + 1)
    OBVIOUS
  <2>4. k \in 1..Len(s) /\ j < k
    BY <1>1, <1>3, <1>5, <1>7, <1>10, <2>2, <2>3
  <2>5. e = s[k]
    BY <1>5, <1>7, <2>1, <2>2, <2>3
  <2>6. Before(s[j], e, s)
    BY <2>4, <2>5 DEF Before
  <2>7. from # 0
    BY <1>3, <1>10
  <2>. QED  BY <1>3, <1>5, <1>7, <2>6, <2>7
<1>11. Len(y) = MaxEntries \/ from = 0
  BY <1>3, <1>5, <1>7
<1>12. ASSUME NEW q \in ToSet(s), q \notin ToSet(y)
       PROVE  Len(y) = MaxEntries /\ \A e \in ToSet(y) : Before(q, e, s)
  <2>1. PICK j \in 1..Len(s) : q = s[j]
    BY DEF ToSet
  <2>2. ~(j > from)
    BY <1>9, <1>12, <2>1
  <2>3. from # 0
    BY <1>3, <2>2
  <2>. QED  BY <1>10, <1>11, <2>1, <2>2, <2>3
<1>. QED  BY <1>7, <1>8, <1>12

LEMMA FirstAre ==
  ASSUME NEW s \in Seq(Runs)
  PROVE  /\ FirstOf(s) \in Seq(Runs)
         /\ Len(FirstOf(s)) <= Len(s)
         /\ Len(FirstOf(s)) = Len(s) \/ Len(FirstOf(s)) = MaxEntries
         /\ \A i \in 1..Len(FirstOf(s)) : FirstOf(s)[i] = s[i]
         /\ ToSet(FirstOf(s)) \subseteq ToSet(s)
         /\ \A q \in ToSet(s) : q \in ToSet(FirstOf(s)) \/ CutOff(q, s)
<1>1. PICK z : z = FirstOf(s)
  OBVIOUS
<1>2. /\ z \in Seq(Runs) /\ Len(z) <= Len(s)
      /\ Len(z) = Len(s) \/ Len(z) = MaxEntries
      /\ \A i \in 1..Len(z) : z[i] = s[i]
  BY <1>1, MemoryAssumption DEF FirstOf
<1>3. PICK m, n : m = Len(z) /\ n = Len(s)
  OBVIOUS
<1>4. /\ m \in Nat /\ n \in Nat /\ DOMAIN z = 1..m /\ DOMAIN s = 1..n
      /\ m <= n /\ (m = n \/ m = MaxEntries)
      /\ \A i \in 1..m : z[i] = s[i]
  BY <1>2, <1>3
<1>5. \A i \in 1..m : i \in 1..n
  BY <1>4
<1>6. ToSet(z) \subseteq ToSet(s)
  BY <1>4, <1>5 DEF ToSet
<1>7. \A j \in 1..n : j \in 1..m \/ j > MaxEntries
  BY <1>4
<1>8. ASSUME NEW q \in ToSet(s) PROVE q \in ToSet(z) \/ CutOff(q, s)
  <2>1. PICK j \in 1..n : s[j] = q
    BY <1>4 DEF ToSet
  <2>2. CASE j \in 1..m
    BY <1>4, <2>1, <2>2 DEF ToSet
  <2>3. CASE j > MaxEntries
    BY <1>4, <2>1, <2>3 DEF CutOff
  <2>. QED  BY <1>7, <2>2, <2>3
<1>. QED  BY <1>1, <1>2, <1>6, <1>8

LEMMA MemoryTypes ==
  ASSUME MemoryTypeOK, [MemoryNext]_memoryVars
  PROVE  MemoryTypeOK'
<1>1. CASE UNCHANGED memoryVars
  BY <1>1 DEF MemoryTypeOK, memoryVars
<1>2. /\ short \in Seq(Runs) /\ episodes \in Seq(Runs)
      /\ long \in [Users -> Seq(Runs)]
      /\ keys \in [Runs -> Seq(Runs)] /\ listed \in [Runs -> Seq(Runs)]
      /\ context \in [Runs -> [short : Seq(Runs), long : Seq(Runs), episodic : Seq(Runs)]]
      /\ \A u \in Users : long[u] \in Seq(Runs)
      /\ \A r \in Runs : UserOf[r] # None => UserOf[r] \in Users
      /\ \A r \in Runs : keys[r] \in Seq(Runs) /\ context[r].long \in Seq(Runs)
  BY DEF MemoryTypeOK, Users
<1>3. ASSUME NEW r \in Runs, Begin(r) PROVE MemoryTypeOK'
  BY <1>3 DEF Begin, Goto, MemoryTypeOK
<1>4. ASSUME NEW r \in Runs, LoadShort(r) PROVE MemoryTypeOK'
  <2>1. PICK s : s = Keep(short, {q \in Runs : InScope(q, LoadScope(r))})
    OBVIOUS
  <2>2. s \in Seq(Runs)
    BY <1>2, <2>1, KeepsOfList
  <2>3. UNCHANGED context \/ \E z \in Seq(Runs) : Seen(r, "short", z)
    BY <1>2, <1>4, <2>1, <2>2 DEF LoadShort
  <2>4. context' \in [Runs -> [short : Seq(Runs), long : Seq(Runs), episodic : Seq(Runs)]]
    BY <1>2, <2>3, SeenIs
  <2>. QED  BY <1>4, <2>4 DEF LoadShort, Goto, MemoryTypeOK
<1>5. ASSUME NEW r \in Runs, ListKeys(r) PROVE MemoryTypeOK'
  <2>1. keys' \in [Runs -> Seq(Runs)]
    <3>1. CASE "long" \in Tiers /\ UserOf[r] # None
      <4>1. PICK z : z = FirstOf(long[UserOf[r]])
        OBVIOUS
      <4>2. z \in Seq(Runs)
        BY <1>2, <3>1, <4>1, FirstAre
      <4>3. keys' = [keys EXCEPT ![r] = z]
        BY <1>5, <3>1, <4>1 DEF ListKeys
      <4>. QED  BY <1>2, <4>2, <4>3
    <3>2. CASE ~("long" \in Tiers /\ UserOf[r] # None)
      BY <1>2, <1>5, <3>2 DEF ListKeys
    <3>. QED  BY <3>1, <3>2
  <2>2. listed' \in [Runs -> Seq(Runs)]
    BY <1>2, <1>5 DEF ListKeys
  <2>. QED  BY <1>5, <2>1, <2>2 DEF ListKeys, Goto, MemoryTypeOK
<1>6. ASSUME NEW r \in Runs, GetKey(r) PROVE MemoryTypeOK'
  <2>1. Head(keys[r]) \in Runs /\ Tail(keys[r]) \in Seq(Runs)
    BY <1>2, <1>6 DEF GetKey
  <2>2. UNCHANGED context \/ \E z \in Seq(Runs) : Seen(r, "long", z)
    <3>1. PICK z : z = Append(context[r].long, Head(keys[r]))
      OBVIOUS
    <3>2. z \in Seq(Runs)
      BY <1>2, <2>1, <3>1
    <3>3. UNCHANGED context \/ Seen(r, "long", z)
      BY <1>6, <3>1 DEF GetKey
    <3>. QED  BY <3>2, <3>3
  <2>3. context' \in [Runs -> [short : Seq(Runs), long : Seq(Runs), episodic : Seq(Runs)]]
    BY <1>2, <2>2, SeenIs
  <2>. QED  BY <1>6, <2>1, <2>3 DEF GetKey, MemoryTypeOK
<1>7. ASSUME NEW r \in Runs, Recall(r) PROVE MemoryTypeOK'
  <2>1. UNCHANGED context \/ \E z \in Seq(Runs) : Seen(r, "episodic", z)
    BY <1>2, <1>7, RecalledAre DEF Recall
  <2>2. context' \in [Runs -> [short : Seq(Runs), long : Seq(Runs), episodic : Seq(Runs)]]
    BY <1>2, <2>1, SeenIs
  <2>. QED  BY <1>7, <2>2 DEF Recall, Goto, MemoryTypeOK
<1>8. ASSUME NEW r \in Runs, KeysEnd(r) \/ AnswerFound(r) \/ Fail(r) PROVE MemoryTypeOK'
  BY <1>8 DEF KeysEnd, AnswerFound, Fail, Goto, MemoryTypeOK
<1>9. ASSUME NEW r \in Runs, SetShort(r) PROVE MemoryTypeOK'
  BY <1>2, <1>9, AppendsToList DEF SetShort, Goto, MemoryTypeOK
<1>10. ASSUME NEW r \in Runs, SetLong(r) PROVE MemoryTypeOK'
  <2>1. long' \in [Users -> Seq(Runs)]
    BY <1>2, <1>10, AppendsToList DEF SetLong
  <2>. QED  BY <1>10, <2>1 DEF SetLong, Goto, MemoryTypeOK
<1>11. ASSUME NEW r \in Runs, StoreEpisode(r) PROVE MemoryTypeOK'
  BY <1>2, <1>11, AppendsToList DEF StoreEpisode, Goto, MemoryTypeOK
<1>12. CASE ClearSession
  <2>1. ToSet(short) \subseteq Runs
    BY <1>2 DEF ToSet
  <2>2. removed' \in [{"short", "long"} -> SUBSET Runs]
    BY <1>12, <2>1 DEF ClearSession, MemoryTypeOK
  <2>. QED  BY <1>12, <2>2 DEF ClearSession, MemoryTypeOK
<1>13. ASSUME NEW u \in Users, NEW q \in Runs, Delete(u, q) PROVE MemoryTypeOK'
  <2>1. Keep(long[u], Runs \ {q}) \in Seq(Runs)
    BY <1>2, KeepsOfList
  <2>. QED  BY <1>13, <2>1 DEF Delete, MemoryTypeOK
<1>. QED
  BY <1>1, <1>3, <1>4, <1>5, <1>6, <1>7, <1>8, <1>9, <1>10, <1>11, <1>12, <1>13 DEF MemoryNext

\* What a step means for the run that takes it.
LEMMA LoadsShort ==
  ASSUME MemoryInv, NEW r \in Runs, LoadShort(r)
  PROVE  /\ ToldShort(r)'
         /\ context'[r].long = context[r].long /\ context'[r].episodic = context[r].episodic
<1>. DEFINE own == {q \in Runs : InScope(q, LoadScope(r))}
            reads == "short" \in Tiers /\ LoadScope(r) # None
<1>1. /\ MemoryTypeOK /\ short \in Seq(Runs) /\ earlier[r] \subseteq Runs
      /\ UNCHANGED <<short, earlier, removed>>
  BY DEF MemoryInv, MemoryTypeOK, LoadShort
<1>2. PICK s : s = Keep(short, own)
  OBVIOUS
<1>3. s \in Seq(Runs) /\ ToSet(s) = ToSet(short) \cap own
  BY <1>1, <1>2, KeepsOfList
<1>4. PICK z : z = IF s # << >> THEN s ELSE short
  OBVIOUS
<1>5. CASE ~reads
  BY <1>1, <1>5 DEF LoadShort, ToldShort, LoadScope
<1>6. CASE reads
  <2>1. Seen(r, "short", z) /\ z \in Seq(Runs)
    BY <1>1, <1>2, <1>3, <1>4, <1>6 DEF LoadShort
  <2>2. /\ context'[r].short = z
        /\ context'[r].long = context[r].long /\ context'[r].episodic = context[r].episodic
    BY <1>1, <2>1, SeenIs
  <2>3. ASSUME NEW q \in earlier[r], LoadScope(q) = LoadScope(r)
        PROVE  q \in ToSet(z) \cup removed["short"]
    <3>1. pc[q] = "done" /\ q \in Runs
      BY <1>1 DEF MemoryInv, Remembers
    <3>2. InShort(q)
      BY <3>1 DEF MemoryInv, Remembers
    <3>3. SaveScope(q) = LoadScope(r)
      BY <2>3 DEF SaveScope, LoadScope
    <3>4. q \in ToSet(short) \cup removed["short"] /\ q \in own
      BY <1>6, <3>1, <3>2, <3>3 DEF InShort, InScope
    <3>. QED  BY <1>3, <1>4, <3>4
  <2>. QED  BY <1>1, <2>2, <2>3 DEF ToldShort, LoadScope
<1>. QED  BY <1>5, <1>6

LEMMA ListsKeys ==
  ASSUME MemoryInv, NEW r \in Runs, ListKeys(r), keys[r] = << >>
  PROVE  ToldLong(r)'
<1>1. /\ MemoryTypeOK /\ earlier[r] \subseteq Runs /\ context[r].long = << >>
      /\ UNCHANGED <<long, context, earlier, removed>> /\ ToSet(<< >>) = {}
  BY DEF MemoryInv, MemoryTypeOK, Remembers, ListKeys, ToSet
<1>2. CASE ~("long" \in Tiers /\ UserOf[r] # None)
  BY <1>1, <1>2 DEF ListKeys, ToldLong
<1>3. CASE "long" \in Tiers /\ UserOf[r] # None
  <2>1. PICK all : all = long[UserOf[r]]
    OBVIOUS
  <2>2. all \in Seq(Runs)
    BY <1>1, <1>3, <2>1 DEF MemoryTypeOK, Users
  <2>3. PICK z : z = FirstOf(all)
    OBVIOUS
  <2>4. ToSet(z) \subseteq ToSet(all) /\ \A q \in ToSet(all) : q \in ToSet(z) \/ CutOff(q, all)
    BY <2>2, <2>3, FirstAre
  <2>5. keys'[r] = z /\ listed'[r] = all
    BY <1>1, <1>3, <2>1, <2>3 DEF ListKeys, MemoryTypeOK
  <2>6. ASSUME NEW q \in earlier[r], UserOf[q] = UserOf[r]
        PROVE  q \in ToSet(z) \cup removed["long"] \/ CutOff(q, all)
    <3>1. pc[q] = "done" /\ q \in Runs
      BY <1>1 DEF MemoryInv, Remembers
    <3>2. InLong(q)
      BY <3>1 DEF MemoryInv, Remembers
    <3>. QED  BY <1>3, <2>1, <2>4, <2>6, <3>2 DEF InLong
  <2>. QED  BY <1>1, <1>3, <2>1, <2>4, <2>5, <2>6 DEF ToldLong
<1>. QED  BY <1>2, <1>3

LEMMA GetsKey ==
  ASSUME MemoryInv, NEW r \in Runs, GetKey(r)
  PROVE  /\ ToldLong(r)'
         /\ context'[r].short = context[r].short /\ context'[r].episodic = context[r].episodic
<1>1. /\ MemoryTypeOK /\ ToldLong(r) /\ keys[r] # << >> /\ keys[r] \in Seq(Runs)
      /\ context[r].long \in Seq(Runs)
      /\ UNCHANGED <<long, listed, earlier, removed>>
      /\ keys' = [keys EXCEPT ![r] = Tail(keys[r])]
  BY DEF MemoryInv, MemoryTypeOK, Remembers, GetKey
<1>2. PICK told, rest, q : told = context[r].long /\ rest = keys[r] /\ q = Head(keys[r])
  OBVIOUS
<1>3. /\ told \in Seq(Runs) /\ q \in Runs /\ q \in ToSet(rest)
      /\ keys'[r] = Tail(rest) /\ ToSet(rest) = {q} \cup ToSet(Tail(rest))
  BY <1>1, <1>2, HeadAndTail DEF MemoryTypeOK
<1>4. /\ Append(told, q) \in Seq(Runs)
      /\ ToSet(Append(told, q)) = ToSet(told) \cup {q}
  BY <1>3, AppendsToList
<1>5. UserOf[r] # None /\ q \in ToSet(long[UserOf[r]]) \cup removed["long"]
  BY <1>1, <1>2, <1>3 DEF ToldLong
<1>6. PICK t : t = context'[r].long
  OBVIOUS
<1>7. /\ context'[r].short = context[r].short /\ context'[r].episodic = context[r].episodic
      /\ \/ t = told /\ q \in removed["long"]
         \/ t = Append(told, q) /\ q \in ToSet(long[UserOf[r]])
  <2>1. \/ context' = context /\ ~(q \in ToSet(long[UserOf[r]]))
        \/ Seen(r, "long", Append(told, q)) /\ q \in ToSet(long[UserOf[r]])
    BY <1>2 DEF GetKey
  <2>. QED  BY <1>1, <1>2, <1>4, <1>5, <1>6, <2>1, SeenIs
<1>8. ToSet(told) \cup ToSet(rest) \cup removed["long"]
        = ToSet(t) \cup ToSet(Tail(rest)) \cup removed["long"]
  BY <1>3, <1>4, <1>7
<1>9. \A x \in ToSet(t) : UserOf[x] = UserOf[r]
  <2>1. \A x \in ToSet(told) : UserOf[x] = UserOf[r]
    BY <1>1, <1>2 DEF ToldLong
  <2>2. q \in ToSet(long[UserOf[r]]) => UserOf[q] = UserOf[r]
    BY <1>5 DEF MemoryInv, SavesAreAPrefix, Users
  <2>. QED  BY <1>4, <1>7, <2>1, <2>2
<1>10. ASSUME NEW x \in earlier[r], "long" \in Tiers, UserOf[r] # None, UserOf[x] = UserOf[r]
       PROVE  x \in ToSet(t) \cup ToSet(Tail(rest)) \cup removed["long"] \/ CutOff(x, listed[r])
  BY <1>1, <1>2, <1>8, <1>10 DEF ToldLong
<1>11. \A x \in ToSet(Tail(rest)) : x \in ToSet(long[UserOf[r]]) \cup removed["long"]
  BY <1>1, <1>2, <1>3 DEF ToldLong
<1>. QED  BY <1>1, <1>3, <1>5, <1>6, <1>7, <1>9, <1>10, <1>11 DEF ToldLong

LEMMA Recalls ==
  ASSUME MemoryInv, NEW r \in Runs, Recall(r)
  PROVE  /\ ToldEpisodes(r)'
         /\ context'[r].short = context[r].short /\ context'[r].long = context[r].long
<1>1. /\ MemoryTypeOK /\ episodes \in Seq(Runs) /\ earlier[r] \subseteq Runs
      /\ UNCHANGED <<episodes, earlier>>
  BY DEF MemoryInv, MemoryTypeOK, Recall
<1>2. CASE "episodic" \notin Tiers
  BY <1>2 DEF Recall, ToldEpisodes
<1>3. CASE "episodic" \in Tiers
  <2>1. PICK z : z = RecallOf(episodes)
    OBVIOUS
  <2>2. /\ z \in Seq(Runs)
        /\ \A q \in ToSet(episodes) : q \in ToSet(z) \/ AllAfter(z, q, episodes)
    BY <1>1, <2>1, RecalledAre DEF AllAfter
  <2>3. Seen(r, "episodic", z)
    BY <1>3, <2>1 DEF Recall
  <2>4. /\ context'[r].episodic = z
        /\ context'[r].short = context[r].short /\ context'[r].long = context[r].long
    BY <1>1, <2>2, <2>3, SeenIs
  <2>5. ASSUME NEW q \in earlier[r] PROVE q \in ToSet(episodes)
    <3>1. q \in Runs /\ pc[q] = "done"
      BY <1>1 DEF MemoryInv, Remembers
    <3>. QED  BY <1>3, <3>1 DEF MemoryInv, Remembers, InEpisodes
  <2>6. \A q \in earlier'[r] :
          q \in ToSet(context'[r].episodic) \/ AllAfter(context'[r].episodic, q, episodes')
    BY <1>1, <2>2, <2>4, <2>5
  <2>. QED  BY <2>4, <2>6 DEF ToldEpisodes, AllAfter
<1>. QED  BY <1>2, <1>3

LEMMA RunRemembers ==
  ASSUME MemoryInv, MemoryTypeOK', TiersMove, NEW r \in Runs,
         \/ Begin(r) \/ LoadShort(r) \/ ListKeys(r) \/ GetKey(r) \/ KeysEnd(r) \/ Recall(r)
         \/ AnswerFound(r) \/ SetShort(r) \/ SetLong(r) \/ StoreEpisode(r) \/ Fail(r)
  PROVE  Remembers(r)'
<1>1. MemoryTypeOK /\ Remembers(r) /\ earlier[r] \subseteq Runs
  BY DEF MemoryInv, MemoryTypeOK
<1>2. /\ pc \in [Runs -> {"idle", "short", "long", "get", "recall", "working",
                          "setShort", "setLong", "store", "done", "failed"}]
      /\ earlier \in [Runs -> SUBSET Runs]
      /\ short \in Seq(Runs) /\ episodes \in Seq(Runs) /\ long \in [Users -> Seq(Runs)]
      /\ UserOf[r] # None => UserOf[r] \in Users
  BY <1>1 DEF MemoryTypeOK, Users
<1>3. CASE Begin(r)
  <2>1. /\ pc'[r] = "short" /\ context'[r].long = << >> /\ keys'[r] = << >>
        /\ earlier'[r] = {q \in Runs : pc[q] = "done"}
        /\ \A q \in Runs : pc[q] = "done" => pc'[q] = "done"
    BY <1>1, <1>2, <1>3 DEF Begin, Goto, Remembers
  <2>. QED  BY <2>1 DEF Remembers, Loaded
<1>4. CASE ~Begin(r)
  <2>1. /\ UNCHANGED earlier
        /\ \A q \in Runs : pc[q] = "done" => pc'[q] = "done"
    BY <1>2, <1>4 DEF LoadShort, ListKeys, GetKey, KeysEnd, Recall, AnswerFound, SetShort,
       SetLong, StoreEpisode, Fail, Goto
  <2>2. Lasts(r) /\ \A q \in earlier'[r] : pc'[q] = "done"
    BY <1>1, <2>1, ToldLasts DEF Remembers
  <2>3. CASE LoadShort(r)
    <3>1. pc'[r] = "long" /\ pc[r] = "short" /\ UNCHANGED keys
      BY <1>2, <2>3 DEF LoadShort, Goto
    <3>. QED  BY <1>1, <2>2, <2>3, <3>1, LoadsShort DEF Remembers, Loaded
  <2>4. CASE ListKeys(r)
    <3>1. pc'[r] = "get" /\ pc[r] = "long" /\ UNCHANGED context
      BY <1>2, <2>4 DEF ListKeys, Goto
    <3>2. keys[r] = << >>
      BY <1>1, <3>1 DEF Remembers
    <3>. QED  BY <1>1, <2>2, <2>4, <3>1, <3>2, ListsKeys DEF Remembers, Loaded, Lasts
  <2>5. CASE GetKey(r)
    <3>1. pc'[r] = "get" /\ pc[r] = "get"
      BY <1>2, <2>5 DEF GetKey
    <3>. QED  BY <1>1, <2>2, <2>5, <3>1, GetsKey DEF Remembers, Loaded, Lasts
  <2>6. CASE KeysEnd(r)
    <3>1. pc'[r] = "recall" /\ pc[r] = "get" /\ keys[r] = << >> /\ UNCHANGED <<context, keys, listed>>
      BY <1>2, <2>6 DEF KeysEnd, Goto
    <3>. QED  BY <1>1, <2>2, <3>1 DEF Remembers, Loaded, Lasts
  <2>7. CASE Recall(r)
    <3>1. pc'[r] = "working" /\ pc[r] = "recall" /\ UNCHANGED <<keys, listed>>
      BY <1>2, <2>7 DEF Recall, Goto
    <3>. QED  BY <1>1, <2>2, <2>7, <3>1, Recalls DEF Remembers, Loaded, Lasts
  <2>8. CASE AnswerFound(r)
    <3>1. pc'[r] = "setShort" /\ pc[r] = "working" /\ UNCHANGED <<context, keys, listed>>
      BY <1>2, <2>8 DEF AnswerFound, Goto
    <3>. QED  BY <1>1, <2>2, <3>1 DEF Remembers, Loaded, Lasts
  <2>9. CASE SetShort(r)
    <3>1. pc'[r] = "setLong" /\ pc[r] = "setShort" /\ UNCHANGED <<context, keys, listed>>
      BY <1>2, <2>9 DEF SetShort, Goto
    <3>2. InShort(r)'
      BY <1>2, <2>9, AppendsToList DEF SetShort, InShort, SaveScope
    <3>. QED  BY <1>1, <2>2, <3>1, <3>2 DEF Remembers, Loaded, Lasts
  <2>10. CASE SetLong(r)
    <3>1. pc'[r] = "store" /\ pc[r] = "setLong" /\ UNCHANGED <<context, keys, listed>>
      BY <1>2, <2>10 DEF SetLong, Goto
    <3>2. InLong(r)'
      <4>1. CASE "long" \in Tiers /\ UserOf[r] # None
        <5>1. long'[UserOf[r]] = Append(long[UserOf[r]], r) /\ long[UserOf[r]] \in Seq(Runs)
          BY <1>2, <2>10, <4>1 DEF SetLong
        <5>. QED  BY <5>1, AppendsToList DEF InLong
      <4>2. CASE ~("long" \in Tiers /\ UserOf[r] # None)
        BY <4>2 DEF InLong
      <4>. QED  BY <4>1, <4>2
    <3>. QED  BY <1>1, <2>2, <3>1, <3>2 DEF Remembers, Loaded, Lasts
  <2>11. CASE StoreEpisode(r)
    <3>1. pc'[r] = "done" /\ pc[r] = "store" /\ UNCHANGED <<context, keys, listed>>
      BY <1>2, <2>11 DEF StoreEpisode, Goto
    <3>2. InEpisodes(r)'
      BY <1>2, <2>11, AppendsToList DEF StoreEpisode, InEpisodes
    <3>. QED  BY <1>1, <2>2, <3>1, <3>2 DEF Remembers, Loaded, Lasts
  <2>12. CASE Fail(r)
    <3>1. pc'[r] = "failed"
      BY <1>2, <2>12 DEF Fail, Goto
    <3>. QED  BY <2>2, <3>1 DEF Remembers, Loaded
  <2>. QED  BY <1>4, <2>3, <2>4, <2>5, <2>6, <2>7, <2>8, <2>9, <2>10, <2>11, <2>12
<1>. QED  BY <1>3, <1>4

LEMMA InitMemory == MemoryInit => MemoryInv
<1>. SUFFICES ASSUME MemoryInit PROVE MemoryInv
  OBVIOUS
<1>1. << >> \in Seq(Runs) /\ ToSet(<< >>) = {}
  BY DEF ToSet
<1>2. MemoryTypeOK
  BY <1>1 DEF MemoryInit, MemoryTypeOK, Nothing
<1>3. SavesAreAPrefix
  BY <1>1 DEF MemoryInit, SavesAreAPrefix
<1>4. ASSUME NEW r \in Runs PROVE Remembers(r)
  BY DEF MemoryInit, Remembers, Loaded, Nothing
<1>. QED  BY <1>2, <1>3, <1>4 DEF MemoryInv

LEMMA NextMemory == MemoryInv /\ [MemoryNext]_memoryVars => MemoryInv'
<1>. SUFFICES ASSUME MemoryInv, [MemoryNext]_memoryVars PROVE MemoryInv'
  OBVIOUS
<1>1. MemoryTypeOK'
  BY MemoryTypes DEF MemoryInv
<1>2. TiersMove
  BY MemoryWrites DEF MemoryInv
<1>3. SavesAreAPrefix'
  <2>1. ASSUME NEW q \in Runs
        PROVE  (InShort(q) => InShort(q)') /\ (InLong(q) => InLong(q)')
    BY <1>2 DEF TiersMove, InShort, InLong, Users
  <2>2. \A q \in Runs : (pc[q] = "setLong" => InShort(q)) /\ (pc[q] = "store" => InShort(q) /\ InLong(q))
    BY DEF MemoryInv, Remembers
  <2>3. ToSet(episodes) \subseteq Runs /\ \A u \in Users : ToSet(long[u]) \subseteq Runs
    BY DEF MemoryInv, MemoryTypeOK, ToSet
  <2>4. ASSUME NEW q \in ToSet(episodes') PROVE InLong(q)' /\ InShort(q)'
    <3>1. q \in Runs /\ (q \in ToSet(episodes) \/ pc[q] = "store")
      BY <1>2, <2>3 DEF TiersMove
    <3>2. InLong(q) /\ InShort(q)
      BY <2>2, <3>1 DEF MemoryInv, SavesAreAPrefix
    <3>. QED  BY <2>1, <3>1, <3>2
  <2>5. ASSUME NEW u \in Users, NEW q \in ToSet(long'[u]) PROVE UserOf[q] = u /\ InShort(q)'
    <3>1. /\ q \in Runs
          /\ q \in ToSet(long[u]) \/ (pc[q] = "setLong" /\ UserOf[q] = u)
      <4>1. q \in ToSet(long[u]) \cup {x \in Runs : pc[x] = "setLong" /\ UserOf[x] = u}
        BY <1>2 DEF TiersMove
      <4>. QED  BY <2>3, <4>1
    <3>2. UserOf[q] = u /\ InShort(q)
      BY <2>2, <3>1 DEF MemoryInv, SavesAreAPrefix
    <3>. QED  BY <2>1, <3>1, <3>2
  <2>. QED  BY <2>4, <2>5 DEF SavesAreAPrefix
<1>4. CASE UNCHANGED memoryVars \/ ClearSession \/ \E u \in Users, q \in Runs : Delete(u, q)
  <2>1. UNCHANGED <<pc, keys, context, listed, earlier>>
    BY <1>4 DEF memoryVars, ClearSession, Delete
  <2>2. ASSUME NEW r \in Runs PROVE Remembers(r)'
    BY <1>1, <1>2, <2>1, OthersRemember
  <2>. QED  BY <1>1, <1>3, <2>2 DEF MemoryInv
<1>5. ASSUME NEW r \in Runs,
             \/ Begin(r) \/ LoadShort(r) \/ ListKeys(r) \/ GetKey(r) \/ KeysEnd(r) \/ Recall(r)
             \/ AnswerFound(r) \/ SetShort(r) \/ SetLong(r) \/ StoreEpisode(r) \/ Fail(r)
      PROVE  MemoryInv'
  <2>1. Remembers(r)'
    BY <1>1, <1>2, <1>5, RunRemembers
  <2>2. /\ \A q \in Runs \ {r} : /\ pc'[q] = pc[q] /\ keys'[q] = keys[q] /\ listed'[q] = listed[q]
                                 /\ context'[q] = context[q] /\ earlier'[q] = earlier[q]
        /\ pc[r] = "done" => pc'[r] = "done"
    BY <1>5 DEF Begin, LoadShort, ListKeys, GetKey, KeysEnd, Recall, AnswerFound, SetShort, SetLong,
       StoreEpisode, Fail, Goto, Seen, MemoryInv, MemoryTypeOK
  <2>3. ASSUME NEW q \in Runs \ {r} PROVE Remembers(q)'
    BY <1>1, <1>2, <2>2, OthersRemember
  <2>. QED  BY <1>1, <1>3, <2>1, <2>3 DEF MemoryInv
<1>. QED  BY <1>4, <1>5 DEF MemoryNext

(* A run that fails half way has saved a prefix of its interaction, for    *)
(* any number of runs, threads and users, whatever is removed meanwhile    *)
(* (save_interaction).                                                     *)
THEOREM SavesArePrefixes == MemorySpec => []SavesAreAPrefix
<1>1. MemoryInv => SavesAreAPrefix
  BY DEF MemoryInv
<1>. QED  BY <1>1, InitMemory, NextMemory, PTL DEF MemorySpec

(* Of every run that had ended before it began, a run is told what that    *)
(* one saved, unless this very entry was removed or MaxEntries others took *)
(* its place in the list; whatever else is saved and removed while it      *)
(* loads (load_context).                                                   *)
THEOREM RunsRememberTheirPast == MemorySpec => []OwnPastIsLoaded
<1>1. MemoryInv => OwnPastIsLoaded
  <2>. SUFFICES ASSUME MemoryInv, NEW r \in Runs, Loaded(r)
                PROVE  /\ \A q \in ToSet(context[r].long) : UserOf[q] = UserOf[r]
                       /\ ToldShort(r) /\ ToldEpisodes(r)
                       /\ \A q \in earlier[r] :
                            "long" \in Tiers /\ UserOf[r] # None /\ UserOf[q] = UserOf[r] =>
                              q \in ToSet(context[r].long) \cup removed["long"] \/ CutOff(q, listed[r])
    BY DEF OwnPastIsLoaded, ToldShort, ToldEpisodes
  <2>1. ToldShort(r) /\ ToldLong(r) /\ ToldEpisodes(r) /\ keys[r] = << >> /\ ToSet(<< >>) = {}
    BY DEF MemoryInv, Remembers, ToSet
  <2>. QED  BY <2>1 DEF ToldLong
<1>. QED  BY <1>1, InitMemory, NextMemory, PTL DEF MemorySpec
-----------------------------------------------------------------------------
(* Business calendar.                                                      *)

\* The working hours of the day of t.
InHours(t) == At(Day(t), StartHour) <= t /\ t < At(Day(t), EndHour)

Adding ==
  call.method = "add" /\ place \in {"skip", "loop"} =>
    /\ remaining > 0 /\ call.dt <= current /\ InHours(current)
    /\ WorkingTicks(call.dt, current) + remaining = call.hours

\* The days before that of current are counted.
Counting ==
  call.method = "between" /\ place = "loop" =>
    /\ call.dt <= current /\ call.dt < call.end
    /\ current <= call.end \/ Day(current) > Day(call.end)
    /\ total = WorkingTicks(call.dt, Earlier(current, call.end))

\* On a free day the search may begin before the time it was called with.
Seeking ==
  call.method = "next" /\ place = "skip" =>
    /\ current = At(Day(current), StartHour)
    /\ WorkingTicks(call.dt, current) = 0
    /\ call.dt <= current \/ (~IsWorkingDay(Day(current)) /\ Day(call.dt) = Day(current))

CalendarInv ==
  /\ CalendarTypeOK
  /\ place = "called" =>
       /\ current = call.dt /\ total = 0
       /\ call.method = "add" => remaining = call.hours
  /\ Adding /\ Counting /\ Seeking
  /\ AnswersAreExact

LEMMA Division ==
  ASSUME NEW t \in Nat
  PROVE  /\ Day(t) \in Nat /\ Hour(t) \in 0..(DayLength - 1)
         /\ Day(t) * DayLength \in Nat
         /\ t = Day(t) * DayLength + Hour(t)
<1>1. DayLength \in Nat /\ DayLength > 0
  BY CalendarAssumption
<1>2. t \div DayLength \in Nat /\ t % DayLength \in 0..(DayLength - 1)
  BY <1>1
<1>3. t = (t \div DayLength) * DayLength + (t % DayLength)
  BY <1>1
<1>4. (t \div DayLength) * DayLength \in Nat
  BY <1>1, <1>2
<1>. QED  BY <1>2, <1>3, <1>4 DEF Day, Hour

\* The day d begins at a.
LEMMA DayBegins ==
  ASSUME NEW d \in Nat
  PROVE  \E a \in Nat :
           /\ \A h : At(d, h) = a + h
           /\ \A h : At(d + 1, h) = (a + DayLength) + h
           /\ \A t \in Nat : a <= t /\ t < a + DayLength => Day(t) = d /\ Hour(t) = t - a
<1>1. DayLength \in Nat /\ DayLength > 0
  BY CalendarAssumption
<1>2. d * DayLength \in Nat /\ (d + 1) * DayLength = d * DayLength + DayLength
  BY <1>1
<1>3. PICK a \in Nat : a = d * DayLength
  BY <1>2
<1>4. ASSUME NEW t \in Nat, a <= t, t < a + DayLength PROVE Day(t) = d /\ Hour(t) = t - a
  <2>1. t \div DayLength = d
    BY <1>1, <1>3, <1>4
  <2>2. t % DayLength \in Nat /\ t = d * DayLength + (t % DayLength)
    BY <1>1, <2>1
  <2>3. t % DayLength = t - a
    BY <1>3, <2>2
  <2>. QED  BY <2>1, <2>3 DEF Day, Hour
<1>. QED  BY <1>2, <1>3, <1>4 DEF At

LEMMA DayOf ==
  ASSUME NEW t \in Nat
  PROVE  \E a \in Nat :
           /\ a <= t /\ t < a + DayLength /\ Hour(t) = t - a
           /\ \A h : At(Day(t), h) = a + h
           /\ \A h : At(Day(t) + 1, h) = (a + DayLength) + h
           /\ \A u \in Nat : a <= u /\ u < a + DayLength => Day(u) = Day(t) /\ Hour(u) = u - a
           /\ \A u \in Nat : a + DayLength <= u /\ u < (a + DayLength) + DayLength =>
                Day(u) = Day(t) + 1 /\ Hour(u) = u - (a + DayLength)
<1>1. Day(t) \in Nat /\ Hour(t) \in 0..(DayLength - 1) /\ DayLength \in Nat
      /\ t = Day(t) * DayLength + Hour(t)
  BY Division, CalendarAssumption
<1>2. PICK a \in Nat :
        /\ \A h : At(Day(t), h) = a + h
        /\ \A h : At(Day(t) + 1, h) = (a + DayLength) + h
        /\ \A u \in Nat : a <= u /\ u < a + DayLength => Day(u) = Day(t) /\ Hour(u) = u - a
  BY <1>1, DayBegins
<1>3. PICK b \in Nat :
        /\ \A h : At(Day(t) + 1, h) = b + h
        /\ \A u \in Nat : b <= u /\ u < b + DayLength => Day(u) = Day(t) + 1 /\ Hour(u) = u - b
  BY <1>1, DayBegins
<1>4. b = a + DayLength
  <2>1. At(Day(t) + 1, 0) = b + 0 /\ At(Day(t) + 1, 0) = (a + DayLength) + 0
    BY <1>2, <1>3
  <2>. QED  BY <1>1, <2>1
<1>5. t = a + Hour(t)
  <2>1. At(Day(t), Hour(t)) = a + Hour(t)
    BY <1>2
  <2>. QED  BY <1>1, <2>1 DEF At
<1>6. a <= t /\ t < a + DayLength /\ Hour(t) = t - a
  <2>1. PICK h : h = Hour(t)
    OBVIOUS
  <2>2. h \in Nat /\ h < DayLength /\ t = a + h
    BY <1>1, <1>5, <2>1
  <2>. QED  BY <1>1, <2>1, <2>2
<1>. QED  BY <1>2, <1>3, <1>4, <1>6

-----------------------------------------------------------------------------
(* Counting working ticks.                                                 *)

Worked(from, until) == {t \in from..(until - 1) : IsWorkingTime(t)}

LEMMA TicksAreNumbers ==
  ASSUME NEW from \in Int, NEW until \in Int
  PROVE  /\ IsFiniteSet(Worked(from, until))
         /\ WorkingTicks(from, until) = Cardinality(Worked(from, until))
         /\ WorkingTicks(from, until) \in Nat
<1>1. IsFiniteSet(from..(until - 1)) /\ Worked(from, until) \subseteq from..(until - 1)
  BY FS_Interval DEF Worked
<1>2. IsFiniteSet(Worked(from, until))
  BY <1>1, FS_Subset
<1>. QED  BY <1>2, FS_CardinalityType DEF WorkingTicks, Worked

LEMMA TicksType ==
  ASSUME NEW from \in Nat, NEW until \in Nat
  PROVE  WorkingTicks(from, until) \in Nat
  BY TicksAreNumbers

LEMMA TicksAddUp ==
  ASSUME NEW from \in Int, NEW mid \in Int, NEW until \in Int, from <= mid, mid <= until
  PROVE  WorkingTicks(from, until) = WorkingTicks(from, mid) + WorkingTicks(mid, until)
<1>1. /\ Worked(from, until) = Worked(from, mid) \cup Worked(mid, until)
      /\ Worked(from, mid) \cap Worked(mid, until) = {}
  BY DEF Worked
<1>2. PICK a, b : a = Worked(from, mid) /\ b = Worked(mid, until)
  OBVIOUS
<1>3. /\ IsFiniteSet(a) /\ IsFiniteSet(b)
      /\ WorkingTicks(from, mid) = Cardinality(a) /\ Cardinality(a) \in Nat
      /\ WorkingTicks(mid, until) = Cardinality(b) /\ Cardinality(b) \in Nat
      /\ WorkingTicks(from, until) = Cardinality(a \cup b)
  BY <1>1, <1>2, TicksAreNumbers
<1>4. Cardinality(a \cup b) = Cardinality(a) + Cardinality(b) - Cardinality(a \cap b)
  BY <1>3, FS_Union
<1>5. Cardinality(a \cap b) = 0
  BY <1>1, <1>2, FS_EmptySet
<1>. QED  BY <1>3, <1>4, <1>5

LEMMA FreeTime ==
  ASSUME NEW from \in Int, NEW until \in Int,
         \A t \in from..(until - 1) : ~IsWorkingTime(t)
  PROVE  WorkingTicks(from, until) = 0
<1>1. Worked(from, until) = {}
  BY DEF Worked
<1>. QED  BY <1>1, TicksAreNumbers, FS_EmptySet

LEMMA BusyTime ==
  ASSUME NEW from \in Int, NEW until \in Int, from <= until,
         \A t \in from..(until - 1) : IsWorkingTime(t)
  PROVE  WorkingTicks(from, until) = until - from
<1>1. Worked(from, until) = from..(until - 1)
  BY DEF Worked
<1>2. until - 1 \in Int
  OBVIOUS
<1>3. Cardinality(from..(until - 1)) = IF from > until - 1 THEN 0 ELSE ((until - 1) - from) + 1
  BY <1>2, FS_Interval
<1>4. Cardinality(from..(until - 1)) = until - from
  BY <1>3
<1>5. WorkingTicks(from, until) = Cardinality(Worked(from, until))
  BY TicksAreNumbers
<1>. QED  BY <1>1, <1>4, <1>5

\* Nothing is done before the working hours of a day, nor after them until
\* those of the next day, nor on a free day.
LEMMA BeforeHours ==
  ASSUME NEW t \in Nat, t <= At(Day(t), StartHour)
  PROVE  WorkingTicks(t, At(Day(t), StartHour)) = 0
<1>1. StartHour \in Nat /\ EndHour \in Nat /\ DayLength \in Nat /\ StartHour < EndHour /\ EndHour < DayLength
  BY CalendarAssumption
<1>2. PICK a \in Nat :
        /\ a <= t /\ t < a + DayLength
        /\ \A h : At(Day(t), h) = a + h
        /\ \A u \in Nat : a <= u /\ u < a + DayLength => Day(u) = Day(t) /\ Hour(u) = u - a
  BY DayOf
<1>3. PICK n : n = At(Day(t), StartHour)
  OBVIOUS
<1>4. n = a + StartHour /\ n \in Nat
  BY <1>1, <1>2, <1>3
<1>5. ASSUME NEW u \in t..(n - 1) PROVE ~IsWorkingTime(u)
  <2>1. u \in Nat /\ a <= u /\ u < a + DayLength
    BY <1>1, <1>2, <1>4
  <2>2. Hour(u) = u - a
    BY <1>2, <2>1
  <2>3. Hour(u) < StartHour
    BY <1>1, <1>4, <2>1, <2>2
  <2>. QED  BY <1>1, <2>2, <2>1, <2>3 DEF IsWorkingTime
<1>. QED  BY <1>3, <1>4, <1>5, FreeTime

LEMMA UntilMorning ==
  ASSUME NEW t \in Nat, ~IsWorkingDay(Day(t)) \/ At(Day(t), EndHour) <= t
  PROVE  /\ NextMorning(t) \in Nat /\ t < NextMorning(t)
         /\ InHours(NextMorning(t)) /\ Day(NextMorning(t)) = Day(t) + 1
         /\ WorkingTicks(t, NextMorning(t)) = 0
<1>1. StartHour \in Nat /\ EndHour \in Nat /\ DayLength \in Nat /\ StartHour < EndHour /\ EndHour < DayLength
  BY CalendarAssumption
<1>2. PICK a \in Nat :
        /\ a <= t /\ t < a + DayLength
        /\ \A h : At(Day(t), h) = a + h
        /\ \A h : At(Day(t) + 1, h) = (a + DayLength) + h
        /\ \A u \in Nat : a <= u /\ u < a + DayLength => Day(u) = Day(t) /\ Hour(u) = u - a
        /\ \A u \in Nat : a + DayLength <= u /\ u < (a + DayLength) + DayLength =>
             Day(u) = Day(t) + 1 /\ Hour(u) = u - (a + DayLength)
  BY DayOf
<1>3. PICK n : n = NextMorning(t)
  OBVIOUS
<1>4. n = (a + DayLength) + StartHour /\ n \in Nat /\ t < n
  BY <1>1, <1>2, <1>3 DEF NextMorning
<1>5. Day(n) = Day(t) + 1 /\ InHours(n)
  <2>1. Day(n) = Day(t) + 1
    BY <1>1, <1>2, <1>4
  <2>. QED  BY <1>1, <1>2, <1>4, <2>1 DEF InHours
<1>6. ASSUME NEW u \in t..(n - 1) PROVE ~IsWorkingTime(u)
  <2>1. u \in Nat /\ t <= u /\ u < n
    BY <1>4
  <2>2. CASE u < a + DayLength
    <3>1. Day(u) = Day(t) /\ Hour(u) = u - a
      BY <1>2, <2>1, <2>2
    <3>2. ~IsWorkingDay(Day(u)) \/ EndHour <= Hour(u)
      BY <1>1, <1>2, <2>1, <3>1
    <3>. QED  BY <1>1, <2>1, <3>1, <3>2 DEF IsWorkingTime
  <2>3. CASE a + DayLength <= u
    <3>1. Hour(u) = u - (a + DayLength)
      BY <1>1, <1>2, <1>4, <2>1, <2>3
    <3>2. Hour(u) < StartHour
      BY <1>1, <1>4, <2>1, <3>1
    <3>. QED  BY <1>1, <2>1, <3>1, <3>2 DEF IsWorkingTime
  <2>. QED  BY <1>1, <1>2, <2>1, <2>2, <2>3
<1>7. WorkingTicks(t, n) = 0
  BY <1>4, <1>6, FreeTime
<1>. QED  BY <1>3, <1>4, <1>5, <1>7

LEMMA WithinHours ==
  ASSUME NEW t \in Nat, IsWorkingDay(Day(t)), At(Day(t), StartHour) <= t,
         NEW u \in Nat, t <= u, u <= At(Day(t), EndHour)
  PROVE  /\ WorkingTicks(t, u) = u - t
         /\ t < u => IsWorkingTime(u - 1)
<1>1. StartHour \in Nat /\ EndHour \in Nat /\ DayLength \in Nat /\ StartHour < EndHour /\ EndHour < DayLength
  BY CalendarAssumption
<1>2. PICK a \in Nat :
        /\ a <= t /\ t < a + DayLength
        /\ \A h : At(Day(t), h) = a + h
        /\ \A v \in Nat : a <= v /\ v < a + DayLength => Day(v) = Day(t) /\ Hour(v) = v - a
  BY DayOf
<1>3. a + StartHour <= t /\ u <= a + EndHour
  BY <1>2
<1>4. ASSUME NEW v \in t..(u - 1) PROVE IsWorkingTime(v)
  <2>1. v \in Nat /\ t <= v /\ v < u
    OBVIOUS
  <2>2. Day(v) = Day(t) /\ Hour(v) = v - a
    BY <1>1, <1>2, <1>3, <2>1
  <2>3. StartHour <= Hour(v) /\ Hour(v) < EndHour
    BY <1>1, <1>3, <2>1, <2>2
  <2>. QED  BY <2>2, <2>3 DEF IsWorkingTime
<1>5. WorkingTicks(t, u) = u - t
  BY <1>4, BusyTime
<1>6. t < u => u - 1 \in t..(u - 1)
  OBVIOUS
<1>. QED  BY <1>4, <1>5, <1>6

\* A day's contribution, from t on.
LEMMA DayCounts ==
  ASSUME NEW t \in Nat, call.end \in Nat, t <= call.end
  PROVE  /\ At(Day(t) + 1, 0) \in Nat /\ t < At(Day(t) + 1, 0)
         /\ Day(At(Day(t) + 1, 0)) = Day(t) + 1
         /\ Day(call.end) >= Day(t) + 1 <=> At(Day(t) + 1, 0) <= call.end
         /\ WorkingTicks(t, Earlier(At(Day(t) + 1, 0), call.end)) = TicksOfDay(t)
<1>1. StartHour \in Nat /\ EndHour \in Nat /\ DayLength \in Nat /\ StartHour < EndHour /\ EndHour < DayLength
  BY CalendarAssumption
<1>2. PICK a \in Nat :
        /\ a <= t /\ t < a + DayLength
        /\ \A h : At(Day(t), h) = a + h
        /\ \A h : At(Day(t) + 1, h) = (a + DayLength) + h
        /\ \A u \in Nat : a <= u /\ u < a + DayLength => Day(u) = Day(t) /\ Hour(u) = u - a
        /\ \A u \in Nat : a + DayLength <= u /\ u < (a + DayLength) + DayLength =>
             Day(u) = Day(t) + 1 /\ Hour(u) = u - (a + DayLength)
  BY DayOf
<1>3. PICK n, e, s, h : /\ n = At(Day(t) + 1, 0) /\ e = call.end
                        /\ s = At(Day(t), StartHour) /\ h = At(Day(t), EndHour)
  OBVIOUS
<1>4. /\ n = a + DayLength /\ s = a + StartHour /\ h = a + EndHour
      /\ n \in Nat /\ e \in Nat /\ s \in Nat /\ h \in Nat
      /\ t < n /\ t <= e /\ s < h /\ h < n
  BY <1>1, <1>2, <1>3
<1>5. Day(n) = Day(t) + 1
  BY <1>1, <1>2, <1>4
<1>6. Day(e) >= Day(t) + 1 <=> n <= e
  <2>1. Day(t) \in Nat /\ Day(e) \in Nat /\ e = Day(e) * DayLength + Hour(e) /\ Hour(e) \in 0..(DayLength - 1)
    BY <1>4, Division
  <2>2. n = (Day(t) + 1) * DayLength
    BY <1>1, <1>3, <2>1 DEF At
  <2>3. ASSUME Day(e) >= Day(t) + 1 PROVE n <= e
    <3>1. Day(e) * DayLength >= (Day(t) + 1) * DayLength
      BY <1>1, <2>1, <2>3
    <3>. QED  BY <1>1, <1>4, <2>1, <2>2, <3>1
  <2>4. ASSUME Day(e) <= Day(t) PROVE e < n
    <3>1. Day(e) * DayLength <= Day(t) * DayLength
      BY <1>1, <2>1, <2>4
    <3>2. (Day(t) + 1) * DayLength = Day(t) * DayLength + DayLength /\ Day(t) * DayLength \in Nat
      BY <1>1, <2>1
    <3>. QED  BY <1>1, <1>4, <2>1, <2>2, <3>1, <3>2
  <2>5. Day(e) >= Day(t) + 1 \/ Day(e) <= Day(t)
    BY <2>1
  <2>6. ~(Day(e) >= Day(t) + 1 /\ Day(e) <= Day(t)) /\ ~(n <= e /\ e < n)
    BY <1>4, <2>1
  <2>. QED  BY <2>3, <2>4, <2>5, <2>6
<1>7. PICK from, until, next : /\ from = Later(t, s) /\ until = Earlier(e, h) /\ next = Earlier(n, e)
  OBVIOUS
<1>8. /\ from \in Nat /\ until \in Nat /\ next \in Nat
      /\ t <= from /\ s <= from /\ (from = t \/ from = s)
      /\ until <= next /\ until <= h /\ (until = next \/ until = h)
      /\ next <= n /\ t <= next
  BY <1>4, <1>7 DEF Later, Earlier
<1>9. ASSUME NEW u \in t..(next - 1)
      PROVE  /\ u \in Nat /\ Day(u) = Day(t)
             /\ IsWorkingTime(u) <=> IsWorkingDay(Day(t)) /\ from <= u /\ u < until
  <2>1. u \in Nat /\ t <= u /\ u < next
    BY <1>8
  <2>2. Day(u) = Day(t) /\ Hour(u) = u - a
    BY <1>1, <1>2, <1>4, <1>8, <2>1
  <2>3. (StartHour <= Hour(u) /\ Hour(u) < EndHour) <=> (s <= u /\ u < h)
    BY <1>1, <1>4, <2>1, <2>2
  <2>4. (s <= u /\ u < h) <=> (from <= u /\ u < until)
    BY <1>4, <1>8, <2>1
  <2>. QED  BY <2>1, <2>2, <2>3, <2>4 DEF IsWorkingTime
<1>10. TicksOfDay(t) = IF IsWorkingDay(Day(t)) /\ from < until THEN until - from ELSE 0
  BY <1>3, <1>7 DEF TicksOfDay
<1>11. WorkingTicks(t, next) = TicksOfDay(t)
  <2>1. CASE IsWorkingDay(Day(t)) /\ from < until
    <3>1. WorkingTicks(t, from) = 0
      <4>1. \A u \in t..(from - 1) : u \in t..(next - 1) /\ ~(from <= u)
        BY <1>8, <2>1
      <4>2. \A u \in t..(from - 1) : ~IsWorkingTime(u)
        BY <1>9, <4>1
      <4>. QED  BY <1>8, <4>2, FreeTime
    <3>2. WorkingTicks(from, until) = until - from
      <4>1. \A u \in from..(until - 1) : u \in t..(next - 1) /\ from <= u /\ u < until
        BY <1>8, <2>1
      <4>2. \A u \in from..(until - 1) : IsWorkingTime(u)
        BY <1>9, <2>1, <4>1
      <4>. QED  BY <1>8, <2>1, <4>2, BusyTime
    <3>3. WorkingTicks(until, next) = 0
      <4>1. \A u \in until..(next - 1) : u \in t..(next - 1) /\ ~(u < until)
        BY <1>8, <2>1
      <4>2. \A u \in until..(next - 1) : ~IsWorkingTime(u)
        BY <1>9, <4>1
      <4>. QED  BY <1>8, <4>2, FreeTime
    <3>4. WorkingTicks(t, next) = WorkingTicks(t, from) + WorkingTicks(from, next)
      BY <1>8, <2>1, TicksAddUp
    <3>5. WorkingTicks(from, next) = WorkingTicks(from, until) + WorkingTicks(until, next)
      BY <1>8, <2>1, TicksAddUp
    <3>. QED  BY <1>8, <1>10, <2>1, <3>1, <3>2, <3>3, <3>4, <3>5
  <2>2. CASE ~(IsWorkingDay(Day(t)) /\ from < until)
    <3>1. \A u \in t..(next - 1) : ~IsWorkingTime(u)
      BY <1>8, <1>9, <2>2
    <3>. QED  BY <1>8, <1>10, <2>2, <3>1, FreeTime
  <2>. QED  BY <2>1, <2>2
<1>. QED  BY <1>3, <1>4, <1>5, <1>6, <1>7, <1>11

-----------------------------------------------------------------------------
(* The calls.                                                              *)

LEMMA CallIs ==
  ASSUME call \in Calls
  PROVE  /\ call.dt \in Nat /\ call.method \in {"add", "between", "next"}
         /\ call.method = "add" => call.hours \in Int
         /\ call.method = "between" => call.end \in Nat
  BY CalendarAssumption DEF Calls

\* What is left of the invariant in a step that does not return.
LEMMA GoesOn ==
  ASSUME CalendarInv, CalendarTypeOK', place' \in {"skip", "loop"},
         Adding', Counting', Seeking'
  PROVE  CalendarInv'
  BY DEF CalendarInv, AnswersAreExact, AddIsExact, BetweenCounts, NextIsFirst, Over

\* And in one that does.
LEMMA Ends ==
  ASSUME CalendarTypeOK', place' = "returned", AnswersAreExact'
  PROVE  CalendarInv'
  BY DEF CalendarInv, Adding, Counting, Seeking

LEMMA NextAddStart == ASSUME CalendarInv, AddStart PROVE CalendarInv'
<1>1. /\ CalendarTypeOK /\ current = call.dt /\ remaining = call.hours /\ current \in Nat
      /\ call.method = "add" /\ call.hours \in Int /\ call' = call /\ call.dt \in Nat
      /\ remaining' = remaining /\ total' = total
  BY CallIs DEF CalendarInv, CalendarTypeOK, AddStart
<1>2. CASE remaining <= 0
  <2>1. place' = "returned" /\ result' = current /\ current' = current
    BY <1>2 DEF AddStart, Return
  <2>2. CalendarTypeOK'
    BY <1>1, <2>1 DEF CalendarTypeOK
  <2>3. AnswersAreExact'
    BY <1>1, <1>2, <2>1 DEF AnswersAreExact, AddIsExact, BetweenCounts, NextIsFirst, Over
  <2>. QED  BY <2>1, <2>2, <2>3, Ends
<1>3. CASE ~(remaining <= 0)
  <2>1. place' = "skip" /\ current' = Clamp(current) /\ result' = result
    BY <1>3 DEF AddStart
  <2>2. PICK t : t = current
    OBVIOUS
  <2>3. /\ t \in Nat /\ t = call.dt
        /\ StartHour \in Nat /\ EndHour \in Nat /\ DayLength \in Nat
        /\ StartHour < EndHour /\ EndHour < DayLength
    BY <1>1, <2>2, CalendarAssumption
  <2>4. PICK a \in Nat :
          /\ a <= t /\ t < a + DayLength /\ Hour(t) = t - a
          /\ \A h : At(Day(t), h) = a + h
          /\ \A u \in Nat : a <= u /\ u < a + DayLength => Day(u) = Day(t) /\ Hour(u) = u - a
    BY <2>3, DayOf
  <2>5. Clamp(t) \in Nat /\ t <= Clamp(t) /\ InHours(Clamp(t)) /\ WorkingTicks(t, Clamp(t)) = 0
    <3>1. CASE Hour(t) < StartHour
      <4>0. Clamp(t) = At(Day(t), StartHour)
        BY <2>3, <2>4, <3>1 DEF Clamp
      <4>1. Clamp(t) = At(Day(t), StartHour) /\ At(Day(t), StartHour) = a + StartHour
            /\ At(Day(t), EndHour) = a + EndHour
        BY <2>4, <4>0
      <4>2. a + StartHour \in Nat /\ t <= a + StartHour /\ Day(a + StartHour) = Day(t)
        BY <2>3, <2>4, <3>1
      <4>3. WorkingTicks(t, At(Day(t), StartHour)) = 0
        BY <2>3, <4>1, <4>2, BeforeHours
      <4>. QED  BY <2>3, <4>1, <4>2, <4>3 DEF InHours
    <3>2. CASE Hour(t) >= EndHour
      <4>1. Clamp(t) = NextMorning(t)
        BY <2>3, <2>4, <3>2 DEF Clamp, NextMorning
      <4>2. At(Day(t), EndHour) = a + EndHour
        BY <2>4
      <4>3. At(Day(t), EndHour) <= t
        BY <2>3, <2>4, <3>2, <4>2
      <4>. QED  BY <2>3, <4>1, <4>3, UntilMorning
    <3>3. CASE ~(Hour(t) < StartHour) /\ ~(Hour(t) >= EndHour)
      <4>1. Clamp(t) = t
        BY <3>3 DEF Clamp
      <4>2. At(Day(t), StartHour) = a + StartHour /\ At(Day(t), EndHour) = a + EndHour
        BY <2>4
      <4>3. InHours(t)
        BY <2>3, <2>4, <3>3, <4>2 DEF InHours
      <4>4. WorkingTicks(t, t) = 0
        <5>1. \A u \in t..(t - 1) : FALSE
          BY <2>3
        <5>. QED  BY <2>3, <5>1, FreeTime
      <4>. QED  BY <2>3, <4>1, <4>3, <4>4
    <3>. QED  BY <3>1, <3>2, <3>3
  <2>6. CalendarTypeOK'
    BY <1>1, <2>1, <2>2, <2>5 DEF CalendarTypeOK
  <2>7. remaining > 0 /\ WorkingTicks(call.dt, Clamp(t)) + remaining = call.hours
    BY <1>1, <1>3, <2>3, <2>5
  <2>8. Adding'
    BY <1>1, <2>1, <2>2, <2>3, <2>5, <2>7 DEF Adding, InHours, WorkingTicks
  <2>9. Counting' /\ Seeking'
    BY <1>1 DEF Counting, Seeking
  <2>. QED  BY <2>1, <2>6, <2>8, <2>9, GoesOn
<1>. QED  BY <1>2, <1>3

\* To the next morning, with nothing worked in between.
LEMMA NextDayOfAdd ==
  ASSUME CalendarInv, call.method = "add", place \in {"skip", "loop"},
         ~IsWorkingDay(Day(current)),
         current' = NextMorning(current), place' = place, UNCHANGED <<call, remaining, total, result>>
  PROVE  CalendarInv'
<1>1. /\ CalendarTypeOK /\ current \in Nat /\ call.dt \in Nat /\ call.dt <= current
      /\ remaining \in Int /\ remaining > 0
      /\ WorkingTicks(call.dt, current) + remaining = call.hours
  BY CallIs DEF CalendarInv, CalendarTypeOK, Adding
<1>2. PICK n : n = NextMorning(current)
  OBVIOUS
<1>3. n \in Nat /\ current < n /\ InHours(n) /\ WorkingTicks(current, n) = 0
  BY <1>1, <1>2, UntilMorning
<1>4. WorkingTicks(call.dt, n) = WorkingTicks(call.dt, current)
  <2>1. WorkingTicks(call.dt, n) = WorkingTicks(call.dt, current) + WorkingTicks(current, n)
    BY <1>1, <1>3, TicksAddUp
  <2>2. WorkingTicks(call.dt, current) \in Nat
    BY <1>1, TicksType
  <2>. QED  BY <1>3, <2>1, <2>2
<1>5. CalendarTypeOK'
  BY <1>1, <1>2, <1>3 DEF CalendarTypeOK
<1>6. Adding'
  BY <1>1, <1>2, <1>3, <1>4 DEF Adding, InHours, WorkingTicks
<1>. QED  BY <1>5, <1>6, GoesOn DEF Counting, Seeking

LEMMA NextAddSkip == ASSUME CalendarInv, AddSkip PROVE CalendarInv'
<1>1. CASE IsWorkingDay(Day(current))
  <2>1. /\ call.method = "add" /\ place = "skip" /\ place' = "loop"
        /\ UNCHANGED <<call, current, remaining, total, result>>
    BY <1>1 DEF AddSkip
  <2>2. CalendarTypeOK'
    BY <2>1 DEF CalendarInv, CalendarTypeOK
  <2>3. Adding'
    BY <2>1 DEF CalendarInv, Adding, InHours, WorkingTicks
  <2>. QED  BY <2>1, <2>2, <2>3, GoesOn DEF Counting, Seeking
<1>2. CASE ~IsWorkingDay(Day(current))
  BY <1>2, NextDayOfAdd DEF AddSkip
<1>. QED  BY <1>1, <1>2

LEMMA NextAddWithinDay == ASSUME CalendarInv, AddWithinDay PROVE CalendarInv'
<1>1. /\ CalendarTypeOK /\ current \in Nat /\ call.dt \in Nat /\ call.dt <= current
      /\ remaining \in Nat /\ remaining > 0 /\ InHours(current) /\ call.method = "add"
      /\ WorkingTicks(call.dt, current) + remaining = call.hours
  BY CallIs DEF CalendarInv, CalendarTypeOK, Adding, AddWithinDay
<1>2. PICK u : u = current + remaining
  OBVIOUS
<1>3. At(Day(current), EndHour) \in Int
  BY <1>1, Division, CalendarAssumption DEF At
<1>4. u \in Nat /\ current < u /\ u <= At(Day(current), EndHour)
  BY <1>1, <1>2, <1>3 DEF AddWithinDay, Fits, Available
<1>5. WorkingTicks(current, u) = u - current /\ IsWorkingTime(u - 1)
  BY <1>1, <1>4, WithinHours DEF AddWithinDay, InHours
<1>6. WorkingTicks(call.dt, u) = call.hours
  <2>1. WorkingTicks(call.dt, u) = WorkingTicks(call.dt, current) + WorkingTicks(current, u)
    BY <1>1, <1>4, TicksAddUp
  <2>2. WorkingTicks(current, u) = remaining
    BY <1>1, <1>2, <1>5
  <2>. QED  BY <1>1, <2>1, <2>2
<1>7. /\ place' = "returned" /\ current' = u /\ result' = u /\ remaining' = 0
      /\ UNCHANGED <<call, total>>
  BY <1>2 DEF AddWithinDay, Return
<1>8. CalendarTypeOK'
  BY <1>1, <1>4, <1>7 DEF CalendarTypeOK
<1>9. ~(call.hours <= 0)
  <2>1. WorkingTicks(call.dt, current) \in Nat
    BY <1>1, TicksType
  <2>. QED  BY <1>1, <2>1
<1>10. AnswersAreExact'
  BY <1>1, <1>5, <1>6, <1>7, <1>9 DEF AnswersAreExact, AddIsExact, BetweenCounts, NextIsFirst, Over,
     WorkingTicks
<1>. QED  BY <1>7, <1>8, <1>10, Ends

LEMMA NextAddWholeDay == ASSUME CalendarInv, AddWholeDay PROVE CalendarInv'
<1>1. /\ CalendarTypeOK /\ current \in Nat /\ call.dt \in Nat /\ call.dt <= current
      /\ remaining \in Nat /\ remaining > 0 /\ InHours(current) /\ call.method = "add"
      /\ WorkingTicks(call.dt, current) + remaining = call.hours
  BY CallIs DEF CalendarInv, CalendarTypeOK, Adding, AddWholeDay
<1>2. PICK e : e = At(Day(current), EndHour)
  OBVIOUS
<1>3. e \in Int /\ current < e
  BY <1>1, <1>2, Division, CalendarAssumption DEF At, InHours
<1>4. /\ remaining' = remaining - (e - current) /\ remaining > e - current
      /\ current' = NextMorning(current) /\ UNCHANGED <<call, place, total, result>>
      /\ place = "loop" /\ IsWorkingDay(Day(current))
  BY <1>1, <1>2, <1>3 DEF AddWholeDay, Fits, Available
<1>5. e \in Nat /\ WorkingTicks(current, e) = e - current
  BY <1>1, <1>2, <1>3, <1>4, WithinHours DEF InHours
<1>6. Day(e) = Day(current) /\ At(Day(e), EndHour) <= e
  <2>1. PICK a \in Nat :
          /\ a <= current /\ current < a + DayLength
          /\ \A h : At(Day(current), h) = a + h
          /\ \A u \in Nat : a <= u /\ u < a + DayLength => Day(u) = Day(current)
    BY <1>1, DayOf
  <2>2. e = a + EndHour
    BY <1>2, <2>1
  <2>3. Day(e) = Day(current)
    BY <1>5, <2>1, <2>2, CalendarAssumption
  <2>. QED  BY <1>2, <1>3, <2>3
<1>7. PICK n : n = NextMorning(current)
  OBVIOUS
<1>8. /\ n \in Nat /\ e < n /\ InHours(n) /\ WorkingTicks(e, n) = 0
  <2>1. n = NextMorning(e)
    BY <1>6, <1>7 DEF NextMorning
  <2>. QED  BY <1>5, <1>6, <2>1, UntilMorning
<1>9. WorkingTicks(call.dt, n) + remaining' = call.hours
  <2>1. WorkingTicks(call.dt, n) = WorkingTicks(call.dt, e) + WorkingTicks(e, n)
    BY <1>1, <1>3, <1>8, TicksAddUp
  <2>2. WorkingTicks(call.dt, e) = WorkingTicks(call.dt, current) + WorkingTicks(current, e)
    BY <1>1, <1>3, TicksAddUp
  <2>3. WorkingTicks(call.dt, current) \in Nat
    BY <1>1, TicksType
  <2>. QED  BY <1>1, <1>3, <1>4, <1>5, <1>8, <2>1, <2>2, <2>3
<1>10. CalendarTypeOK'
  BY <1>1, <1>3, <1>4, <1>7, <1>8 DEF CalendarTypeOK
<1>11. Adding'
  <2>1. remaining' > 0 /\ call.dt <= n
    BY <1>1, <1>3, <1>4, <1>8
  <2>. QED  BY <1>4, <1>7, <1>8, <1>9, <2>1 DEF Adding, InHours, WorkingTicks
<1>. QED  BY <1>1, <1>4, <1>10, <1>11, GoesOn DEF Counting, Seeking

LEMMA NextBetweenStart == ASSUME CalendarInv, BetweenStart PROVE CalendarInv'
<1>1. /\ CalendarTypeOK /\ current = call.dt /\ total = 0 /\ call.dt \in Nat /\ call.end \in Nat
      /\ call.method = "between" /\ UNCHANGED <<call, current, remaining, total>>
  BY CallIs DEF CalendarInv, CalendarTypeOK, BetweenStart
<1>2. \A t \in Nat : WorkingTicks(t, t) = 0
  <2>1. ASSUME NEW t \in Nat PROVE WorkingTicks(t, t) = 0
    <3>1. \A u \in t..(t - 1) : FALSE
      OBVIOUS
    <3>. QED  BY <3>1, FreeTime
  <2>. QED  BY <2>1
<1>3. CASE call.dt >= call.end
  <2>1. place' = "returned" /\ result' = 0
    BY <1>3 DEF BetweenStart, Return
  <2>2. WorkingTicks(call.dt, call.end) = 0
    <3>1. \A u \in call.dt..(call.end - 1) : FALSE
      BY <1>1, <1>3
    <3>. QED  BY <1>1, <3>1, FreeTime
  <2>3. CalendarTypeOK'
    BY <1>1, <2>1 DEF CalendarTypeOK
  <2>4. AnswersAreExact'
    BY <1>1, <2>1, <2>2 DEF AnswersAreExact, AddIsExact, BetweenCounts, NextIsFirst, Over, WorkingTicks
  <2>. QED  BY <2>1, <2>3, <2>4, Ends
<1>4. CASE ~(call.dt >= call.end)
  <2>1. place' = "loop" /\ result' = result
    BY <1>4 DEF BetweenStart
  <2>2. CalendarTypeOK'
    BY <1>1, <2>1 DEF CalendarTypeOK
  <2>3. call.dt < call.end /\ Earlier(current, call.end) = call.dt
    BY <1>1, <1>4 DEF Earlier
  <2>4. total = WorkingTicks(call.dt, Earlier(current, call.end))
    BY <1>1, <1>2, <2>3
  <2>5. Counting'
    BY <1>1, <2>1, <2>3, <2>4 DEF Counting, WorkingTicks, Earlier
  <2>. QED  BY <1>1, <2>1, <2>2, <2>5, GoesOn DEF Adding, Seeking
<1>. QED  BY <1>3, <1>4

LEMMA NextBetweenDay == ASSUME CalendarInv, BetweenDay PROVE CalendarInv'
<1>1. /\ CalendarTypeOK /\ current \in Nat /\ total \in Nat /\ call.dt \in Nat /\ call.end \in Nat
      /\ call.method = "between" /\ place = "loop"
      /\ UNCHANGED <<call, place, remaining, result>>
  BY CallIs DEF CalendarInv, CalendarTypeOK, BetweenDay
<1>2. /\ call.dt <= current /\ call.dt < call.end
      /\ current <= call.end \/ Day(current) > Day(call.end)
      /\ total = WorkingTicks(call.dt, Earlier(current, call.end))
  BY <1>1 DEF CalendarInv, Counting
<1>3. current <= call.end
  <2>1. Day(current) <= Day(call.end) /\ Day(current) \in Nat /\ Day(call.end) \in Nat
    BY <1>1, Division DEF BetweenDay
  <2>. QED  BY <1>2, <2>1
<1>4. PICK n, m : n = At(Day(current) + 1, 0) /\ m = Earlier(n, call.end)
  OBVIOUS
<1>5. /\ n \in Nat /\ current < n /\ Day(n) = Day(current) + 1
      /\ Day(call.end) >= Day(current) + 1 <=> n <= call.end
      /\ WorkingTicks(current, m) = TicksOfDay(current)
  BY <1>1, <1>3, <1>4, DayCounts
<1>6. current' = n /\ total' = total + TicksOfDay(current)
  BY <1>4 DEF BetweenDay
<1>7. m \in Nat /\ current <= m
  BY <1>1, <1>3, <1>4, <1>5 DEF Earlier
<1>8. Earlier(current, call.end) = current
  BY <1>3 DEF Earlier
<1>9. total' = WorkingTicks(call.dt, m) /\ total' \in Nat
  <2>1. WorkingTicks(call.dt, m) = WorkingTicks(call.dt, current) + WorkingTicks(current, m)
    BY <1>1, <1>2, <1>7, TicksAddUp
  <2>2. WorkingTicks(call.dt, m) \in Nat
    BY <1>1, <1>7, TicksType
  <2>. QED  BY <1>2, <1>5, <1>6, <1>8, <2>1, <2>2
<1>10. CalendarTypeOK'
  BY <1>1, <1>5, <1>6, <1>9 DEF CalendarTypeOK
<1>11. n <= call.end \/ Day(n) > Day(call.end)
  <2>1. Day(current) \in Nat /\ Day(call.end) \in Nat
    BY <1>1, Division
  <2>. QED  BY <1>5, <2>1
<1>12. call.dt <= n
  BY <1>1, <1>2, <1>5
<1>13. Counting'
  BY <1>1, <1>2, <1>4, <1>6, <1>9, <1>11, <1>12 DEF Counting, WorkingTicks, Earlier
<1>. QED  BY <1>1, <1>10, <1>13, GoesOn DEF Adding, Seeking

LEMMA NextBetweenEnd == ASSUME CalendarInv, BetweenEnd PROVE CalendarInv'
<1>1. /\ CalendarTypeOK /\ current \in Nat /\ total \in Nat /\ call.dt \in Nat /\ call.end \in Nat
      /\ call.method = "between" /\ place' = "returned" /\ result' = total
      /\ UNCHANGED <<call, current, remaining, total>>
  BY CallIs DEF CalendarInv, CalendarTypeOK, BetweenEnd, Return
<1>2. /\ total = WorkingTicks(call.dt, Earlier(current, call.end))
      /\ Day(current) > Day(call.end)
  BY DEF CalendarInv, Counting, BetweenEnd
<1>3. Earlier(current, call.end) = call.end
  <2>1. ASSUME current <= call.end PROVE FALSE
    <3>1. /\ At(Day(current) + 1, 0) \in Nat /\ current < At(Day(current) + 1, 0)
          /\ Day(current) \in Nat /\ Day(call.end) \in Nat
      BY <1>1, <2>1, DayCounts, Division
    <3>2. PICK a \in Nat :
            /\ a <= call.end
            /\ \A h : At(Day(call.end), h) = a + h
            /\ call.end < a + DayLength
      BY <1>1, DayOf
    <3>3. PICK b \in Nat : b <= current /\ \A h : At(Day(current), h) = b + h
      BY <1>1, DayOf
    <3>4. a = Day(call.end) * DayLength + 0 /\ b = Day(current) * DayLength + 0
      <4>1. At(Day(call.end), 0) = a + 0 /\ At(Day(current), 0) = b + 0
        BY <3>2, <3>3
      <4>. QED  BY <4>1 DEF At
    <3>5. Day(current) >= Day(call.end) + 1 /\ DayLength \in Nat
      BY <1>2, <3>1, CalendarAssumption
    <3>6. /\ Day(current) * DayLength >= (Day(call.end) + 1) * DayLength
          /\ (Day(call.end) + 1) * DayLength = Day(call.end) * DayLength + DayLength
          /\ Day(call.end) * DayLength \in Nat /\ Day(current) * DayLength \in Nat
      <4>1. PICK c, d \in Nat : c = Day(current) /\ d = Day(call.end)
        BY <3>1
      <4>2. c >= d + 1 /\ DayLength \in Nat
        BY <3>5, <4>1
      <4>3. c * DayLength >= (d + 1) * DayLength
        BY <4>2
      <4>4. (d + 1) * DayLength = d * DayLength + DayLength /\ d * DayLength \in Nat /\ c * DayLength \in Nat
        BY <4>2
      <4>. QED  BY <4>1, <4>3, <4>4
    <3>. QED  BY <1>1, <2>1, <3>2, <3>3, <3>4, <3>5, <3>6
  <2>. QED  BY <2>1 DEF Earlier
<1>4. CalendarTypeOK'
  BY <1>1 DEF CalendarTypeOK
<1>5. AnswersAreExact'
  BY <1>1, <1>2, <1>3 DEF AnswersAreExact, AddIsExact, BetweenCounts, NextIsFirst, Over, WorkingTicks
<1>. QED  BY <1>1, <1>4, <1>5, Ends

LEMMA NextNextStart == ASSUME CalendarInv, NextStart PROVE CalendarInv'
<1>1. /\ CalendarTypeOK /\ current = call.dt /\ current \in Nat /\ call.dt \in Nat
      /\ call.method = "next" /\ UNCHANGED <<call, remaining, total>>
  BY CallIs DEF CalendarInv, CalendarTypeOK, NextStart
<1>2. CASE IsWorkingTime(current)
  <2>1. place' = "returned" /\ result' = current /\ current' = current
    BY <1>2 DEF NextStart, Return
  <2>2. WorkingTicks(current, current) = 0
    <3>1. \A u \in current..(current - 1) : FALSE
      BY <1>1
    <3>. QED  BY <1>1, <3>1, FreeTime
  <2>3. CalendarTypeOK'
    BY <1>1, <2>1 DEF CalendarTypeOK
  <2>4. AnswersAreExact'
    BY <1>1, <1>2, <2>1, <2>2 DEF AnswersAreExact, AddIsExact, BetweenCounts, NextIsFirst, Over,
       WorkingTicks
  <2>. QED  BY <2>1, <2>3, <2>4, Ends
<1>3. CASE ~IsWorkingTime(current)
  <2>1. PICK t, n : t = current /\ n = At(DayAtLeast(current), StartHour)
    OBVIOUS
  <2>2. place' = "skip" /\ current' = n /\ result' = result
    BY <1>3, <2>1 DEF NextStart
  <2>3. /\ t \in Nat /\ t = call.dt
        /\ StartHour \in Nat /\ EndHour \in Nat /\ DayLength \in Nat
        /\ StartHour < EndHour /\ EndHour < DayLength
    BY <1>1, <2>1, CalendarAssumption
  <2>4. PICK a \in Nat :
          /\ a <= t /\ t < a + DayLength /\ Hour(t) = t - a
          /\ \A h : At(Day(t), h) = a + h
          /\ \A u \in Nat : a <= u /\ u < a + DayLength => Day(u) = Day(t) /\ Hour(u) = u - a
    BY <2>3, DayOf
  <2>5. /\ At(Day(t), StartHour) = a + StartHour /\ At(Day(t), EndHour) = a + EndHour
        /\ a + StartHour \in Nat /\ Day(a + StartHour) = Day(t)
    BY <2>3, <2>4
  <2>6. /\ n \in Nat /\ n = At(Day(n), StartHour) /\ WorkingTicks(t, n) = 0
        /\ t <= n \/ (~IsWorkingDay(Day(n)) /\ Day(t) = Day(n))
    <3>1. CASE Hour(t) >= EndHour
      <4>1. n = NextMorning(t)
        BY <2>1, <3>1 DEF DayAtLeast, NextMorning
      <4>2. At(Day(t), EndHour) <= t
        BY <2>3, <2>4, <2>5, <3>1
      <4>3. n \in Nat /\ t < n /\ Day(n) = Day(t) + 1 /\ WorkingTicks(t, n) = 0
        BY <2>3, <4>1, <4>2, UntilMorning
      <4>. QED  BY <2>3, <4>1, <4>3 DEF NextMorning
    <3>2. CASE ~(Hour(t) >= EndHour)
      <4>1. n = At(Day(t), StartHour)
        BY <2>1, <3>2 DEF DayAtLeast
      <4>2. n \in Nat /\ Day(n) = Day(t) /\ n = a + StartHour
        BY <2>5, <4>1
      <4>3. CASE t <= n
        BY <2>3, <4>1, <4>2, <4>3, BeforeHours
      <4>4. CASE ~(t <= n)
        <5>1. ~IsWorkingDay(Day(t))
          <6>1. StartHour <= Hour(t) /\ Hour(t) < EndHour
            BY <2>3, <2>4, <3>2, <4>2, <4>4
          <6>. QED  BY <1>3, <2>1, <6>1 DEF IsWorkingTime
        <5>2. WorkingTicks(t, n) = 0
          <6>1. \A u \in t..(n - 1) : FALSE
            BY <2>3, <4>2, <4>4
          <6>. QED  BY <2>3, <4>2, <6>1, FreeTime
        <5>. QED  BY <4>1, <4>2, <5>1, <5>2
      <4>. QED  BY <4>3, <4>4
    <3>. QED  BY <3>1, <3>2
  <2>7. CalendarTypeOK'
    BY <1>1, <2>2, <2>6 DEF CalendarTypeOK
  <2>8. Seeking'
    BY <1>1, <2>2, <2>3, <2>6 DEF Seeking, WorkingTicks
  <2>. QED  BY <1>1, <2>2, <2>7, <2>8, GoesOn DEF Adding, Counting
<1>. QED  BY <1>2, <1>3

LEMMA NextNextSkip == ASSUME CalendarInv, NextSkip PROVE CalendarInv'
<1>1. /\ CalendarTypeOK /\ current \in Nat /\ call.dt \in Nat
      /\ call.method = "next" /\ place = "skip" /\ UNCHANGED <<call, remaining, total>>
      /\ current = At(Day(current), StartHour)
      /\ WorkingTicks(call.dt, current) = 0
      /\ call.dt <= current \/ (~IsWorkingDay(Day(current)) /\ Day(call.dt) = Day(current))
  BY CallIs DEF CalendarInv, CalendarTypeOK, Seeking, NextSkip
<1>2. StartHour \in Nat /\ EndHour \in Nat /\ DayLength \in Nat /\ StartHour < EndHour /\ EndHour < DayLength
  BY CalendarAssumption
<1>3. PICK a \in Nat :
        /\ a <= current /\ current < a + DayLength /\ Hour(current) = current - a
        /\ \A h : At(Day(current), h) = a + h
        /\ \A h : At(Day(current) + 1, h) = (a + DayLength) + h
  BY <1>1, DayOf
<1>4. current = a + StartHour /\ NextMorning(current) = current + DayLength
  <2>1. At(Day(current), StartHour) = a + StartHour
        /\ At(Day(current) + 1, StartHour) = (a + DayLength) + StartHour
    BY <1>3
  <2>. QED  BY <1>1, <1>2, <2>1 DEF NextMorning
<1>5. CASE IsWorkingDay(Day(current))
  <2>1. place' = "returned" /\ result' = current /\ current' = current
    BY <1>5 DEF NextSkip, Return
  <2>2. IsWorkingTime(current)
    BY <1>2, <1>3, <1>4, <1>5 DEF IsWorkingTime
  <2>3. CalendarTypeOK'
    BY <1>1, <2>1 DEF CalendarTypeOK
  <2>4. AnswersAreExact'
    BY <1>1, <1>5, <2>1, <2>2 DEF AnswersAreExact, AddIsExact, BetweenCounts, NextIsFirst, Over,
       WorkingTicks
  <2>. QED  BY <2>1, <2>3, <2>4, Ends
<1>6. CASE ~IsWorkingDay(Day(current))
  <2>1. PICK n : n = NextMorning(current)
    OBVIOUS
  <2>2. place' = "skip" /\ current' = n /\ result' = result
    BY <1>1, <1>4, <1>6, <2>1 DEF NextSkip
  <2>3. /\ n \in Nat /\ current < n /\ Day(n) = Day(current) + 1 /\ WorkingTicks(current, n) = 0
    BY <1>1, <1>6, <2>1, UntilMorning
  <2>4. n = At(Day(n), StartHour)
    BY <2>1, <2>3 DEF NextMorning
  <2>5. call.dt <= n /\ WorkingTicks(call.dt, n) = 0
    <3>1. CASE call.dt <= current
      <4>1. WorkingTicks(call.dt, n) = WorkingTicks(call.dt, current) + WorkingTicks(current, n)
        BY <1>1, <2>3, <3>1, TicksAddUp
      <4>. QED  BY <1>1, <2>3, <3>1, <4>1
    <3>2. CASE ~(call.dt <= current)
      <4>1. n = NextMorning(call.dt) /\ ~IsWorkingDay(Day(call.dt))
        BY <1>1, <1>6, <2>1, <3>2 DEF NextMorning
      <4>. QED  BY <1>1, <4>1, UntilMorning
    <3>. QED  BY <3>1, <3>2
  <2>6. CalendarTypeOK'
    BY <1>1, <2>2, <2>3 DEF CalendarTypeOK
  <2>7. Seeking'
    BY <1>1, <2>2, <2>4, <2>5 DEF Seeking, WorkingTicks
  <2>. QED  BY <1>1, <2>2, <2>6, <2>7, GoesOn DEF Adding, Counting
<1>. QED  BY <1>5, <1>6

LEMMA InitCalendar == CalendarInit => CalendarInv
<1>. SUFFICES ASSUME CalendarInit PROVE CalendarInv
  OBVIOUS
<1>1. /\ call \in Calls /\ place = "called" /\ total = 0 /\ result = 0 /\ current = call.dt
      /\ call.method = "add" => remaining = call.hours
      /\ call.method # "add" => remaining = 0
  BY DEF CalendarInit
<1>2. /\ call.dt \in Nat /\ call.method \in {"add", "between", "next"}
      /\ call.method = "add" => call.hours \in Int
  BY <1>1, CallIs
<1>3. CalendarTypeOK
  BY <1>1, <1>2 DEF CalendarTypeOK
<1>. QED
  BY <1>1, <1>3 DEF CalendarInv, Adding, Counting, Seeking, AnswersAreExact, AddIsExact, BetweenCounts,
     NextIsFirst, Over

LEMMA NextCalendar == CalendarInv /\ [CalendarNext]_calendarVars => CalendarInv'
<1>. SUFFICES ASSUME CalendarInv, [CalendarNext]_calendarVars PROVE CalendarInv'
  OBVIOUS
<1>1. CASE UNCHANGED calendarVars
  BY <1>1 DEF calendarVars, CalendarInv, CalendarTypeOK, Adding, Counting, Seeking, AnswersAreExact,
     AddIsExact, BetweenCounts, NextIsFirst, Over, InHours, WorkingTicks, Earlier
<1>. QED
  BY <1>1, NextAddStart, NextAddSkip, NextAddWithinDay, NextAddWholeDay, NextDayOfAdd,
     NextBetweenStart, NextBetweenDay, NextBetweenEnd, NextNextStart, NextNextSkip
  DEF CalendarNext, Step, Returned, AddFreeDay

(* The answers are exact: for every calendar, however many free days are   *)
(* in a row, and every datetime and amount, counted in ticks.              *)
THEOREM CalendarAnswersExactly == CalendarSpec => []AnswersAreExact
<1>1. CalendarInv => AnswersAreExact
  BY DEF CalendarInv
<1>. QED  BY <1>1, InitCalendar, NextCalendar, PTL DEF CalendarSpec
=============================================================================
