------------------------------- MODULE EventBus -------------------------------
(***************************************************************************)
(* InMemoryEventBus and the SignalNodes that use it.  publish() awaits the *)
(* handlers of its topic one after the other, on a copy of the list that   *)
(* it took when it was called; meanwhile others subscribe, unsubscribe and *)
(* publish.  Handlers of SignalNodes and of request() only set a future;   *)
(* the application's handlers (listeners) await whatever they like, may    *)
(* raise, and answer requests when they like, even after returning.        *)
(***************************************************************************)
EXTENDS Naturals, Sequences, Lists

CONSTANTS
  Thrower,   \* SignalNodes in THROW mode
  Catcher,   \* SignalNodes in CATCH mode
  Timed,     \* the catchers with a timeout_seconds; the default is none
  Requester, \* calls of request()
  Listener,  \* handlers of the application, for signals and for requests
  Addr,      \* the values of id(result_future)
  Casts,     \* the casts of the scenes: who may call the bus, out of all these
  NoValue    \* no result yet: a future that is not done

Publisher == Thrower \cup Requester
Waiter    == Catcher \cup Requester
Handler   == Waiter \cup Listener
Topic     == {"signal", "request"} \cup Addr

ASSUME BusAssumption ==
  /\ Timed \subseteq Catcher
  /\ Thrower \cap Handler = {}
  /\ Catcher \cap Requester = {}
  /\ Waiter \cap Listener = {}
  /\ {"signal", "request"} \cap Addr = {}
  /\ NoValue \notin Publisher \cup Addr
  /\ Casts \subseteq SUBSET (Publisher \cup Catcher)

VARIABLES
  cast,     \* the throwers, catchers and requesters of this scene (never changes)
  handlers, \* handlers[t]: _handlers[t]
  phase,    \* phase[x]: where a thrower, catcher or requester is
  snapshot, \* snapshot[p]: the copy of the list that publish() iterates
  called,   \* called[p]: how many of its handlers have been called
  busy,     \* busy[p]: the handler called last has not returned yet
  future,   \* future[w]: the publisher whose event the waiter's future got
  addr,     \* addr[q]: id(result_future), part of q's reply topic
  owed      \* the requests that a listener has yet to answer

busVars == <<cast, handlers, phase, snapshot, called, busy, future, addr, owed>>

Ended == {"done", "timedout", "raised"}

BusTypeOK ==
  /\ cast \in Casts
  /\ handlers \in [Topic -> Seq(Handler)]
  /\ phase \in [Publisher \cup Catcher -> {"idle", "publishing", "waiting"} \cup Ended]
  /\ snapshot \in [Publisher -> Seq(Handler)]
  /\ called \in [Publisher -> Nat]
  /\ busy \in [Publisher -> BOOLEAN]
  /\ future \in [Waiter -> Publisher \cup {NoValue}]
  /\ addr \in [Requester -> Addr \cup {NoValue}]
  /\ owed \subseteq Requester

BusInit ==
  /\ cast \in Casts
  /\ handlers = [t \in Topic |-> << >>]
  /\ phase = [x \in Publisher \cup Catcher |-> "idle"]
  /\ snapshot = [p \in Publisher |-> << >>]
  /\ called = [p \in Publisher |-> 0]
  /\ busy = [p \in Publisher |-> FALSE]
  /\ future = [w \in Waiter |-> NoValue]
  /\ addr = [q \in Requester |-> NoValue]
  /\ owed = {}

-----------------------------------------------------------------------------
(* subscribe() and unsubscribe().                                          *)

Elements(s) == {s[i] : i \in DOMAIN s}

Subscribe(h, t) == handlers' = [handlers EXCEPT ![t] = Append(@, h)]

\* Wrong on purpose: forgets about it.
LeaveSubscribed(h, t) == handlers' = handlers

Unsubscribe(h, t) ==
  handlers' = [handlers EXCEPT ![t] = Keep(@, Handler \ {h})]

\* The application registers each of its handlers once.
Listen(l, t) ==
  /\ l \notin Elements(handlers[t])
  /\ Subscribe(l, t)
  /\ UNCHANGED <<cast, phase, snapshot, called, busy, future, addr, owed>>

StopListening(l, t) ==
  /\ l \in Elements(handlers[t])
  /\ Unsubscribe(l, t)
  /\ UNCHANGED <<cast, phase, snapshot, called, busy, future, addr, owed>>

-----------------------------------------------------------------------------
(* publish()                                                               *)

TopicOf(p) == IF p \in Thrower THEN "signal" ELSE "request"

\* Wrong on purpose: iterates the list that others are changing.
LiveList(p) == handlers[TopicOf(p)]

CalledList(p) == snapshot[p]

BeginPublish(p) ==
  /\ phase' = [phase EXCEPT ![p] = "publishing"]
  /\ snapshot' = [snapshot EXCEPT ![p] = handlers[TopicOf(p)]]

Throw(p) ==
  /\ p \in cast
  /\ phase[p] = "idle"
  /\ BeginPublish(p)
  /\ UNCHANGED <<cast, handlers, called, busy, future, addr, owed>>

MayCall(p) == phase[p] = "publishing" /\ ~busy[p] /\ called[p] < Len(CalledList(p))

NextHandler(p) == CalledList(p)[called[p] + 1]

\* if not fut.done(): a future is also done once wait_for has cancelled it.
SetResult(w, p) ==
  future' = IF future[w] = NoValue /\ phase[w] # "timedout"
              THEN [future EXCEPT ![w] = p]
              ELSE future

WakeCatcher(p) ==
  /\ MayCall(p)
  /\ NextHandler(p) \in Catcher
  /\ SetResult(NextHandler(p), p)
  /\ called' = [called EXCEPT ![p] = @ + 1]
  /\ UNCHANGED <<cast, handlers, phase, snapshot, busy, addr, owed>>

EnterListener(p) ==
  /\ MayCall(p)
  /\ NextHandler(p) \in Listener
  /\ called' = [called EXCEPT ![p] = @ + 1]
  /\ busy' = [busy EXCEPT ![p] = TRUE]
  /\ owed' = owed \cup ({p} \cap Requester)
  /\ UNCHANGED <<cast, handlers, phase, snapshot, future, addr>>

ListenerReturns(p) ==
  /\ busy[p]
  /\ busy' = [busy EXCEPT ![p] = FALSE]
  /\ UNCHANGED <<cast, handlers, phase, snapshot, called, future, addr, owed>>

\* publish() has no try: the handlers after this one are not called, and
\* request() has not reached its own try, so its reply handler stays.
ListenerRaises(p) ==
  /\ busy[p]
  /\ busy' = [busy EXCEPT ![p] = FALSE]
  /\ phase' = [phase EXCEPT ![p] = "raised"]
  /\ UNCHANGED <<cast, handlers, snapshot, called, future, addr, owed>>

EndPublish(p) ==
  /\ phase[p] = "publishing"
  /\ ~busy[p]
  /\ called[p] >= Len(CalledList(p))
  /\ phase' = [phase EXCEPT ![p] = IF p \in Thrower THEN "done" ELSE "waiting"]
  /\ UNCHANGED <<cast, handlers, snapshot, called, busy, future, addr, owed>>

-----------------------------------------------------------------------------
(* SignalNode in CATCH mode.                                               *)

Catch(c) ==
  /\ c \in cast
  /\ phase[c] = "idle"
  /\ phase' = [phase EXCEPT ![c] = "waiting"]
  /\ Subscribe(c, "signal")
  /\ UNCHANGED <<cast, snapshot, called, busy, future, addr, owed>>

Caught(c) ==
  /\ phase[c] = "waiting"
  /\ future[c] # NoValue
  /\ phase' = [phase EXCEPT ![c] = "done"]
  /\ Unsubscribe(c, "signal")
  /\ UNCHANGED <<cast, snapshot, called, busy, future, addr, owed>>

CatchTimesOut(c) ==
  /\ c \in Timed
  /\ phase[c] = "waiting"
  /\ future[c] = NoValue
  /\ phase' = [phase EXCEPT ![c] = "timedout"]
  /\ Unsubscribe(c, "signal")
  /\ UNCHANGED <<cast, snapshot, called, busy, future, addr, owed>>

-----------------------------------------------------------------------------
(* request()                                                               *)

\* A future is alive while its request runs or its handler is subscribed;
\* the id of a dead one may come back.
Alive(q) == phase[q] \in {"publishing", "waiting"} \/ (addr[q] # NoValue /\ q \in Elements(handlers[addr[q]]))

\* Wrong on purpose: a reply topic that does not tell requests apart.
RequestOnAnyTopic(q, a) ==
  /\ q \in cast
  /\ phase[q] = "idle"
  /\ addr' = [addr EXCEPT ![q] = a]
  /\ Subscribe(q, a)
  /\ BeginPublish(q)
  /\ UNCHANGED <<cast, called, busy, future, owed>>

Request(q, a) ==
  /\ q \in cast
  /\ phase[q] = "idle"
  /\ \A x \in Requester : Alive(x) => addr[x] # a
  /\ addr' = [addr EXCEPT ![q] = a]
  /\ Subscribe(q, a)
  /\ BeginPublish(q)
  /\ UNCHANGED <<cast, called, busy, future, owed>>

\* A listener publishes its reply to q's event on the reply topic of q.
Reply(q) ==
  /\ q \in owed
  /\ owed' = owed \ {q}
  /\ IF handlers[addr[q]] = << >>
       THEN UNCHANGED future
       ELSE SetResult(handlers[addr[q]][1], q)
  /\ UNCHANGED <<cast, handlers, phase, snapshot, called, busy, addr>>

\* The timeout of request() runs only from here.
Replied(q) ==
  /\ phase[q] = "waiting"
  /\ future[q] # NoValue
  /\ phase' = [phase EXCEPT ![q] = "done"]
  /\ Unsubscribe(q, addr[q])
  /\ UNCHANGED <<cast, snapshot, called, busy, future, addr, owed>>

\* Wrong on purpose: the timer starts when somebody has got the request.
RequestTimesOutOnceHeard(q) ==
  /\ phase[q] = "waiting"
  /\ future[q] = NoValue
  /\ q \in owed
  /\ phase' = [phase EXCEPT ![q] = "timedout"]
  /\ Unsubscribe(q, addr[q])
  /\ UNCHANGED <<cast, snapshot, called, busy, future, addr, owed>>

RequestTimesOut(q) ==
  /\ phase[q] = "waiting"
  /\ future[q] = NoValue
  /\ phase' = [phase EXCEPT ![q] = "timedout"]
  /\ Unsubscribe(q, addr[q])
  /\ UNCHANGED <<cast, snapshot, called, busy, future, addr, owed>>

-----------------------------------------------------------------------------
PublishStep(p) ==
  \/ WakeCatcher(p)
  \/ EnterListener(p)
  \/ ListenerReturns(p)
  \/ EndPublish(p)

CatcherStep(c) == Caught(c) \/ CatchTimesOut(c)

RequestStep(q) == Replied(q) \/ RequestTimesOut(q)

BusNext ==
  \/ \E l \in Listener, t \in {"signal", "request"} : Listen(l, t) \/ StopListening(l, t)
  \/ \E p \in Thrower : Throw(p)
  \/ \E p \in Publisher : PublishStep(p) \/ ListenerRaises(p)
  \/ \E c \in Catcher : Catch(c) \/ CatcherStep(c)
  \/ \E q \in Requester, a \in Addr : Request(q, a)
  \/ \E q \in Requester : Reply(q) \/ RequestStep(q)

BusSpec == BusInit /\ [][BusNext]_busVars

\* asyncio resumes what can go on, timers fire, and listeners return.  Nobody
\* has to throw, to catch, or to answer.
BusFairSpec ==
  /\ BusSpec
  /\ \A p \in Publisher : WF_busVars(PublishStep(p))
  /\ \A c \in Catcher : WF_busVars(CatcherStep(c))
  /\ \A q \in Requester : WF_busVars(RequestStep(q))

-----------------------------------------------------------------------------
(***************************************************************************)
(* A signal that was published without an error has woken every catcher    *)
(* that was subscribed when publish() began, even if handlers came and     *)
(* went while earlier ones were awaited: nobody still waits for it.        *)
(***************************************************************************)
SignalReachesAll ==
  \A p \in Thrower : phase[p] = "done" =>
    \A c \in Catcher \cap Elements(snapshot[p]) :
      phase[c] = "waiting" => future[c] # NoValue

(***************************************************************************)
(* Who has stopped waiting, caught, answered or timed out, is no longer    *)
(* subscribed to anything, whatever order the wake-up, the timeout and the *)
(* end of publish() come in.  A request whose publish() raised is none of  *)
(* these: request() is not yet in its try, and its reply handler stays.    *)
(***************************************************************************)
NoHandlerLeftBehind ==
  \A t \in Topic : \A w \in Waiter \cap Elements(handlers[t]) :
    phase[w] \notin {"done", "timedout"}

(***************************************************************************)
(* Answers go astray only late.  The reply topic is named after the id of  *)
(* a future, and ids come back: what a request takes for its answer is a   *)
(* reply to its own event, or one to an earlier request of the same id     *)
(* that had got its answer or given up.  It is never one to a request that *)
(* still waits, nor to one that raised: its handler, which stays           *)
(* subscribed, keeps the future and its id in use.                         *)
(***************************************************************************)
StrayRepliesComeLate ==
  \A q \in Requester : future[q] \notin {NoValue, q} =>
    phase[future[q]] \in {"done", "timedout"} /\ addr[future[q]] = addr[q]

(***************************************************************************)
(* Nobody with a timeout waits forever, nor does a request() whose         *)
(* listeners return.                                                       *)
(***************************************************************************)
WaitingEnds ==
  /\ \A c \in Timed : phase[c] = "waiting" ~> phase[c] \in Ended
  /\ \A q \in Requester : phase[q] = "publishing" ~> phase[q] \in Ended

-----------------------------------------------------------------------------
(* What the documentation says and the code does not do.                   *)

(***************************************************************************)
(* "Publish an event and wait for a response": what request() returns is a *)
(* response to its event.                                                  *)
(***************************************************************************)
ResponseIsToTheEvent == \A q \in Requester : future[q] \in {NoValue, q}

(***************************************************************************)
(* request() unsubscribes its reply handler in a finally, so that a call   *)
(* that is over has none.                                                  *)
(***************************************************************************)
NoRequestLeavesAHandler ==
  \A q \in Requester : phase[q] \in Ended => \A t \in Topic : q \notin Elements(handlers[t])
=============================================================================
