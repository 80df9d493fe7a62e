------------------------------ MODULE MemoryTiers ------------------------------
(***************************************************************************)
(* MemoryManager over its tiers: runs of an agent load what they remember  *)
(* at their start and save their interaction at their end, and await every *)
(* call of a tier.  The three tiers that runs write to are shared by all   *)
(* of them; they keep what the in-memory ones keep, and let other runs go  *)
(* on during a call, as any store behind the same ports may.               *)
(*                                                                         *)
(* An interaction is saved under a fresh key and is told by the run that   *)
(* saved it; a dict or list is the sequence of its keys in the order of    *)
(* insertion.                                                              *)
(***************************************************************************)
EXTENDS Integers, Sequences, SequencesExt, Lists

CONSTANTS
  Runs,
  ThreadOf,    \* ctx.thread_id, ctx.session_id and ctx.user_id of each run
  SessionOf,
  UserOf,
  None,
  Within,      \* <<i, o>>: the id i is o followed by ':' and something else
  Tiers,       \* which of the tiers the manager has
  MaxEntries

Scopes == {ThreadOf[r] : r \in Runs} \cup {SessionOf[r] : r \in Runs}
Users == {UserOf[r] : r \in Runs} \ {None}

ASSUME MemoryAssumption ==
  /\ None \notin Runs
  /\ DOMAIN ThreadOf = Runs /\ DOMAIN SessionOf = Runs /\ DOMAIN UserOf = Runs
  /\ Tiers \subseteq {"short", "long", "episodic"}
  /\ MaxEntries \in Nat \ {0}
  /\ Within \subseteq Scopes \X Scopes

VARIABLES
  short,     \* InMemoryShortTermMemory._store
  long,      \* InMemoryLongTermMemory._store, per user
  episodes,  \* InMemoryEpisodicMemory._episodes
  pc,
  keys,      \* load_context: the keys still to be read
  context,   \* what load_context returns
  listed,    \* history: what list_keys() returned
  earlier,   \* history: the interactions that were saved when the run began
  removed    \* history: what was removed from short and from long

memoryVars == <<short, long, episodes, pc, keys, context, listed, earlier, removed>>

MemoryTypeOK ==
  /\ short \in Seq(Runs) /\ episodes \in Seq(Runs)
  /\ long \in [Users -> Seq(Runs)]
  /\ pc \in [Runs -> {"idle", "short", "long", "get", "recall", "working",
                      "setShort", "setLong", "store", "done", "failed"}]
  /\ keys \in [Runs -> Seq(Runs)] /\ listed \in [Runs -> Seq(Runs)]
  /\ context \in [Runs -> [short : Seq(Runs), long : Seq(Runs), episodic : Seq(Runs)]]
  /\ earlier \in [Runs -> SUBSET Runs]
  /\ removed \in [{"short", "long"} -> SUBSET Runs]

Nothing == [short |-> <<>>, long |-> <<>>, episodic |-> <<>>]

MemoryInit ==
  /\ short = <<>> /\ episodes = <<>>
  /\ long = [u \in Users |-> <<>>]
  /\ pc = [r \in Runs |-> "idle"]
  /\ keys = [r \in Runs |-> <<>>] /\ listed = [r \in Runs |-> <<>>]
  /\ context = [r \in Runs |-> Nothing]
  /\ earlier = [r \in Runs |-> {}]
  /\ removed = [t \in {"short", "long"} |-> {}]

Goto(r, label) == pc' = [pc EXCEPT ![r] = label]
Seen(r, tier, s) == context' = [context EXCEPT ![r][tier] = s]

\* scope_key = thread_id or session_id, in load_context.
LoadScope(r) == IF ThreadOf[r] # None THEN ThreadOf[r] ELSE SessionOf[r]

\* Wrong on purpose: the session comes first.
SaveScopeBySession(r) == IF SessionOf[r] # None THEN SessionOf[r] ELSE ThreadOf[r]

\* The same in save_interaction, for the key.
SaveScope(r) == IF ThreadOf[r] # None THEN ThreadOf[r] ELSE SessionOf[r]

\* Keys that start with "t:{scope}:" are those of the scope, and of the ids
\* that go on after a colon.
InScope(q, scope) == SaveScope(q) = scope \/ <<SaveScope(q), scope>> \in Within

-----------------------------------------------------------------------------
(* load_context.                                                           *)

Begin(r) ==
  /\ pc[r] = "idle"
  /\ Goto(r, "short")
  /\ earlier' = [earlier EXCEPT ![r] = {q \in Runs : pc[q] = "done"}]
  /\ UNCHANGED <<short, long, episodes, keys, context, listed, removed>>

\* short_term.all(), and all of it when the scope has nothing.
LoadShort(r) ==
  /\ pc[r] = "short"
  /\ IF "short" \in Tiers /\ LoadScope(r) # None
       THEN LET scoped == Keep(short, {q \in Runs : InScope(q, LoadScope(r))})
            IN  Seen(r, "short", IF scoped # <<>> THEN scoped ELSE short)
       ELSE UNCHANGED context
  /\ Goto(r, "long")
  /\ UNCHANGED <<short, long, episodes, keys, listed, earlier, removed>>

FirstOf(s) == IF Len(s) <= MaxEntries THEN s ELSE SubSeq(s, 1, MaxEntries)

ListKeys(r) ==
  /\ pc[r] = "long"
  /\ IF "long" \in Tiers /\ UserOf[r] # None
       THEN /\ keys' = [keys EXCEPT ![r] = FirstOf(long[UserOf[r]])]
            /\ listed' = [listed EXCEPT ![r] = long[UserOf[r]]]
       ELSE UNCHANGED <<keys, listed>>
  /\ Goto(r, "get")
  /\ UNCHANGED <<short, long, episodes, context, earlier, removed>>

\* long_term.get(): a key that was deleted since is passed over.
GetKey(r) ==
  /\ pc[r] = "get" /\ keys[r] # <<>>
  /\ LET q == Head(keys[r])
     IN  IF q \in ToSet(long[UserOf[r]])
           THEN Seen(r, "long", Append(context[r].long, q))
           ELSE UNCHANGED context
  /\ keys' = [keys EXCEPT ![r] = Tail(keys[r])]
  /\ UNCHANGED <<short, long, episodes, pc, listed, earlier, removed>>

KeysEnd(r) ==
  /\ pc[r] = "get" /\ keys[r] = <<>>
  /\ Goto(r, "recall")
  /\ UNCHANGED <<short, long, episodes, keys, context, listed, earlier, removed>>

\* reversed(self._episodes[-limit:])
RecallOf(s) == Reverse(IF Len(s) <= MaxEntries THEN s ELSE SubSeq(s, Len(s) - MaxEntries + 1, Len(s)))

Recall(r) ==
  /\ pc[r] = "recall"
  /\ IF "episodic" \in Tiers
       THEN Seen(r, "episodic", RecallOf(episodes))
       ELSE UNCHANGED context
  /\ Goto(r, "working")
  /\ UNCHANGED <<short, long, episodes, keys, listed, earlier, removed>>

-----------------------------------------------------------------------------
(* save_interaction, at the end of the run.                                *)

AnswerFound(r) ==
  /\ pc[r] = "working"
  /\ Goto(r, "setShort")
  /\ UNCHANGED <<short, long, episodes, keys, context, listed, earlier, removed>>

SetShort(r) ==
  /\ pc[r] = "setShort"
  /\ short' = IF "short" \in Tiers /\ SaveScope(r) # None THEN Append(short, r) ELSE short
  /\ Goto(r, "setLong")
  /\ UNCHANGED <<long, episodes, keys, context, listed, earlier, removed>>

SetLong(r) ==
  /\ pc[r] = "setLong"
  /\ long' = IF "long" \in Tiers /\ UserOf[r] # None
               THEN [long EXCEPT ![UserOf[r]] = Append(@, r)] ELSE long
  /\ Goto(r, "store")
  /\ UNCHANGED <<short, episodes, keys, context, listed, earlier, removed>>

\* Wrong on purpose: the episode is stored before the long-term entry.
StoreEarly(r) ==
  /\ pc[r] \in {"setLong", "store"}
  /\ episodes' = IF "episodic" \in Tiers THEN Append(episodes, r) ELSE episodes
  /\ Goto(r, "done")
  /\ UNCHANGED <<short, long, keys, context, listed, earlier, removed>>

StoreEpisode(r) ==
  /\ pc[r] = "store"
  /\ episodes' = IF "episodic" \in Tiers THEN Append(episodes, r) ELSE episodes
  /\ Goto(r, "done")
  /\ UNCHANGED <<short, long, keys, context, listed, earlier, removed>>

\* A tier or the run itself raises; what is written stays written.
Fail(r) ==
  /\ pc[r] \notin {"idle", "done", "failed"}
  /\ Goto(r, "failed")
  /\ UNCHANGED <<short, long, episodes, keys, context, listed, earlier, removed>>

-----------------------------------------------------------------------------
(* Others.                                                                 *)

\* clear_session(): the tier of all sessions.
ClearSession ==
  /\ short # <<>>
  /\ short' = <<>>
  /\ removed' = [removed EXCEPT !["short"] = @ \cup ToSet(short)]
  /\ UNCHANGED <<long, episodes, pc, keys, context, listed, earlier>>

Delete(u, q) ==
  /\ q \in ToSet(long[u])
  /\ long' = [long EXCEPT ![u] = Keep(@, Runs \ {q})]
  /\ removed' = [removed EXCEPT !["long"] = @ \cup {q}]
  /\ UNCHANGED <<short, episodes, pc, keys, context, listed, earlier>>

MemoryNext ==
  \/ \E r \in Runs :
       \/ Begin(r) \/ LoadShort(r) \/ ListKeys(r) \/ GetKey(r) \/ KeysEnd(r) \/ Recall(r)
       \/ AnswerFound(r) \/ SetShort(r) \/ SetLong(r) \/ StoreEpisode(r)
       \/ Fail(r)
  \/ ClearSession
  \/ \E u \in Users, q \in Runs : Delete(u, q)

MemorySpec == MemoryInit /\ [][MemoryNext]_memoryVars

-----------------------------------------------------------------------------
InShort(q) == "short" \notin Tiers \/ SaveScope(q) = None \/ q \in ToSet(short) \cup removed["short"]
InLong(q) == "long" \notin Tiers \/ UserOf[q] = None \/ q \in ToSet(long[UserOf[q]]) \cup removed["long"]

(* An interaction reaches the tiers in one order, so that a failure half   *)
(* way leaves a prefix of it: what is an episode is, or was until somebody *)
(* removed it, in the long-term memory of its user too, and in short-term  *)
(* memory (save_interaction).                                              *)
SavesAreAPrefix ==
  /\ \A q \in ToSet(episodes) : InLong(q) /\ InShort(q)
  /\ \A u \in Users : \A q \in ToSet(long[u]) : UserOf[q] = u /\ InShort(q)

Loaded(r) == pc[r] \in {"working", "setShort", "setLong", "store", "done"}

Before(a, b, s) == \E i, j \in DOMAIN s : i < j /\ s[i] = a /\ s[j] = b
AllAfter(told, q, s) == Len(told) = MaxEntries /\ \A e \in ToSet(told) : Before(q, e, s)

\* MaxEntries older keys were listed before that of q.
CutOff(q, s) == \E j \in DOMAIN s : s[j] = q /\ j > MaxEntries

(* A run remembers its own past: of every run that had ended well before   *)
(* it began it is told by short-term memory, if they have the thread (or   *)
(* the session) in common and that entry itself was not cleared; by        *)
(* long-term memory, if they have the user in common and that entry itself *)
(* was not deleted, unless MaxEntries older keys were listed before it; by *)
(* the episodes, unless MaxEntries newer ones take all the room.  That     *)
(* other keys are deleted between the list and their get() takes nothing   *)
(* else away, and long-term memory tells of no other user (load_context).  *)
OwnPastIsLoaded ==
  \A r \in Runs : Loaded(r) =>
    /\ \A q \in ToSet(context[r].long) : UserOf[q] = UserOf[r]
    /\ \A q \in earlier[r] :
         /\ "short" \in Tiers /\ LoadScope(r) # None /\ LoadScope(q) = LoadScope(r) =>
              q \in ToSet(context[r].short) \cup removed["short"]
         /\ "long" \in Tiers /\ UserOf[r] # None /\ UserOf[q] = UserOf[r] =>
              q \in ToSet(context[r].long) \cup removed["long"] \/ CutOff(q, listed[r])
         /\ "episodic" \in Tiers =>
              q \in ToSet(context[r].episodic) \/ AllAfter(context[r].episodic, q, episodes)
=============================================================================
