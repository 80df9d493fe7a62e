--------------------------- MODULE MCGraphRuntime ---------------------------
(***************************************************************************)
(* The graphs on which TLC runs GraphRuntime.  Five nodes suffice for a    *)
(* diamond behind an entry node, for a fallback with a successor, and for  *)
(* a cycle; each graph exercises one group of the hazards.                 *)
(***************************************************************************)
EXTENDS GraphRuntime, TLC

CONSTANTS a, b, c, d, e, yes, no

MCNode == {a, b, c, d, e}
MCVal  == {yes, no}

Plain(n) == [src |-> n, policy |-> "FAIL_FAST", fallback |-> None, retries |-> 0,
             fires |-> Output, condRaises |-> {}, xformRaises |-> {}]

OnlyIf(n, vals)   == [Plain(n) EXCEPT !.fires = vals]
Retrying(n, k)    == [Plain(n) EXCEPT !.policy = "RETRY", !.retries = k]
Skipping(n)       == [Plain(n) EXCEPT !.policy = "SKIP"]
FallingTo(n, f)   == [Plain(n) EXCEPT !.policy = "FALLBACK", !.fallback = f]

\* lambda o: o.data["x"] > 3 raises when the source was skipped.
NeedsData(n)      == [Plain(n) EXCEPT !.fires = {yes}, !.condRaises = {None}]
ChokesOn(n, vals) == [Plain(n) EXCEPT !.xformRaises = vals]

GraphOf(entry, exit, in) ==
  [entry |-> entry, exit |-> exit,
   in |-> [n \in MCNode |-> IF n \in DOMAIN in THEN in[n] ELSE << >>]]

\* a -> (b skipped or not, c only on yes) -> d joins -> e.  The policy of d is that
\* of the edge from b, which may not be the one that fires.
Diamond == GraphOf({a}, {e},
  (b :> <<Skipping(a)>>) @@ (c :> <<OnlyIf(a, {yes})>>) @@
  (d :> <<[ChokesOn(b, {None}) EXCEPT !.fires = {yes}, !.policy = "SKIP"], Plain(c)>>) @@
  (e :> <<Retrying(d, 1)>>))

\* b falls back to d, whose own successor is e; beside b, c may not even start.
Detour == GraphOf({a}, {},
  (b :> <<FallingTo(a, d)>>) @@ (c :> <<ChokesOn(a, {no})>>) @@ (e :> <<Plain(d)>>))

\* A chain through all nodes: the longest run.
Chain == GraphOf({a}, {e},
  (b :> <<Skipping(a)>>) @@ (c :> <<NeedsData(b)>>) @@
  (d :> <<Plain(c)>>) @@ (e :> <<Plain(d)>>))

\* a -> b -> c -> a, and two more entry nodes.
Cycle == GraphOf({a, d, e}, {c},
  (a :> <<FallingTo(c, None)>>) @@ (b :> <<Plain(a)>>) @@ (c :> <<Retrying(b, 1), Plain(d)>>))

\* Four tasks compete for the semaphore; the fallback of b is the end of the graph.
FanOut == GraphOf({a, b, c, d}, {e},
  (b :> <<FallingTo(a, e)>>) @@ (c :> <<Skipping(a)>>) @@ (d :> <<Retrying(a, 0)>>))

\* b and c share the fallback d, which is also an ordinary node of the graph
\* and falls back to e: the properties about exclusive fallbacks exempt it.
Shared == GraphOf({a, b}, {e},
  (c :> <<FallingTo(a, d)>>) @@ (b :> <<FallingTo(a, d)>>) @@
  (d :> <<[FallingTo(b, e) EXCEPT !.xformRaises = {None}]>>) @@ (e :> <<Plain(d)>>))

AllGraphs == {Diamond, Detour, Chain, Cycle, FanOut, Shared}
=============================================================================
