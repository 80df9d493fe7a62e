----------------------------- MODULE MCPipeline -----------------------------
(* Chains of up to four nodes, one or two calls on the runtime.            *)
EXTENDS Pipeline, TLC

CONSTANTS c1, c2, a1, a2, a3

Under(kind, policy) == [Plain(kind) EXCEPT !.policy = policy, !.retries = 1]
If(stage)           == [stage EXCEPT !.condition = TRUE]
Through(stage)      == [stage EXCEPT !.transform = TRUE]

\* The actions are there for a CompensationNode only.
Undo(pipe) == IF \E i \in DOMAIN pipe : pipe[i].kind = "compensation" THEN <<a2, a1>> ELSE << >>

Made(pipe, input, one, two, again) ==
  [pipe |-> pipe, input |-> input, calls |-> c1 :> one @@ c2 :> two, undo |-> Undo(pipe),
   resumes |-> again, auditFails |-> FALSE]

Unaudited(s) == [s EXCEPT !.auditFails = TRUE]

Sole(pipe, input) == Made(pipe, input, "stream", "none", 1)

Both(pipe, one, two) == Made(pipe, "text", one, two, 0)

Everything ==
  {Sole(ResearchPipeline, "text"),
   Sole(<<Plain("human"), Plain("tool")>>, "text"),
   Sole(<<Plain("decision"), Plain("gateway"), Plain("delay")>>, "dict"),
   Sole(<<Plain("trigger"), Under("form", "FALLBACK"), If(Plain("router"))>>, "form"),
   Sole(<<Plain("tool"), Under("compensation", "RETRY")>>, "text"),
   Both(<<Plain("delay")>>, "stream", "stream"),
   Both(<<Plain("trigger"), If(Plain("router"))>>, "run", "stream"),
   Both(<<Plain("compensation")>>, "run", "run")}
    \cup {Sole(<<Plain("trigger"), Through(Under("tool", p))>>, "text") : p \in Policy}
    \cup {Unaudited(Sole(<<Plain("tool"), Under("form", p)>>, "form")) : p \in Policy}
    \cup {Sole(<<Plain("subgraph"), Under(k, p)>>, "dict") :
            k \in {"agent", "timer", "human", "loop"}, p \in Policy}

HumanInTheLoop == {Sole(<<Plain("human"), Plain("tool")>>, "text")}
=============================================================================
