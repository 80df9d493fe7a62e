----------------------------- MODULE NodeBodies -----------------------------
(***************************************************************************)
(* What the node types of suluv.core.engine do in execute(), as far as the *)
(* executor and the runtime can tell: the set of ways an execution on a    *)
(* given input may end.  Data is abstracted to its shape.  Three bodies    *)
(* act in several steps (HumanNode, LoopNode, CompensationNode); their     *)
(* steps are actions of the module Pipeline, their ends are here.          *)
(***************************************************************************)
EXTENDS Naturals, Sequences

CONSTANTS
  None,  \* Python's None
  Tokens \* the token counts a run of an agent may report

ASSUME NodeBodiesAssumption ==
  /\ Tokens \subseteq Nat
  /\ None \notin {"text", "dict", "form", "marker", "answer", "child"}

\* A string, a dict, a dict with a _form_response, the marker a HumanNode
\* returns while its task is pending, the human's answer, an ExecutionResult.
Data == {"text", "dict", "form", "marker", "answer", "child", None}

IsDict(d) == d \in {"dict", "form", "marker", "answer"}

Kind == {"trigger", "tool", "agent", "router", "gateway", "delay", "timer",
         "decision", "form", "subgraph", "human", "loop", "compensation"}

\* The NodeOutput returned, with metadata["tokens"], or the exception raised.
Outcome == [end : {"ok", "failed", "raised"}, data : Data, tokens : Nat]

Ok(d)     == [end |-> "ok", data |-> d, tokens |-> 0]
Failed(d) == [end |-> "failed", data |-> d, tokens |-> 0]
Raised    == [end |-> "raised", data |-> None, tokens |-> 0]

TriggerBody(d) == {Ok(d)}

\* A condition that raises does not match; without a match, the default.
RouterBody(d) == {Ok("text")}

\* func's exceptions become a returned failure.
ToolBody(d) == {Ok(v) : v \in {"text", "dict", None}} \cup {Failed(None)}

\* AgentNode returns what SuluvAgent.run reports, and lets its exceptions through.
AgentBody(d) ==
  {[end |-> e, data |-> "dict", tokens |-> t] : e \in {"ok", "failed"}, t \in Tokens}
    \cup {[Raised EXCEPT !.tokens = t] : t \in Tokens}

\* Behind a single edge the gateway counts the entries of that one output:
\* enough of them, with "first" or not, or too few, which is a success too.
GatewayBody(d) ==
  IF IsDict(d) THEN {Ok("dict"), Ok("text"), Ok(None)} ELSE {Ok(None)}

\* float() of the entry under delay_key may raise.
DelayBody(d) == IF IsDict(d) THEN {Ok(d), Raised} ELSE {Ok(d)}

\* The calendar may raise, and so may the arithmetic on a naive deadline.
TimerBody(d) == {Ok(d), Raised}

DecisionBody(d) == {Ok("dict"), Failed(None), Raised}

\* A filled form is validated.  An empty one never becomes a task: HumanTask
\* has neither the assignee nor the payload it is given, which is a TypeError.
FormBody(d) == IF d = "form" THEN {Ok("dict"), Failed("dict")} ELSE {Failed(None), Raised}

\* Whatever the child graph reports, its ExecutionResult is a success here.
SubgraphBody(d) == {Ok("child"), Failed(None), Raised}

\* Bodies that end where they begin, without a step for others in between
\* that matters to anything modelled.
Bodies(kind, d) ==
  CASE kind = "trigger"  -> TriggerBody(d)
    [] kind = "router"   -> RouterBody(d)
    [] kind = "tool"     -> ToolBody(d)
    [] kind = "agent"    -> AgentBody(d)
    [] kind = "gateway"  -> GatewayBody(d)
    [] kind = "delay"    -> DelayBody(d)
    [] kind = "timer"    -> TimerBody(d)
    [] kind = "decision" -> DecisionBody(d)
    [] kind = "form"     -> FormBody(d)
    [] kind = "subgraph" -> SubgraphBody(d)
    [] OTHER             -> {}

-----------------------------------------------------------------------------
(* Pipelines: graphs whose nodes form a chain.                             *)

Policy == {"FAIL_FAST", "RETRY", "SKIP", "FALLBACK"}

\* A node, and the edge into it: its error policy, its max_retries, whether
\* it has a condition and whether it has a task_transform.
Stage == [kind : Kind, policy : Policy, retries : Nat, condition : BOOLEAN, transform : BOOLEAN]

Plain(kind) ==
  [kind |-> kind, policy |-> "FAIL_FAST", retries |-> 3, condition |-> FALSE, transform |-> FALSE]

\* The graph of examples/graph_engine.py.
ResearchPipeline == <<Plain("agent"), Plain("tool"), Plain("agent"), Plain("tool")>>
=============================================================================
