----------------------------- MODULE ModelCall ------------------------------
(***************************************************************************)
(* A conversation with models, message by message: who adds to it, what of *)
(* it each provider is sent, and who is asked first.  It is held either    *)
(* by a SuluvAgent, whose runs on one thread go through the GuardrailChain *)
(* and talk to the model in texts, or by a client of the LLMBackend port,  *)
(* which uses the providers' tool calls and a PolicyEngine before it runs  *)
(* a tool (its side is what the port and the engine expect of a caller).   *)
(* Every turn may go to another provider; a thread outlives the backend.   *)
(*                                                                         *)
(* Turns are made one after the other (AgentThread has concurrent ones,    *)
(* the output check and the rest of SuluvAgent.run); what happens between  *)
(* two awaits is a step, so guardrails and rules are added in between.     *)
(***************************************************************************)
EXTENDS Providers

CONSTANTS
  Scenarios, \* see Scenario
  MaxSteps,  \* role.max_steps; as many replies of a turn may call tools
  MaxChain,  \* bound: guardrails or policy rules
  MaxFails   \* bound: calls of a provider that raise

\* A client that runs several tools puts their results into one message
\* each, or all together.
Scenario == [style    : {"agent", "client"},
             backends : Seq(Provider),
             results  : {"each", "together"}]

ASSUME ModelCallAssumption ==
  /\ Scenarios \subseteq Scenario
  /\ MaxSteps \in Nat \ {0}
  /\ MaxChain \in Nat
  /\ MaxFails \in Nat

VARIABLES
  scenario, \* never changes
  pc,       \* where the agent or the client is
  turn,     \* the turns so far
  steps,    \* step_num, or the replies of this turn that call tools
  fresh,    \* the numbers given to texts, images and calls so far
  stored,   \* Thread.messages
  messages, \* SuluvPrompt.messages
  calls,    \* the calls of the last reply, as [id, decided]
  chain,    \* the length of GuardrailChain._guardrails or PolicyEngine._rules
  asked,    \* what the first of them said in the check that is going on
  request,  \* history: the last request
  replies,  \* history: what the providers said, unless the turn raised
  verdict,  \* history: how the last check ended
  cleared,  \* history: the texts of users that passed
  fails

talk  == <<turn, steps, fresh, stored, messages, calls>>
check == <<chain, asked, verdict, cleared>>
past  == <<request, replies>>
vars  == <<scenario, pc, talk, check, past, fails>>

Backend == scenario.backends[turn]

GuardrailAction == {"ALLOW", "WARN", "REDACT", "BLOCK"}
PolicyDecision  == {"ALLOW", "ESCALATE", "DENY"}

User(blocks)      == [role |-> "user", content |-> blocks]
Assistant(blocks) == [role |-> "assistant", content |-> blocks]
Tool(blocks)      == [role |-> "tool", content |-> blocks]

SystemMessage == [role |-> "system", content |-> <<Text(1)>>]

\* What was said of a text or call, by how many, and whether it could pass.
Verdict == [said : Seq(GuardrailAction \cup PolicyDecision), chain : Nat, passed : BOOLEAN]

TypeOK ==
  /\ scenario \in Scenarios
  /\ pc \in {"idle", "input", "ready", "asking", "save", "policy"}
  /\ turn \in 0..Len(scenario.backends) /\ steps \in 0..MaxSteps /\ fresh \in Nat
  /\ stored \in Seq(Message) /\ messages \in Seq(Message)
  /\ calls \in Seq([id : Nat, decided : BOOLEAN])
  /\ chain \in 0..MaxChain /\ asked \in Seq(GuardrailAction \cup PolicyDecision)
  /\ verdict \in Verdict /\ cleared \subseteq 1..fresh
  /\ request.to \in Provider /\ request.system \in Seq(Block)
  /\ replies \in Seq([turn : Nat, content : Seq(Block)])
  /\ fails \in 0..MaxFails

Init ==
  /\ scenario \in Scenarios
  /\ pc = "idle"
  /\ turn = 0 /\ steps = 0 /\ fresh = 1
  /\ stored = << >>
  /\ messages = <<SystemMessage>>
  /\ calls = << >>
  /\ chain = 1 /\ asked = << >>
  /\ verdict = [said |-> << >>, chain |-> 1, passed |-> FALSE] /\ cleared = {}
  /\ request = Request("openai", << >>) /\ replies = << >>
  /\ fails = 0

-----------------------------------------------------------------------------
(* Guardrails and policy rules: lists that are evaluated in order, and     *)
(* may grow while one of their members is awaited.                         *)

\* GuardrailChain.add, PolicyEngine.add_rule.
Add ==
  /\ chain < MaxChain
  /\ chain' = chain + 1
  /\ UNCHANGED <<scenario, pc, talk, asked, verdict, cleared, past, fails>>

Final == {"BLOCK", "REDACT", "DENY"}

\* Wrong on purpose: any verdict but ALLOW ends the loop.
DecidedByFirst == Len(asked) = chain \/ (asked # << >> /\ Last(asked) # "ALLOW")

\* The loop is over: an early return, or the end of the list as it is now.
Decided == Len(asked) = chain \/ (asked # << >> /\ Last(asked) \in Final)

Consult ==
  /\ \/ pc = "input"  /\ \E v \in GuardrailAction : asked' = Append(asked, v)
     \/ pc = "policy" /\ \E v \in PolicyDecision  : asked' = Append(asked, v)
  /\ ~Decided
  /\ UNCHANGED <<scenario, pc, talk, chain, verdict, cleared, past, fails>>

Says(v) == v \in Range(asked)

\* PolicyEngine.evaluate.
Combined ==
  CASE Says("DENY")     -> "DENY"
    [] Says("ESCALATE") -> "ESCALATE"
    [] OTHER            -> "ALLOW"

Close(passed) ==
  /\ Decided
  /\ verdict' = [said |-> asked, chain |-> chain, passed |-> passed]
  /\ asked' = << >>
  /\ UNCHANGED chain

-----------------------------------------------------------------------------
(* SuluvAgent.run.                                                         *)

RunAgent ==
  /\ pc = "idle" /\ scenario.style = "agent"
  /\ turn < Len(scenario.backends)
  /\ turn' = turn + 1
  /\ fresh' = fresh + 1
  /\ steps' = 0
  /\ pc' = "input"
  /\ UNCHANGED <<scenario, stored, messages, calls, check, past, fails>>

InputBlocked ==
  /\ pc = "input"
  /\ Close(FALSE)
  /\ Says("BLOCK")
  /\ pc' = "idle"
  /\ UNCHANGED <<scenario, talk, cleared, past, fails>>

\* ALLOW, WARN and REDACT are one: the text goes on as it is.  The prompt is
\* the system message, the thread and the task.
InputPasses ==
  /\ pc = "input"
  /\ Close(TRUE)
  /\ ~Says("BLOCK")
  /\ cleared' = cleared \cup {fresh}
  /\ messages' = <<SystemMessage>> \o Append(stored, User(<<Text(fresh)>>))
  /\ pc' = "ready"
  /\ UNCHANGED <<scenario, turn, steps, fresh, stored, calls, past, fails>>

Heard(content) == replies' = Append(replies, [turn |-> turn, content |-> content])

\* A reply that is no JSON, or has a final answer, or neither a tool.
AgentAnswer ==
  /\ pc = "asking" /\ scenario.style = "agent"
  /\ \E reply \in {<<Text(fresh + 1)>>, << >>} :
       /\ messages' = Append(messages, Assistant(OrNoText(Content(Backend, reply))))
       /\ Heard(reply)
  /\ fresh' = fresh + 1
  /\ pc' = "save"
  /\ UNCHANGED <<scenario, turn, steps, stored, calls, check, request, fails>>

\* A tool is named, known or not: its name is in the text, what it returned
\* is a text of a TOOL message.
AgentAction ==
  /\ pc = "asking" /\ scenario.style = "agent"
  /\ LET reply == <<Text(fresh + 1)>> IN
       /\ messages' = messages \o <<Assistant(Content(Backend, reply)), Tool(<<Text(fresh + 2)>>)>>
       /\ Heard(reply)
  /\ fresh' = fresh + 2
  /\ steps' = steps + 1
  /\ pc' = IF steps' = MaxSteps THEN "save" ELSE "ready"
  /\ UNCHANGED <<scenario, turn, stored, calls, check, request, fails>>

\* Wrong on purpose: all that was sent is appended to the thread.
SaveAll ==
  /\ pc = "save"
  /\ stored' = stored \o Tail(messages)
  /\ pc' = "idle"
  /\ UNCHANGED <<scenario, turn, steps, fresh, messages, calls, check, past, fails>>

\* new_messages, everything behind the system message and the thread, is
\* appended to the thread.
Save ==
  /\ pc = "save"
  /\ stored' = stored \o SubSeq(messages, Len(stored) + 2, Len(messages))
  /\ pc' = "idle"
  /\ UNCHANGED <<scenario, turn, steps, fresh, messages, calls, check, past, fails>>

-----------------------------------------------------------------------------
(* LLMBackend.complete.                                                    *)

Complete ==
  /\ pc = "ready"
  /\ request' = Request(Backend, messages)
  /\ pc' = "asking"
  /\ UNCHANGED <<scenario, talk, check, replies, fails>>

\* The provider's client raises, or json.loads on the arguments of a call.
\* The agent's run is over and its messages are gone; a client tries again
\* or waits for its user.
Raise ==
  /\ pc = "asking"
  /\ fails < MaxFails
  /\ fails' = fails + 1
  /\ IF scenario.style = "agent"
     THEN /\ pc' = "idle"
          /\ replies' = Keep(replies, [turn : Nat \ {turn}, content : Seq(Block)])
     ELSE /\ pc' \in {"idle", "ready"}
          /\ UNCHANGED replies
  /\ UNCHANGED <<scenario, talk, check, request>>

-----------------------------------------------------------------------------
(* A client of the port.                                                   *)

ClientSays ==
  /\ pc = "idle" /\ scenario.style = "client"
  /\ turn < Len(scenario.backends)
  /\ turn' = turn + 1
  /\ fresh' = fresh + 2
  /\ steps' = 0
  /\ \E content \in {<<Text(fresh + 1)>>,
                     <<Text(fresh + 1), [type |-> "image_url", id |-> fresh + 2]>>,
                     <<[type |-> "image_base64", id |-> fresh + 1]>>,
                     << >>} :
       messages' = Append(messages, User(content))
  /\ pc' = "ready"
  /\ UNCHANGED <<scenario, stored, calls, check, past, fails>>

Call(k) == [type |-> "tool_call", id |-> k]

\* Only to Anthropic's blocks their order is left; Gemini is sent no tools.
Replies ==
  LET t == Text(fresh + 1)  c == Call(fresh + 2)  d == Call(fresh + 3) IN
  {<< >>, <<t>>}
    \cup (IF Backend = "gemini" \/ steps = MaxSteps THEN {} ELSE {<<c>>, <<t, c, d>>})
    \cup (IF Backend = "anthropic" /\ steps < MaxSteps THEN {<<c, t>>} ELSE {})

ClientHears ==
  /\ pc = "asking" /\ scenario.style = "client"
  /\ \E reply \in Replies :
       LET m == Assistant(Content(Backend, reply)) IN
       /\ messages' = Append(messages, m)
       /\ Heard(reply)
       /\ calls' = [i \in DOMAIN Calls(m) |-> [id |-> Calls(m)[i].id, decided |-> FALSE]]
       /\ steps' = IF Calls(m) = << >> THEN steps ELSE steps + 1
       /\ pc' = IF Calls(m) = << >> THEN "idle" ELSE "policy"
  /\ fresh' = fresh + 3
  /\ UNCHANGED <<scenario, turn, stored, check, request, fails>>

Result(call) == [type |-> "tool_result", id |-> call.id]

ResultMessages ==
  LET blocks == [i \in DOMAIN calls |-> Result(calls[i])] IN
  IF scenario.results = "together"
  THEN <<Tool(blocks)>>
  ELSE [i \in DOMAIN calls |-> Tool(<<blocks[i]>>)]

\* The engine's decision on the next call: the tool runs or is refused, and
\* either is its result.  When all calls have one, the model hears of them.
DecideCall ==
  /\ pc = "policy"
  /\ LET i    == CHOOSE i \in DOMAIN calls :
                   ~calls[i].decided /\ \A j \in 1..(i - 1) : calls[j].decided
         last == i = Len(calls)
     IN /\ Close(Combined = "ALLOW")
        /\ calls' = [calls EXCEPT ![i].decided = TRUE]
        /\ messages' = IF last THEN messages \o ResultMessages ELSE messages
        /\ pc' = IF last THEN "ready" ELSE "policy"
  /\ UNCHANGED <<scenario, turn, steps, fresh, stored, cleared, past, fails>>

Over ==
  /\ pc = "idle" /\ turn = Len(scenario.backends)
  /\ UNCHANGED vars

Next ==
  \/ Add \/ Consult
  \/ RunAgent \/ InputBlocked \/ InputPasses \/ AgentAnswer \/ AgentAction \/ Save
  \/ Complete \/ Raise
  \/ ClientSays \/ ClientHears \/ DecideCall
  \/ Over

Spec == Init /\ [][Next]_vars

-----------------------------------------------------------------------------
Ids(blocks) == [i \in DOMAIN blocks |-> blocks[i].id]

AllOf(ms, Blocks(_)) == Ids(FlattenSeq([i \in DOMAIN ms |-> Blocks(ms[i])]))

(***************************************************************************)
(* What is sent is the conversation: whichever provider is asked, and      *)
(* whatever was said to and by another one before, the texts and images of *)
(* the system prompt, the stored turns and the open one arrive once each,  *)
(* in the order in which they were said; and Gemini gets what it requires, *)
(* a user's content first and then model and user in turns.                *)
(***************************************************************************)
ConversationArrives ==
  pc = "asking" =>
    LET r     == request
        heard == Ids(r.system) \o AllOf(r.contents, Contents)
    IN  /\ heard = AllOf(messages, Contents)
        /\ \A i, j \in DOMAIN heard : i < j => heard[i] < heard[j]
        /\ r.to = "gemini" =>
             /\ r.contents[1].role = "user"
             /\ \A i \in 1..(Len(r.contents) - 1) : r.contents[i].role # r.contents[i + 1].role

(***************************************************************************)
(* Of the tool calls a provider made through its own interface, which a    *)
(* client of the port keeps as tool_call blocks and answers by tool_result *)
(* blocks, no request leaves one open: the calls of a message are followed *)
(* at once by one result each, in their order; the request has no other    *)
(* results; and every message of role tool in a client's request carries   *)
(* one.  Retries, refusals by the policy engine and calls that another     *)
(* provider made earlier are included.  Excepted are results put together  *)
(* for OpenAI, of which the adapter sends the first.                       *)
(*                                                                         *)
(* Nothing is said of what SuluvAgent's own tools return: its prompt asks  *)
(* for tools in JSON, no provider knows of a call, and the messages of     *)
(* role tool it adds are texts (see ToolMessagesAnswerCalls).              *)
(***************************************************************************)
CallsAreAnswered ==
  pc = "asking" =>
    LET r == request
        answers(i) == IF scenario.results = "each"
                      THEN SubSeq(r.contents, i + 1, i + Len(Calls(r.contents[i])))
                      ELSE SubSeq(r.contents, i + 1, i + 1)
    IN  \/ r.to = "gemini"
        \/ r.to = "openai" /\ scenario.results = "together"
        \/ /\ \A i \in DOMAIN r.contents :
                Calls(r.contents[i]) # << >> =>
                  AllOf(answers(i), Results) = Ids(Calls(r.contents[i]))
           /\ Len(AllOf(r.contents, Results)) = Len(AllOf(r.contents, Calls))
           /\ scenario.style = "client" =>
                \A i \in DOMAIN r.contents :
                  r.contents[i].role = "tool" => Results(r.contents[i]) # << >>

(***************************************************************************)
(* Not a property of the code: whoever talks to OpenAI, each message of    *)
(* role tool is a result and names the call it answers.  The agent's are   *)
(* texts that answer no call (agent.py:403-420), and the adapter sends     *)
(* them as they are, with role tool and no tool_call_id                    *)
(* (openai_llm.py:87).  An AgentAction and the next Complete refute it.    *)
(***************************************************************************)
ToolMessagesAnswerCalls ==
  pc = "asking" /\ request.to = "openai" =>
    \A i \in DOMAIN request.contents :
      request.contents[i].role = "tool" => Results(request.contents[i]) # << >>

(***************************************************************************)
(* A model is reminded of all it said: every reply of a turn that was not  *)
(* lost to an exception comes back in every later request as one message,  *)
(* with its texts and (Gemini has none) its calls.                         *)
(***************************************************************************)
RepliesComeBack ==
  pc = "asking" =>
    LET r == request IN
    \A k \in DOMAIN replies : \E i \in DOMAIN r.contents :
      LET said == Assistant(replies[k].content)  m == r.contents[i] IN
      /\ m.role \in {"assistant", "model"}
      /\ Texts(m) = Texts(said)
      /\ r.to # "gemini" => Calls(m) = Calls(said)

(***************************************************************************)
(* Every guardrail or rule that is in force when a text or a call passes   *)
(* has been asked, those added during the check included, and none was     *)
(* against it.  (A REDACT ends the check, so who comes after is not asked; *)
(* the agent sends the text unredacted.)  No text of a user reaches a      *)
(* model through the agent that has not passed.                            *)
(***************************************************************************)
EveryoneIsAsked ==
  /\ verdict.passed =>
       /\ \/ Len(verdict.said) = verdict.chain
          \/ verdict.said # << >> /\ Last(verdict.said) = "REDACT"
       /\ Range(verdict.said) \cap {"BLOCK", "DENY", "ESCALATE"} = {}
  /\ scenario.style = "agent" /\ pc = "asking" =>
       \A i \in DOMAIN messages : messages[i].role = "user" =>
         messages[i].content[1].id \in cleared
=============================================================================
