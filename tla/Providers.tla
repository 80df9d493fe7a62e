----------------------------- MODULE Providers ------------------------------
(***************************************************************************)
(* What the LLM adapters do to a SuluvPrompt on its way to a provider, and *)
(* to the provider's answer on its way back.  A text, an image and a tool  *)
(* call are told apart by a number; their wording is left out.             *)
(***************************************************************************)
EXTENDS Lists, SequencesExt

Provider == {"openai", "anthropic", "gemini"}

Image == {"image_url", "image_base64"}

\* ContentBlock: a tool_result has the id of the call it answers.
Block == [type : {"text", "tool_call", "tool_result"} \cup Image, id : Nat]

Role == {"system", "user", "assistant", "tool"}

\* SuluvMessage, and the message of a request.
Message == [role : Role, content : Seq(Block)]

Text(k) == [type |-> "text", id |-> k]

NoText == Text(0) \* the text block with the empty string

Of(types, m) == Keep(m.content, [type : types, id : Nat] \ {NoText})

Texts(m)    == Of({"text"}, m)
Calls(m)    == Of({"tool_call"}, m)
Results(m)  == Of({"tool_result"}, m)
Contents(m) == Of({"text"} \cup Image, m)

\* A message that would be empty has the empty text.
OrNoText(blocks) == IF blocks = << >> THEN <<NoText>> ELSE blocks

Wire(role, blocks) == [role |-> role, content |-> blocks]

-----------------------------------------------------------------------------
(* The three translations of a message.                                    *)

\* Only the first result of a TOOL message is sent.  One without a result, as
\* the agent makes them, keeps its role and is sent as a text.
MessageToOpenAI(m) ==
  IF Calls(m) # << >> /\ m.role = "assistant"
  THEN Wire("assistant", Texts(m) \o Calls(m))
  ELSE IF Results(m) # << >> /\ m.role = "tool"
  THEN Wire("tool", <<Results(m)[1]>>)
  ELSE Wire(m.role, OrNoText(Contents(m)))

\* Anthropic gets the URL of an image as a text.
AsText(b) == IF b.type = "image_url" THEN Text(b.id) ELSE b

\* Wrong on purpose, like every definition so marked: the runs are repeated
\* with it in place of the one it resembles, to see a property fail.  Here
\* only the first result of a message is sent.
MessageToAnthropicFirst(m) ==
  LET role == IF m.role = "assistant" THEN "assistant" ELSE "user" IN
  IF Results(m) # << >> THEN Wire("user", <<Results(m)[1]>>)
  ELSE IF Calls(m) # << >> /\ m.role = "assistant"
  THEN Wire("assistant", Texts(m) \o Calls(m))
  ELSE Wire(role, OrNoText(Contents(m)))

MessageToAnthropic(m) ==
  LET role == IF m.role = "assistant" THEN "assistant" ELSE "user" IN
  IF Results(m) # << >> THEN Wire("user", Results(m))
  ELSE IF Calls(m) # << >> /\ m.role = "assistant"
  THEN Wire("assistant", Texts(m) \o Calls(m))
  ELSE Wire(role, OrNoText([i \in DOMAIN Contents(m) |-> AsText(Contents(m)[i])]))

\* Calls and results of tools have no translation.  (An image that is a URL is
\* sent as inline_data whose bytes are the URL's text: which image it is can be
\* told, but Gemini is not sent its picture.)
MessageToGemini(m) ==
  Wire(IF m.role = "assistant" THEN "model" ELSE "user", OrNoText(Contents(m)))

-----------------------------------------------------------------------------
(* Requests.                                                               *)

Spoken(messages) == Keep(messages, [role : Role \ {"system"}, content : Seq(Block)])
System(messages) == Keep(messages, [role : {"system"}, content : Seq(Block)])

\* Wrong on purpose: the content to merge replaces the last one.
OntoLost(merged, m) ==
  IF merged # << >> /\ Last(merged).role = m.role
  THEN Append(Front(merged), m)
  ELSE Append(merged, m)

Onto(merged, m) ==
  IF merged # << >> /\ Last(merged).role = m.role
  THEN Append(Front(merged), [m EXCEPT !.content = Last(merged).content \o @])
  ELSE Append(merged, m)

\* _merge_consecutive.
Merge(contents) ==
  LET merged[i \in 0..Len(contents)] ==
        IF i = 0 THEN << >> ELSE Onto(merged[i - 1], contents[i])
  IN  merged[Len(contents)]

\* The system messages stay where they are, or the last one or all of them
\* are sent apart.
Request(p, messages) ==
  CASE p = "openai" ->
         [to |-> p, system |-> << >>,
          contents |-> [i \in DOMAIN messages |-> MessageToOpenAI(messages[i])]]
    [] p = "anthropic" ->
         [to |-> p,
          system |-> IF System(messages) = << >> THEN << >> ELSE Texts(Last(System(messages))),
          contents |-> [i \in DOMAIN Spoken(messages) |-> MessageToAnthropic(Spoken(messages)[i])]]
    [] p = "gemini" ->
         [to |-> p,
          system |-> FlattenSeq([i \in DOMAIN System(messages) |-> Texts(System(messages)[i])]),
          contents |-> Merge([i \in DOMAIN Spoken(messages) |-> MessageToGemini(Spoken(messages)[i])])]

-----------------------------------------------------------------------------
(* Answers.  What a provider may answer is taken from how the adapters     *)
(* read it: a text and then calls, blocks in any order, or a text.         *)

\* Wrong on purpose: a text in an answer hides its calls.
ContentTextFirst(p, blocks) ==
  LET m == [role |-> "assistant", content |-> blocks] IN
  IF Texts(m) # << >> THEN Texts(m) ELSE Calls(m)

\* LLMResponse.content.
Content(p, blocks) ==
  LET m == [role |-> "assistant", content |-> blocks] IN
  CASE p = "openai"    -> Texts(m) \o Calls(m)
    [] p = "anthropic" -> blocks
    [] p = "gemini"    -> Texts(m)
=============================================================================
