--------------------------- MODULE ModelCallProofs ---------------------------
(***************************************************************************)
(* Whoever is in force is asked; what is sent is the conversation; calls   *)
(* are answered; models are reminded of what they said.  For every number  *)
(* of guardrails and rules, every number of turns and every choice of      *)
(* providers.                                                              *)
(*                                                                         *)
(* Two invariants meet in the first theorem.  Ballot is about a check that *)
(* is going on: who has been asked is the beginning of the list as it is   *)
(* now, and the verdicts are of the kind the check is about.  Passed is    *)
(* about what went through: every text of a user that is stored, or in the *)
(* prompt of a run that got past its check, was let through by one.        *)
(*                                                                         *)
(* The other theorems rest on four invariants of the conversation, stored  *)
(* and open (TalkInv, OrderInv, RecallInv, AnswerInv), and on what each of *)
(* the translations of Providers keeps of one.                             *)
(***************************************************************************)
EXTENDS ModelCall, ListProofs, SequenceTheorems, TLAPS

Votes == GuardrailAction \cup PolicyDecision

\* What a message may contain, whatever an adapter makes of a reply.
Said == Seq(Block)
  \cup {Content(p, blocks) : p \in Provider, blocks \in Seq(Block)}
  \cup {OrNoText(Content(p, blocks)) : p \in Provider, blocks \in Seq(Block)}

Talk == [role : Role, content : Said]

StyleInv ==
  /\ scenario \in Scenarios
  /\ pc \in {"idle", "input", "ready", "asking", "save", "policy"}
  /\ scenario.style = "agent" => pc # "policy"
  /\ pc = "input" => scenario.style = "agent"
  /\ fresh \in Nat
  /\ turn \in 0..Len(scenario.backends)
  /\ pc # "idle" => turn > 0

Ballot ==
  /\ chain \in Nat
  /\ asked \in Seq(Votes)
  /\ pc = "input"  => Range(asked) \subseteq GuardrailAction
  /\ pc = "policy" => Range(asked) \subseteq PolicyDecision
  /\ pc \notin {"input", "policy"} => asked = << >>

AllWereAsked ==
  verdict.passed =>
    /\ \/ Len(verdict.said) = verdict.chain
       \/ verdict.said # << >> /\ Last(verdict.said) = "REDACT"
    /\ Range(verdict.said) \cap {"BLOCK", "DENY", "ESCALATE"} = {}

Cleared(s) == \A i \in 1..Len(s) : s[i].role = "user" => s[i].content[1].id \in cleared

Passed ==
  scenario.style = "agent" =>
    /\ stored \in Seq(Talk) /\ Cleared(stored)
    /\ pc \in {"ready", "asking", "save"} =>
         /\ messages \in Seq(Talk) /\ Cleared(messages)
         /\ Len(messages) > Len(stored)

AskedInv == StyleInv /\ Ballot /\ AllWereAsked /\ Passed

-----------------------------------------------------------------------------
\* Whoever is asked is one of the three providers.
LEMMA BackendType == StyleInv /\ turn > 0 => Backend \in Provider
<1> SUFFICES ASSUME StyleInv, turn > 0 PROVE Backend \in Provider
  OBVIOUS
<1>1. scenario.backends \in Seq(Provider)
  BY ModelCallAssumption DEF StyleInv, Scenario
<1>2. turn \in 1..Len(scenario.backends)
  BY <1>1 DEF StyleInv
<1>. QED  BY <1>1, <1>2, ElementOfSeq DEF Backend

LEMMA TextsAreBlocks ==
  ASSUME NEW k \in Nat
  PROVE  Text(k) \in Block /\ <<Text(k)>> \in Seq(Block)
<1>1. Text(k) \in Block
  BY DEF Text, Block, Image
<1>. QED  BY <1>1

\* Words that are not a user's keep a conversation clear.
LEMMA OthersSpeak ==
  ASSUME NEW s \in Seq(Talk), Cleared(s),
         NEW t \in Seq(Talk), \A i \in 1..Len(t) : t[i].role # "user"
  PROVE  s \o t \in Seq(Talk) /\ Cleared(s \o t) /\ Len(s \o t) >= Len(s)
<1>1. /\ s \o t \in Seq(Talk)
      /\ Len(s \o t) = Len(s) + Len(t) /\ Len(s) \in Nat /\ Len(t) \in Nat
      /\ \A i \in 1..Len(s) + Len(t) :
           (s \o t)[i] = IF i <= Len(s) THEN s[i] ELSE t[i - Len(s)]
  BY ConcatProperties, LenProperties
<1>2. ASSUME NEW i \in 1..Len(s \o t), (s \o t)[i].role = "user"
      PROVE  (s \o t)[i].content[1].id \in cleared
  <2>1. CASE i <= Len(s)
    BY <1>1, <1>2, <2>1 DEF Cleared
  <2>2. CASE ~(i <= Len(s))
    <3>1. i - Len(s) \in 1..Len(t) /\ (s \o t)[i] = t[i - Len(s)]
      BY <1>1, <2>2
    <3>. QED  BY <1>2, <3>1
  <2>. QED  BY <2>1, <2>2
<1>3. Cleared(s \o t)
  BY <1>2 DEF Cleared
<1>. QED  BY <1>1, <1>3

\* The end of a check that lets a text or a call through.
LEMMA LetThrough ==
  ASSUME Ballot, Close(TRUE),
         \/ pc = "input" /\ ~Says("BLOCK")
         \/ pc = "policy" /\ ~Says("DENY") /\ ~Says("ESCALATE")
  PROVE  AllWereAsked'
<1>1. /\ verdict' = [said |-> asked, chain |-> chain, passed |-> TRUE]
      /\ Len(asked) = chain \/ (asked # << >> /\ Last(asked) \in Final)
  BY DEF Close, Decided
<1>2. Range(asked) \cap {"BLOCK", "DENY", "ESCALATE"} = {}
  BY DEF Ballot, Says, GuardrailAction, PolicyDecision
<1>3. asked # << >> => Last(asked) \in Range(asked)
  <2> SUFFICES ASSUME asked # << >> PROVE Last(asked) \in Range(asked)
    OBVIOUS
  <2>1. asked \in Seq(Votes) /\ Len(asked) \in DOMAIN asked
    BY EmptySeq, LenProperties DEF Ballot
  <2>. QED  BY <2>1 DEF Last, Range
<1>4. Len(asked) = chain \/ (asked # << >> /\ Last(asked) = "REDACT")
  BY <1>1, <1>2, <1>3 DEF Final
<1>. QED  BY <1>1, <1>2, <1>4 DEF AllWereAsked

\* One more verdict.
LEMMA OneMore ==
  ASSUME NEW s \in Seq(Votes), NEW v \in Votes
  PROVE  Append(s, v) \in Seq(Votes) /\ Range(Append(s, v)) = Range(s) \cup {v}
<1>1. /\ Append(s, v) \in Seq(Votes) /\ Len(Append(s, v)) = Len(s) + 1 /\ Len(s) \in Nat
      /\ \A i \in 1..Len(s) : Append(s, v)[i] = s[i]
      /\ Append(s, v)[Len(s) + 1] = v
      /\ DOMAIN s = 1..Len(s) /\ DOMAIN Append(s, v) = 1..(Len(s) + 1)
  BY AppendProperties, LenProperties
<1>2. \A i \in 1..(Len(s) + 1) : i \in 1..Len(s) \/ i = Len(s) + 1
  BY <1>1
<1>3. \A i \in 1..Len(s) : i \in 1..(Len(s) + 1)
  BY <1>1
<1>4. Len(s) + 1 \in 1..(Len(s) + 1)
  BY <1>1
<1>. QED  BY <1>1, <1>2, <1>3, <1>4 DEF Range

-----------------------------------------------------------------------------
LEMMA InitAsked == Init => AskedInv
<1> SUFFICES ASSUME Init PROVE AskedInv
  OBVIOUS
<1>1. StyleInv
  <2>1. scenario.backends \in Seq(Provider)
    BY ModelCallAssumption DEF Init, Scenario
  <2>. QED  BY <2>1, LenProperties DEF Init, StyleInv
<1>2. Ballot
  BY EmptySeq DEF Init, Ballot, Range
<1>3. Passed
  BY EmptySeq DEF Init, Passed, Cleared
<1>. QED  BY <1>1, <1>2, <1>3 DEF Init, AskedInv, AllWereAsked

\* Agents never decide on calls, and are the only ones to check an input.
LEMMA NextStyle == StyleInv /\ [Next]_vars => StyleInv'
<1> SUFFICES ASSUME StyleInv, [Next]_vars PROVE StyleInv'
  OBVIOUS
<1>1. scenario.backends \in Seq(Provider) /\ scenario.style \in {"agent", "client"}
  BY ModelCallAssumption DEF StyleInv, Scenario
<1>2. Len(scenario.backends) \in Nat
  BY <1>1, LenProperties
<1> USE DEF StyleInv, talk, check, past
<1>3. CASE Add  BY <1>3 DEF Add
<1>4. CASE Consult  BY <1>4 DEF Consult
<1>5. CASE RunAgent  BY <1>2, <1>5 DEF RunAgent
<1>6. CASE InputBlocked  BY <1>6 DEF InputBlocked
<1>7. CASE InputPasses  BY <1>7 DEF InputPasses
<1>8. CASE AgentAnswer  BY <1>8 DEF AgentAnswer
<1>9. CASE AgentAction  BY <1>9 DEF AgentAction
<1>10. CASE Save  BY <1>10 DEF Save
<1>11. CASE Complete  BY <1>11 DEF Complete
<1>12. CASE Raise  BY <1>12 DEF Raise
<1>13. CASE ClientSays  BY <1>2, <1>13 DEF ClientSays
<1>14. CASE ClientHears  BY <1>14 DEF ClientHears
<1>15. CASE DecideCall  BY <1>15 DEF DecideCall
<1>16. CASE Over \/ UNCHANGED vars  BY <1>16 DEF Over, vars
<1>. QED
  BY <1>3, <1>4, <1>5, <1>6, <1>7, <1>8, <1>9, <1>10, <1>11, <1>12, <1>13, <1>14, <1>15,
     <1>16 DEF Next

\* A check goes through the list as it is.
LEMMA NextBallot ==
  ASSUME StyleInv, Ballot, AllWereAsked, [Next]_vars
  PROVE  Ballot' /\ AllWereAsked'
<1>1. CASE Add
  BY <1>1, ModelCallAssumption DEF Add, Ballot, AllWereAsked, talk
<1>2. CASE Consult
  <2>1. PICK v : /\ asked' = Append(asked, v)
                 /\ \/ pc = "input" /\ v \in GuardrailAction
                    \/ pc = "policy" /\ v \in PolicyDecision
    BY <1>2 DEF Consult
  <2>2. UNCHANGED <<pc, chain, verdict>>
    BY <1>2 DEF Consult
  <2>3. v \in Votes /\ asked \in Seq(Votes)
    BY <2>1 DEF Votes, Ballot
  <2>4. asked' \in Seq(Votes) /\ Range(asked') = Range(asked) \cup {v}
    BY <2>1, <2>3, OneMore
  <2>. QED  BY <2>1, <2>2, <2>4 DEF Ballot, AllWereAsked
<1>3. CASE InputBlocked
  <2>1. /\ pc' = "idle" /\ asked' = << >> /\ chain' = chain /\ ~verdict'.passed
    BY <1>3 DEF InputBlocked, Close
  <2>. QED  BY <2>1, EmptySeq DEF Ballot, AllWereAsked
<1>4. CASE InputPasses
  <2>1. Close(TRUE) /\ pc = "input" /\ ~Says("BLOCK") /\ pc' = "ready"
    BY <1>4 DEF InputPasses
  <2>2. asked' = << >> /\ chain' = chain
    BY <2>1 DEF Close
  <2>. QED  BY <2>1, <2>2, LetThrough, EmptySeq DEF Ballot
<1>5. CASE DecideCall
  <2>1. /\ pc = "policy" /\ Close(Combined = "ALLOW") /\ pc' \in {"ready", "policy"}
    BY <1>5 DEF DecideCall
  <2>2. asked' = << >> /\ chain' = chain /\ verdict'.passed = (Combined = "ALLOW")
    BY <2>1 DEF Close
  <2>3. Range(<< >>) = {}
    BY DEF Range
  <2>4. Ballot'
    BY <2>1, <2>2, <2>3, EmptySeq DEF Ballot
  <2>5. CASE Combined = "ALLOW"
    <3>1. Close(TRUE)
      BY <2>1, <2>5 DEF Close
    <3>2. ~Says("DENY") /\ ~Says("ESCALATE")
      BY <2>5 DEF Combined
    <3>. QED  BY <2>1, <2>4, <3>1, <3>2, LetThrough
  <2>6. CASE Combined # "ALLOW"
    BY <2>2, <2>4, <2>6 DEF AllWereAsked
  <2>. QED  BY <2>5, <2>6
<1>6. CASE RunAgent
  <2>1. asked = << >> /\ Range(<< >>) = {}
    BY <1>6 DEF RunAgent, Ballot, Range
  <2>. QED  BY <1>6, <2>1 DEF RunAgent, Ballot, AllWereAsked, check
<1>7. CASE ClientHears
  <2>1. asked = << >> /\ Range(<< >>) = {} /\ pc' \in {"idle", "policy"} /\ UNCHANGED check
    BY <1>7 DEF ClientHears, Ballot, Range
  <2>. QED  BY <2>1 DEF Ballot, AllWereAsked, check
<1>8. CASE AgentAnswer \/ AgentAction \/ Save \/ Complete \/ Raise \/ ClientSays
  <2>1. /\ pc \notin {"input", "policy"} /\ pc' \notin {"input", "policy"}
        /\ UNCHANGED check
    BY <1>8 DEF AgentAnswer, AgentAction, Save, Complete, Raise, ClientSays
  <2>. QED  BY <2>1 DEF Ballot, AllWereAsked, check
<1>9. CASE Over \/ UNCHANGED vars
  BY <1>9 DEF Over, vars, Ballot, AllWereAsked, check
<1>. QED
  BY <1>1, <1>2, <1>3, <1>4, <1>5, <1>6, <1>7, <1>8, <1>9 DEF Next

\* What an agent stores and sends was let through.
LEMMA NextPassed ==
  ASSUME StyleInv, Passed, [Next]_vars
  PROVE  Passed'
<1>0. scenario' = scenario
  BY DEF Next, Add, Consult, RunAgent, InputBlocked, InputPasses, AgentAnswer, AgentAction, Save,
     Complete, Raise, ClientSays, ClientHears, DecideCall, Over, vars
<1>. SUFFICES ASSUME scenario.style = "agent"
     PROVE  /\ stored' \in Seq(Talk) /\ Cleared(stored)'
            /\ pc' \in {"ready", "asking", "save"} =>
                 /\ messages' \in Seq(Talk) /\ Cleared(messages)'
                 /\ Len(messages') > Len(stored')
  BY <1>0 DEF Passed
<1>1. /\ stored \in Seq(Talk) /\ Cleared(stored)
      /\ pc \in {"ready", "asking", "save"} =>
           /\ messages \in Seq(Talk) /\ Cleared(messages)
           /\ Len(messages) > Len(stored)
  BY DEF Passed
<1>2. Len(stored) \in Nat
  BY <1>1, LenProperties
<1>3. ASSUME UNCHANGED <<stored, messages, cleared>>,
             pc' \in {"ready", "asking", "save"} => pc \in {"ready", "asking", "save"}
      PROVE  Passed'
  BY <1>0, <1>1, <1>3 DEF Passed, Cleared
<1>4. CASE Add \/ Consult \/ RunAgent \/ Complete \/ Raise \/ Over \/ UNCHANGED vars
  <2>1. /\ UNCHANGED <<stored, messages, cleared>>
        /\ pc' \in {"ready", "asking", "save"} => pc \in {"ready", "asking", "save"}
    BY <1>4 DEF Add, Consult, RunAgent, Complete, Raise, Over, vars, talk, check
  <2>. QED  BY <1>0, <1>3, <2>1 DEF Passed
<1>5. CASE InputBlocked
  <2>1. pc' = "idle" /\ UNCHANGED <<stored, cleared>>
    BY <1>5 DEF InputBlocked, talk
  <2>2. Cleared(stored)'
    BY <1>1, <2>1 DEF Cleared
  <2>. QED  BY <1>1, <2>1, <2>2
<1>6. CASE InputPasses
  <2>. DEFINE task == <<User(<<Text(fresh)>>)>>
  <2>1. /\ messages' = <<SystemMessage>> \o Append(stored, User(<<Text(fresh)>>))
        /\ cleared' = cleared \cup {fresh} /\ stored' = stored /\ pc' = "ready"
    BY <1>6 DEF InputPasses
  <2>2. SystemMessage \in Talk /\ User(<<Text(fresh)>>) \in Talk
    <3>1. <<Text(1)>> \in Said /\ <<Text(fresh)>> \in Said
      BY TextsAreBlocks DEF Said, StyleInv
    <3>. QED  BY <3>1 DEF SystemMessage, User, Talk, Role
  <2>3. Append(stored, User(<<Text(fresh)>>)) \in Seq(Talk)
    BY <1>1, <2>2, AppendProperties
  <2>4. /\ messages' \in Seq(Talk)
        /\ Len(messages') = Len(stored) + 2
        /\ \A i \in 1..Len(messages') :
             \/ i = 1 /\ messages'[i] = SystemMessage
             \/ i - 1 \in 1..Len(stored) /\ messages'[i] = stored[i - 1]
             \/ i = Len(stored) + 2 /\ messages'[i] = User(<<Text(fresh)>>)
    <3>1. <<SystemMessage>> \in Seq(Talk) /\ Len(<<SystemMessage>>) = 1
      BY <2>2
    <3>. DEFINE later == Append(stored, User(<<Text(fresh)>>))
    <3>2. /\ Len(later) = Len(stored) + 1
          /\ \A i \in 1..Len(stored) : later[i] = stored[i]
          /\ later[Len(stored) + 1] = User(<<Text(fresh)>>)
      BY <1>1, <2>2, AppendProperties
    <3>3. /\ messages' \in Seq(Talk)
          /\ Len(messages') = 1 + Len(later)
          /\ \A i \in 1..1 + Len(later) :
               messages'[i] = IF i <= 1 THEN <<SystemMessage>>[i] ELSE later[i - 1]
      BY <2>1, <2>3, <3>1, ConcatProperties
    <3>. HIDE DEF later
    <3>4. ASSUME NEW i \in 1..Len(messages')
          PROVE  \/ i = 1 /\ messages'[i] = SystemMessage
                 \/ i - 1 \in 1..Len(stored) /\ messages'[i] = stored[i - 1]
                 \/ i = Len(stored) + 2 /\ messages'[i] = User(<<Text(fresh)>>)
      <4>1. CASE i = 1
        BY <3>3, <4>1
      <4>2. CASE i = Len(stored) + 2
        BY <1>2, <3>2, <3>3, <4>2
      <4>3. CASE i # 1 /\ i # Len(stored) + 2
        <5>1. i - 1 \in 1..Len(stored) /\ ~(i <= 1)
          BY <1>2, <3>2, <3>3, <4>3
        <5>. QED  BY <3>2, <3>3, <5>1
      <4>. QED  BY <4>1, <4>2, <4>3
    <3>. QED  BY <1>2, <3>2, <3>3, <3>4
  <2>5. Cleared(messages)'
    <3>1. ASSUME NEW i \in 1..Len(messages'), messages'[i].role = "user"
          PROVE  messages'[i].content[1].id \in cleared'
      <4>1. SystemMessage.role # "user"
        BY DEF SystemMessage
      <4>2. User(<<Text(fresh)>>).content[1].id = fresh
        BY DEF User, Text
      <4>. QED  BY <1>1, <2>1, <2>4, <3>1, <4>1, <4>2 DEF Cleared
    <3>. QED  BY <3>1 DEF Cleared
  <2>6. Cleared(stored)'
    BY <1>1, <2>1 DEF Cleared
  <2>. QED  BY <1>1, <1>2, <2>1, <2>4, <2>5, <2>6
<1>7. ASSUME NEW said \in Seq(Talk), \A i \in 1..Len(said) : said[i].role # "user",
             pc = "asking", messages' = messages \o said, UNCHANGED <<stored, cleared>>
      PROVE  Passed'
  <2>1. /\ messages' \in Seq(Talk) /\ Cleared(messages \o said)
        /\ Len(messages \o said) >= Len(messages)
    BY <1>1, <1>7, OthersSpeak
  <2>2. Len(messages') > Len(stored) /\ Cleared(messages)' /\ Cleared(stored)'
    BY <1>1, <1>2, <1>7, <2>1, LenProperties DEF Cleared
  <2>. QED  BY <1>1, <1>7, <2>1, <2>2 DEF Passed
<1>8. CASE AgentAnswer
  <2>1. PICK reply \in {<<Text(fresh + 1)>>, << >>} :
          messages' = Append(messages, Assistant(OrNoText(Content(Backend, reply))))
    BY <1>8 DEF AgentAnswer
  <2>2. Assistant(OrNoText(Content(Backend, reply))) \in Talk
    <3>1. reply \in Seq(Block)
      <4>1. fresh + 1 \in Nat
        BY DEF StyleInv
      <4>2. <<Text(fresh + 1)>> \in Seq(Block) /\ << >> \in Seq(Block)
        BY <4>1, TextsAreBlocks, EmptySeq
      <4>. QED  BY <2>1, <4>2
    <3>2. Backend \in Provider
      BY <1>8, BackendType DEF AgentAnswer, StyleInv
    <3>3. OrNoText(Content(Backend, reply)) \in Said
      BY <3>1, <3>2 DEF Said
    <3>. QED  BY <3>3 DEF Assistant, Talk, Role
  <2>. DEFINE m == Assistant(OrNoText(Content(Backend, reply)))
  <2>3. m.role # "user"
    BY DEF Assistant
  <2>. HIDE DEF m
  <2>4. /\ <<m>> \in Seq(Talk) /\ \A i \in 1..Len(<<m>>) : <<m>>[i].role # "user"
        /\ messages' = messages \o <<m>> /\ pc = "asking" /\ UNCHANGED <<stored, cleared>>
    <3>1. m \in Talk /\ messages' = Append(messages, m)
      BY <2>1, <2>2 DEF m
    <3>2. pc = "asking" /\ UNCHANGED <<stored, cleared>>
      BY <1>8 DEF AgentAnswer, check
    <3>3. messages' = messages \o <<m>>
      BY <1>1, <3>1, <3>2, AppendIsConcat
    <3>. QED  BY <2>3, <3>1, <3>2, <3>3
  <2>5. Passed'
    BY <1>7, <2>4
  <2>. QED  BY <1>0, <2>5 DEF Passed
<1>9. CASE AgentAction
  <2>. DEFINE m == Assistant(Content(Backend, <<Text(fresh + 1)>>))
              o == Tool(<<Text(fresh + 2)>>)
  <2>1. messages' = messages \o <<m, o>> /\ pc = "asking" /\ UNCHANGED <<stored, cleared>>
    BY <1>9 DEF AgentAction, check
  <2>2. m \in Talk /\ o \in Talk
    <3>1. <<Text(fresh + 1)>> \in Seq(Block) /\ <<Text(fresh + 2)>> \in Seq(Block)
      BY TextsAreBlocks DEF StyleInv
    <3>2. Backend \in Provider
      BY <2>1, BackendType DEF StyleInv
    <3>3. Content(Backend, <<Text(fresh + 1)>>) \in Said /\ <<Text(fresh + 2)>> \in Said
      <4>. DEFINE one == <<Text(fresh + 1)>>
      <4>1. one \in Seq(Block)
        BY <3>1
      <4>. HIDE DEF one
      <4>2. Content(Backend, one) \in {Content(p, blocks) : p \in Provider, blocks \in Seq(Block)}
        BY <3>2, <4>1
      <4>. QED  BY <3>1, <4>2 DEF Said, one
    <3>. QED  BY <3>3 DEF Assistant, Tool, Talk, Role
  <2>3. m.role # "user" /\ o.role # "user"
    BY DEF Assistant, Tool
  <2>. HIDE DEF m, o
  <2>4. <<m, o>> \in Seq(Talk) /\ \A i \in 1..Len(<<m, o>>) : <<m, o>>[i].role # "user"
    BY <2>2, <2>3
  <2>5. Passed'
    BY <1>7, <2>1, <2>4
  <2>. QED  BY <1>0, <2>5 DEF Passed
<1>10. CASE Save
  <2>. DEFINE own == SubSeq(messages, Len(stored) + 2, Len(messages))
  <2>1. stored' = stored \o own /\ pc' = "idle" /\ cleared' = cleared /\ pc = "save"
    BY <1>10 DEF Save, check
  <2>2. messages \in Seq(Talk) /\ Cleared(messages) /\ Len(messages) > Len(stored)
        /\ Len(messages) \in Nat
    BY <1>1, <2>1, LenProperties
  <2>3. /\ own \in Seq(Talk)
        /\ \A i \in 1..Len(own) :
             /\ i + Len(stored) + 1 \in 1..Len(messages)
             /\ own[i] = messages[i + Len(stored) + 1]
    <3>1. \A i \in (Len(stored) + 2)..Len(messages) : messages[i] \in Talk
      BY <1>2, <2>2, ElementOfSeq
    <3>2. /\ own \in Seq(Talk)
          /\ Len(own) = IF Len(stored) + 2 <= Len(messages)
                        THEN Len(messages) - (Len(stored) + 2) + 1 ELSE 0
          /\ \A i \in 1..Len(messages) - (Len(stored) + 2) + 1 :
               own[i] = messages[Len(stored) + 2 + i - 1]
      BY <1>2, <2>2, <3>1, SubSeqProperties
    <3>. HIDE DEF own
    <3>. QED  BY <1>2, <2>2, <3>2
  <2>. HIDE DEF own
  <2>4. /\ stored \o own \in Seq(Talk)
        /\ Len(stored \o own) = Len(stored) + Len(own) /\ Len(own) \in Nat
        /\ \A i \in 1..Len(stored) + Len(own) :
             (stored \o own)[i] = IF i <= Len(stored) THEN stored[i] ELSE own[i - Len(stored)]
    BY <1>1, <2>3, ConcatProperties, LenProperties
  <2>5. ASSUME NEW i \in 1..Len(stored'), stored'[i].role = "user"
        PROVE  stored'[i].content[1].id \in cleared'
    <3>1. CASE i <= Len(stored)
      BY <1>1, <2>1, <2>4, <2>5, <3>1 DEF Cleared
    <3>2. CASE ~(i <= Len(stored))
      <4>1. i - Len(stored) \in 1..Len(own) /\ stored'[i] = own[i - Len(stored)]
        BY <1>2, <2>1, <2>4, <3>2
      <4>. QED  BY <2>1, <2>2, <2>3, <2>5, <4>1 DEF Cleared
    <3>. QED  BY <3>1, <3>2
  <2>6. Cleared(stored)'
    BY <2>5 DEF Cleared
  <2>. QED  BY <2>1, <2>4, <2>6
<1>11. CASE ClientSays \/ ClientHears \/ DecideCall
  BY <1>11 DEF ClientSays, ClientHears, DecideCall, StyleInv
<1>. QED
  BY <1>0, <1>4, <1>5, <1>6, <1>8, <1>9, <1>10, <1>11 DEF Next

\* Every guardrail and every rule that is in force when something passes was
\* asked and let it pass, and nothing reaches a model unless it passed.
THEOREM NobodyIsPassedOver == Spec => []EveryoneIsAsked
<1>1. AskedInv /\ [Next]_vars => AskedInv'
  BY NextStyle, NextBallot, NextPassed DEF AskedInv
<1>2. AskedInv => EveryoneIsAsked
  <2> SUFFICES ASSUME AskedInv PROVE EveryoneIsAsked
    OBVIOUS
  <2>1. ASSUME scenario.style = "agent", pc = "asking", NEW i \in DOMAIN messages,
               messages[i].role = "user"
        PROVE  messages[i].content[1].id \in cleared
    <3>1. messages \in Seq(Talk) /\ Cleared(messages)
      BY <2>1 DEF AskedInv, Passed
    <3>2. i \in 1..Len(messages)
      BY <2>1, <3>1, LenProperties
    <3>. QED  BY <2>1, <3>1, <3>2 DEF Cleared
  <2>. QED  BY <2>1 DEF AskedInv, AllWereAsked, EveryoneIsAsked
<1>. QED  BY <1>1, <1>2, InitAsked, PTL DEF Spec

-----------------------------------------------------------------------------
(* Blocks of a message, by their types.                                    *)

Typed(types) == [type : types, id : Nat]

Types == {"text", "tool_call", "tool_result"} \cup Image

\* The types of blocks are sets of types.
LEMMA TypedBlocks ==
  /\ Block = Typed(Types)
  /\ \A X, Y : (Typed(X) \ {NoText}) \cap (Typed(Y) \ {NoText}) = Typed(X \cap Y) \ {NoText}
<1>1. Block = Typed(Types)
  BY DEF Block, Typed, Types
<1>2. ASSUME NEW X, NEW Y
      PROVE  (Typed(X) \ {NoText}) \cap (Typed(Y) \ {NoText}) = Typed(X \cap Y) \ {NoText}
  BY DEF Typed
<1>. QED  BY <1>1, <1>2

\* The blocks of some types are blocks of these types.
LEMMA OfIsSeq ==
  ASSUME NEW X \in SUBSET Types, NEW m, m.content \in Seq(Block)
  PROVE  Of(X, m) \in Seq(Block) /\ Of(X, m) \in Seq(Typed(X) \ {NoText})
<1>1. /\ Of(X, m) \in Seq(Block)
      /\ Of(X, m) \in Seq(Block \cap (Typed(X) \ {NoText}))
  BY KeepType, KeepIsSeq DEF Of, Typed
<1>2. Block \cap (Typed(X) \ {NoText}) \subseteq Typed(X) \ {NoText}
  OBVIOUS
<1>. QED  BY <1>1, <1>2, SeqMonotonic

\* Blocks are picked twice.
LEMMA OfOf ==
  ASSUME NEW X, NEW Y, NEW m, m.content \in Seq(Block), NEW r
  PROVE  Of(X, Wire(r, Of(Y, m))) = Of(X \cap Y, m)
<1>1. Keep(Keep(m.content, Typed(Y) \ {NoText}), Typed(X) \ {NoText})
        = Keep(m.content, (Typed(Y) \ {NoText}) \cap (Typed(X) \ {NoText}))
  BY KeepKeep
<1>2. (Typed(Y) \ {NoText}) \cap (Typed(X) \ {NoText}) = Typed(X \cap Y) \ {NoText}
  BY TypedBlocks
<1>. QED  BY <1>1, <1>2 DEF Of, Wire, Typed

\* Blocks are picked from each part.
LEMMA OfConcat ==
  ASSUME NEW X, NEW a \in Seq(Block), NEW b \in Seq(Block), NEW r
  PROVE  Of(X, Wire(r, a \o b)) = Of(X, Wire(r, a)) \o Of(X, Wire(r, b))
BY KeepConcat DEF Of, Wire

\* The empty text counts for nothing.
LEMMA OfOrNoText ==
  ASSUME NEW X, NEW b \in Seq(Block), NEW r
  PROVE  /\ Of(X, Wire(r, OrNoText(b))) = Of(X, Wire(r, b))
         /\ OrNoText(b) \in Seq(Block)
<1>1. CASE b = << >>
  <2>1. Keep(<<NoText>>, Typed(X) \ {NoText}) = << >>
    BY KeepOne
  <2>2. Keep(<< >>, Typed(X) \ {NoText}) = << >>
    BY KeepEmpty
  <2>3. NoText \in Block
    BY DEF NoText, Text, Block
  <2>. QED  BY <1>1, <2>1, <2>2, <2>3 DEF Of, Wire, OrNoText, Typed
<1>2. CASE b # << >>
  BY <1>2 DEF OrNoText
<1>. QED  BY <1>1, <1>2

\* Types that a message does not have make no difference.
LEMMA OfSame ==
  ASSUME NEW Z, NEW m, m.content \in Seq(Typed(Z)), NEW X, NEW Y, Z \cap X = Z \cap Y
  PROVE  Of(X, m) = Of(Y, m)
<1>1. Typed(Z) \cap (Typed(X) \ {NoText}) = Typed(Z) \cap (Typed(Y) \ {NoText})
  BY DEF Typed
<1>. QED  BY <1>1, KeepSame DEF Of, Typed

\* A message has no blocks of types it does not have.
LEMMA OfNone ==
  ASSUME NEW Z, NEW m, m.content \in Seq(Typed(Z)), NEW X, Z \cap X = {}
  PROVE  Of(X, m) = << >>
<1>1. Typed(Z) \cap (Typed(X) \ {NoText}) = {}
  BY DEF Typed
<1>. QED  BY <1>1, KeepNone DEF Of, Typed

-----------------------------------------------------------------------------
(* The messages of a conversation.                                         *)

Speech == {"text"} \cup Image

\* An image has a number.
Shown == {b \in Block : b.type \in Image => b.id # 0}

UserTurn      == [role : {"user"}, content : Seq(Typed(Speech) \cap Shown)]
AssistantTurn == [role : {"assistant"}, content : Seq(Typed({"text", "tool_call"}))]
ToolTurn      == [role : {"tool"},
                  content : Seq(Typed({"text"})) \cup Seq(Typed({"tool_result"}))]
SystemTurn    == [role : {"system"}, content : Seq(Typed({"text"}))]

Turn == UserTurn \cup AssistantTurn \cup ToolTurn

\* What each kind of message cannot have.
LEMMA TurnHas ==
  ASSUME NEW m \in Turn \cup SystemTurn
  PROVE  /\ m.content \in Seq(Block) /\ m.content \in Seq(Shown)
         /\ m.role # "assistant" => Calls(m) = << >>
         /\ m.role # "tool" => Results(m) = << >>
         /\ m.role = "assistant" => Contents(m) = Texts(m)
         /\ Results(m) # << >> => Contents(m) = << >> /\ m.content \in Seq(Typed({"tool_result"}))
<1>0. \A Z \in SUBSET Types : Seq(Typed(Z)) \subseteq Seq(Block)
  <2>1. \A Z \in SUBSET Types : Typed(Z) \subseteq Block
    BY TypedBlocks DEF Typed
  <2>. QED  BY <2>1, SeqMonotonic
<1>01. \A Z \in SUBSET Types : Z \cap Image = {} => Seq(Typed(Z)) \subseteq Seq(Shown)
  <2>1. \A Z \in SUBSET Types : Z \cap Image = {} => Typed(Z) \subseteq Shown
    BY TypedBlocks DEF Typed, Shown
  <2>. QED  BY <2>1, SeqMonotonic
<1>. USE DEF Calls, Results, Contents, Texts
<1>1. CASE m \in UserTurn
  <2>0. m.content \in Seq(Typed(Speech) \cap Shown) /\ m.role = "user" /\ Speech \in SUBSET Types
    BY <1>1 DEF UserTurn, Speech, Types
  <2>1. m.content \in Seq(Typed(Speech)) /\ m.content \in Seq(Shown)
    <3>1. Typed(Speech) \cap Shown \subseteq Typed(Speech) /\ Typed(Speech) \cap Shown \subseteq Shown
      OBVIOUS
    <3>. QED  BY <2>0, <3>1, SeqMonotonic
  <2>2. Speech \cap {"tool_call"} = {} /\ Speech \cap {"tool_result"} = {}
    BY DEF Speech, Image
  <2>. QED  BY <1>0, <2>0, <2>1, <2>2, OfNone
<1>2. CASE m \in AssistantTurn
  <2>. DEFINE Z == {"text", "tool_call"}
  <2>1. m.content \in Seq(Typed(Z)) /\ m.role = "assistant" /\ Z \in SUBSET Types
    BY <1>2 DEF AssistantTurn, Types
  <2>2. /\ Z \cap {"tool_result"} = {} /\ Z \cap ({"text"} \cup Image) = Z \cap {"text"}
        /\ Z \cap Image = {}
    BY DEF Image
  <2>. HIDE DEF Z
  <2>3. Of({"tool_result"}, m) = << >>
    BY <2>1, <2>2, OfNone
  <2>4. Of({"text"} \cup Image, m) = Of({"text"}, m)
    BY <2>1, <2>2, OfSame
  <2>. QED  BY <1>0, <1>01, <2>1, <2>2, <2>3, <2>4
<1>3. CASE m \in SystemTurn \/ (m \in ToolTurn /\ m.content \in Seq(Typed({"text"})))
  <2>1. m.content \in Seq(Typed({"text"})) /\ m.role \in {"tool", "system"} /\ {"text"} \in SUBSET Types
    BY <1>3 DEF ToolTurn, SystemTurn, Types
  <2>2. /\ {"text"} \cap {"tool_call"} = {} /\ {"text"} \cap {"tool_result"} = {}
        /\ {"text"} \cap Image = {}
    BY DEF Image
  <2>3. Of({"tool_result"}, m) = << >> /\ Of({"tool_call"}, m) = << >>
    BY <2>1, <2>2, OfNone
  <2>. QED  BY <1>0, <1>01, <2>1, <2>2, <2>3
<1>4. CASE m \in ToolTurn /\ m.content \in Seq(Typed({"tool_result"}))
  <2>1. m.role = "tool" /\ {"tool_result"} \in SUBSET Types
    BY <1>4 DEF ToolTurn, Types
  <2>2. /\ {"tool_result"} \cap {"tool_call"} = {} /\ {"tool_result"} \cap ({"text"} \cup Image) = {}
        /\ {"tool_result"} \cap Image = {}
    BY DEF Image
  <2>3. Of({"text"} \cup Image, m) = << >> /\ Of({"tool_call"}, m) = << >>
    BY <1>4, <2>2, OfNone
  <2>. QED  BY <1>0, <1>01, <1>4, <2>1, <2>2, <2>3
<1>. QED
  <2>1. m \in ToolTurn => m.content \in Seq(Typed({"text"})) \cup Seq(Typed({"tool_result"}))
    BY DEF ToolTurn
  <2>. QED  BY <1>1, <1>2, <1>3, <1>4, <2>1 DEF Turn

-----------------------------------------------------------------------------
(* What a provider is sent of a message.                                   *)

\* A message that was cut down to its texts and images.
LEMMA SpokenIsKept ==
  ASSUME NEW m, m.content \in Seq(Block), NEW r
  PROVE  /\ Contents(Wire(r, OrNoText(Contents(m)))) = Contents(m)
         /\ Texts(Wire(r, OrNoText(Contents(m)))) = Texts(m)
         /\ Calls(Wire(r, OrNoText(Contents(m)))) = << >>
         /\ Results(Wire(r, OrNoText(Contents(m)))) = << >>
         /\ OrNoText(Contents(m)) \in Seq(Block)
<1>. USE DEF Calls, Results, Contents, Texts
<1>1. PICK b \in Seq(Block) : b = Contents(m)
  <2>1. Speech \in SUBSET Types
    BY DEF Speech, Types
  <2>. QED  BY <2>1, OfIsSeq DEF Speech
<1>2. \A X : /\ Of(X, Wire(r, OrNoText(b))) = Of(X, Wire(r, b))
             /\ OrNoText(b) \in Seq(Block)
  BY OfOrNoText
<1>3. \A X : Of(X, Wire(r, b)) = Of(X \cap ({"text"} \cup Image), m)
  BY <1>1, OfOf
<1>4. /\ ({"text"} \cup Image) \cap ({"text"} \cup Image) = {"text"} \cup Image
      /\ {"text"} \cap ({"text"} \cup Image) = {"text"}
      /\ {"tool_call"} \cap ({"text"} \cup Image) = {}
      /\ {"tool_result"} \cap ({"text"} \cup Image) = {}
  BY DEF Image
<1>5. Of({}, m) = << >>
  BY TypedBlocks, OfNone
<1>. QED  BY <1>1, <1>2, <1>3, <1>4, <1>5

\* The texts and calls of an assistant's message.
LEMMA CalledIsKept ==
  ASSUME NEW m \in Turn \cup SystemTurn, m.role = "assistant", NEW r
  PROVE  /\ Contents(Wire(r, Texts(m) \o Calls(m))) = Contents(m)
         /\ Texts(Wire(r, Texts(m) \o Calls(m))) = Texts(m)
         /\ Calls(Wire(r, Texts(m) \o Calls(m))) = Calls(m)
         /\ Results(Wire(r, Texts(m) \o Calls(m))) = Results(m)
         /\ Texts(m) \o Calls(m) \in Seq(Block)
<1>0. m.content \in Seq(Block) /\ Contents(m) = Texts(m) /\ Results(m) = << >>
  BY TurnHas
<1>. USE DEF Calls, Results, Contents, Texts
<1>1. PICK t \in Seq(Block), c \in Seq(Block) : t = Texts(m) /\ c = Calls(m)
  <2>1. {"text"} \in SUBSET Types /\ {"tool_call"} \in SUBSET Types
    BY DEF Types
  <2>. QED  BY <1>0, <2>1, OfIsSeq
<1>2. \A X : Of(X, Wire(r, t \o c)) = Of(X, Wire(r, t)) \o Of(X, Wire(r, c))
  BY OfConcat
<1>3. \A X : /\ Of(X, Wire(r, t)) = Of(X \cap {"text"}, m)
             /\ Of(X, Wire(r, c)) = Of(X \cap {"tool_call"}, m)
  BY <1>0, <1>1, OfOf
<1>4. /\ ({"text"} \cup Image) \cap {"text"} = {"text"}
      /\ ({"text"} \cup Image) \cap {"tool_call"} = {}
      /\ {"text"} \cap {"tool_call"} = {} /\ {"text"} \cap {"text"} = {"text"}
      /\ {"tool_call"} \cap {"tool_call"} = {"tool_call"} /\ {"tool_call"} \cap {"text"} = {}
      /\ {"tool_result"} \cap {"text"} = {} /\ {"tool_result"} \cap {"tool_call"} = {}
  BY DEF Image
<1>5. Of({}, m) = << >>
  BY <1>0, TypedBlocks, OfNone
<1>6. t \o << >> = t /\ << >> \o c = c /\ << >> \o << >> = << >> /\ t \o c \in Seq(Block)
  BY ConcatEmptySeq
<1>7. /\ Of({"text"} \cup Image, Wire(r, t \o c)) = t \o << >>
      /\ Of({"text"}, Wire(r, t \o c)) = t \o << >>
      /\ Of({"tool_call"}, Wire(r, t \o c)) = << >> \o c
      /\ Of({"tool_result"}, Wire(r, t \o c)) = << >> \o << >>
  <2>1. \A X : Of(X, Wire(r, t \o c)) = Of(X \cap {"text"}, m) \o Of(X \cap {"tool_call"}, m)
    BY <1>2, <1>3
  <2>. QED  BY <1>1, <1>4, <1>5, <2>1
<1>. QED  BY <1>0, <1>1, <1>6, <1>7

\* The results of a tool message.
LEMMA ResultedIsKept ==
  ASSUME NEW m \in Turn \cup SystemTurn, Results(m) # << >>, NEW r
  PROVE  /\ Contents(Wire(r, Results(m))) = << >>
         /\ Calls(Wire(r, Results(m))) = << >>
         /\ Results(Wire(r, Results(m))) = Results(m)
         /\ Results(m) \in Seq(Block)
         /\ m.role = "tool" /\ Contents(m) = << >> /\ Calls(m) = << >>
<1>0. /\ m.content \in Seq(Block) /\ m.role = "tool" /\ Contents(m) = << >> /\ Calls(m) = << >>
  BY TurnHas
<1>. USE DEF Calls, Results, Contents, Texts
<1>1. \A X : Of(X, Wire(r, Results(m))) = Of(X \cap {"tool_result"}, m)
  BY <1>0, OfOf
<1>2. /\ ({"text"} \cup Image) \cap {"tool_result"} = {} /\ {"tool_call"} \cap {"tool_result"} = {}
      /\ {"tool_result"} \cap {"tool_result"} = {"tool_result"}
  BY DEF Image
<1>3. Of({}, m) = << >>
  BY <1>0, TypedBlocks, OfNone
<1>4. Results(m) \in Seq(Block)
  <2>1. {"tool_result"} \in SUBSET Types
    BY DEF Types
  <2>. QED  BY <1>0, <2>1, OfIsSeq
<1>. QED  BY <1>0, <1>1, <1>2, <1>3, <1>4

\* MessageToOpenAI loses nothing but the results after the first.
LEMMA ToOpenAI ==
  ASSUME NEW m \in Turn \cup SystemTurn, NEW w, w = MessageToOpenAI(m)
  PROVE  /\ w.content \in Seq(Block)
         /\ w.role = m.role
         /\ Contents(w) = Contents(m)
         /\ Calls(w) = Calls(m)
         /\ Len(Results(m)) <= 1 => Results(w) = Results(m)
         /\ m.role = "assistant" => Texts(w) = Texts(m)
<1>0. /\ m.content \in Seq(Block)
      /\ m.role # "assistant" => Calls(m) = << >>
      /\ m.role # "tool" => Results(m) = << >>
  BY TurnHas
<1>1. CASE Calls(m) # << >> /\ m.role = "assistant"
  <2>1. w = Wire("assistant", Texts(m) \o Calls(m))
    BY <1>1 DEF MessageToOpenAI
  <2>2. /\ Contents(w) = Contents(m) /\ Texts(w) = Texts(m) /\ Calls(w) = Calls(m)
        /\ Results(w) = Results(m) /\ Texts(m) \o Calls(m) \in Seq(Block)
    BY <1>1, <2>1, CalledIsKept
  <2>3. w.content = Texts(m) \o Calls(m) /\ w.role = m.role
    BY <1>1, <2>1 DEF Wire
  <2>. QED  BY <2>2, <2>3
<1>2. CASE Results(m) # << >> /\ m.role = "tool"
  <2>1. w = Wire("tool", <<Results(m)[1]>>)
    BY <1>2 DEF MessageToOpenAI
  <2>2. PICK b \in Seq(Typed({"tool_result"}) \ {NoText}) : b = Results(m)
    <3>1. {"tool_result"} \in SUBSET Types
      BY DEF Types
    <3>. QED  BY <1>0, <3>1, OfIsSeq DEF Results
  <2>3. b # << >> /\ Len(b) \in Nat /\ Len(b) # 0
    BY <1>2, <2>2, EmptySeq
  <2>4. b[1] \in Typed({"tool_result"}) \ {NoText}
    BY <2>3
  <2>5. Keep(<<b[1]>>, Typed({"text"} \cup Image) \ {NoText}) = << >>
        /\ Keep(<<b[1]>>, Typed({"tool_call"}) \ {NoText}) = << >>
        /\ Keep(<<b[1]>>, Typed({"tool_result"}) \ {NoText}) = <<b[1]>>
    <3>1. /\ b[1] \notin Typed({"text"} \cup Image) \ {NoText}
          /\ b[1] \notin Typed({"tool_call"}) \ {NoText}
      BY <2>4 DEF Typed, Image
    <3>. QED  BY <2>4, <3>1, KeepOne
  <2>6. Len(b) <= 1 => <<b[1]>> = b
    <3>1. Len(b) <= 1 => Len(b) = 1
      <4>1. \A n \in Nat : n <= 1 /\ n # 0 => n = 1
        OBVIOUS
      <4>. QED  BY <2>3, <4>1
    <3>2. Len(<<b[1]>>) = 1 /\ <<b[1]>>[1] = b[1] /\ <<b[1]>> \in Seq(Typed({"tool_result"}) \ {NoText})
      BY <2>4
    <3>3. \A i \in 1..1 : i = 1
      OBVIOUS
    <3>. QED  BY <3>1, <3>2, <3>3, SeqEqual
  <2>7. <<b[1]>> \in Seq(Block)
    BY <2>4, TypedBlocks DEF Types, Typed
  <2>8. Contents(m) = << >> /\ Calls(m) = << >>
    BY <1>2, ResultedIsKept
  <2>9. /\ Contents(w) = << >> /\ Calls(w) = << >> /\ Results(w) = <<b[1]>>
    BY <2>1, <2>2, <2>5 DEF Contents, Calls, Results, Of, Typed, Wire
  <2>10. w.content = <<b[1]>> /\ w.role = "tool"
    BY <2>1, <2>2 DEF Wire
  <2>. QED  BY <1>2, <2>2, <2>6, <2>7, <2>8, <2>9, <2>10
<1>3. CASE ~(Calls(m) # << >> /\ m.role = "assistant") /\ ~(Results(m) # << >> /\ m.role = "tool")
  <2>1. w = Wire(m.role, OrNoText(Contents(m)))
    BY <1>3 DEF MessageToOpenAI
  <2>2. Calls(m) = << >> /\ Results(m) = << >>
    BY <1>0, <1>3
  <2>3. /\ Contents(w) = Contents(m) /\ Texts(w) = Texts(m) /\ Calls(w) = << >>
        /\ Results(w) = << >> /\ OrNoText(Contents(m)) \in Seq(Block)
    BY <1>0, <2>1, SpokenIsKept
  <2>4. w.content = OrNoText(Contents(m)) /\ w.role = m.role
    BY <2>1 DEF Wire
  <2>. QED  BY <2>2, <2>3, <2>4
<1>. QED  BY <1>1, <1>2, <1>3

Visible == (Typed(Speech) \ {NoText}) \cap Shown

\* What Anthropic sees of an image.
LEMMA TextsForImages ==
  ASSUME NEW b \in Visible
  PROVE  /\ AsText(b) \in Visible
         /\ AsText(b).id = b.id
         /\ b.type = "text" => AsText(b) = b
BY DEF Visible, AsText, Typed, Text, NoText, Shown, Block, Image, Speech

\* An image's address becomes a text, with its number.
LEMMA ToAnthropic ==
  ASSUME NEW m \in Turn, NEW w, w = MessageToAnthropic(m)
  PROVE  /\ w.content \in Seq(Block)
         /\ w.role = IF m.role = "assistant" THEN "assistant" ELSE "user"
         /\ Ids(Contents(w)) = Ids(Contents(m))
         /\ Calls(w) = Calls(m)
         /\ Results(w) = Results(m)
         /\ m.role = "assistant" => Texts(w) = Texts(m)
<1>0. /\ m.content \in Seq(Block)
      /\ m.role # "assistant" => Calls(m) = << >>
      /\ m.role # "tool" => Results(m) = << >>
      /\ m.role = "assistant" => Contents(m) = Texts(m)
  BY TurnHas
<1>. DEFINE role == IF m.role = "assistant" THEN "assistant" ELSE "user"
<1>1. CASE Results(m) # << >>
  <2>1. w = Wire("user", Results(m))
    BY <1>1 DEF MessageToAnthropic
  <2>2. /\ Contents(w) = << >> /\ Calls(w) = << >> /\ Results(w) = Results(m)
        /\ Results(m) \in Seq(Block) /\ m.role = "tool" /\ Contents(m) = << >> /\ Calls(m) = << >>
    BY <1>1, <2>1, ResultedIsKept
  <2>3. w.content = Results(m) /\ w.role = "user"
    BY <2>1 DEF Wire
  <2>. QED  BY <2>2, <2>3
<1>2. CASE Results(m) = << >> /\ Calls(m) # << >> /\ m.role = "assistant"
  <2>1. w = Wire("assistant", Texts(m) \o Calls(m))
    BY <1>2 DEF MessageToAnthropic
  <2>2. /\ Contents(w) = Contents(m) /\ Texts(w) = Texts(m) /\ Calls(w) = Calls(m)
        /\ Results(w) = Results(m) /\ Texts(m) \o Calls(m) \in Seq(Block)
    BY <1>2, <2>1, CalledIsKept
  <2>3. w.content = Texts(m) \o Calls(m) /\ w.role = m.role
    BY <1>2, <2>1 DEF Wire
  <2>. QED  BY <1>2, <2>2, <2>3
<1>3. CASE Results(m) = << >> /\ ~(Calls(m) # << >> /\ m.role = "assistant")
  <2>0. Calls(m) = << >>
    BY <1>0, <1>3
  <2>. DEFINE T == Visible
  <2>1. PICK c \in Seq(T) : c = Contents(m)
    <3>1. m.content \in Seq(Shown)
      BY TurnHas
    <3>2. Contents(m) \in Seq(Shown \cap (Typed(Speech) \ {NoText}))
      BY <3>1, KeepType DEF Contents, Of, Speech, Typed
    <3>3. Shown \cap (Typed(Speech) \ {NoText}) = T
      BY DEF Visible
    <3>. QED  BY <3>2, <3>3
  <2>2. PICK a : a = [i \in DOMAIN c |-> AsText(c[i])]
    OBVIOUS
  <2>. HIDE DEF T
  <2>4. /\ a \in Seq(T) /\ DOMAIN a = DOMAIN c
        /\ \A i \in DOMAIN c : c[i] \in T /\ a[i] = AsText(c[i])
    <3>1. \A i \in 1..Len(c) : c[i] \in T /\ DOMAIN c = 1..Len(c) /\ Len(c) \in Nat
      BY <2>1, ElementOfSeq, LenProperties
    <3>2. DOMAIN c = 1..Len(c) /\ Len(c) \in Nat
      BY <2>1, LenProperties
    <3>3. ASSUME NEW i \in 1..Len(c) PROVE c[i] \in T /\ AsText(c[i]) \in T
      <4>1. c[i] \in T
        BY <3>1
      <4>. QED  BY <4>1, TextsForImages DEF T
    <3>4. a = [i \in 1..Len(c) |-> AsText(c[i])]
      BY <2>2, <3>2
    <3>5. a \in Seq(T)
      BY <3>2, <3>3, <3>4, IsASeq
    <3>. QED  BY <3>2, <3>3, <3>4, <3>5
  <2>5. w = Wire(role, OrNoText(a))
    BY <1>3, <2>1, <2>2 DEF MessageToAnthropic
  <2>6. Typed(Speech) \ {NoText} \subseteq Typed(Speech) /\ Typed(Speech) \subseteq Block
        /\ T \subseteq Typed(Speech) \ {NoText}
    BY TypedBlocks DEF T, Visible, Typed, Speech, Types
  <2>7. a \in Seq(Block) /\ a \in Seq(Typed(Speech) \ {NoText}) /\ a \in Seq(Typed(Speech))
    BY <2>4, <2>6, SeqMonotonic
  <2>8. /\ OrNoText(a) \in Seq(Block)
        /\ \A X : Of(X, w) = Of(X, Wire(role, a))
    BY <2>5, <2>7, OfOrNoText
  <2>9. Contents(w) = a
    <3>1. Keep(a, Typed(Speech) \ {NoText}) = a
      BY <2>7, KeepAll
    <3>. QED  BY <2>8, <3>1 DEF Contents, Of, Wire, Speech, Typed
  <2>10. Calls(w) = << >> /\ Results(w) = << >>
    <3>1. Speech \cap {"tool_call"} = {} /\ Speech \cap {"tool_result"} = {}
      BY DEF Speech, Image
    <3>2. Wire(role, a).content \in Seq(Typed(Speech))
      BY <2>7 DEF Wire
    <3>. QED  BY <2>8, <3>1, <3>2, OfNone DEF Calls, Results
  <2>11. Ids(a) = Ids(c)
    <3>1. ASSUME NEW i \in DOMAIN c PROVE a[i].id = c[i].id
      <4>1. c[i] \in T /\ a[i] = AsText(c[i])
        BY <2>4
      <4>. QED  BY <4>1, TextsForImages DEF T
    <3>. QED  BY <2>4, <3>1 DEF Ids
  <2>12. ASSUME m.role = "assistant" PROVE Texts(w) = Texts(m)
    <3>1. c \in Seq(Typed({"text"}) \ {NoText})
      <4>1. {"text"} \in SUBSET Types
        BY DEF Types
      <4>. QED  BY <1>0, <2>1, <2>12, <4>1, OfIsSeq DEF Texts
    <3>2. \A i \in DOMAIN c : c[i].type = "text"
      <4>1. \A i \in DOMAIN c : c[i] \in Typed({"text"}) \ {NoText}
        BY <3>1, ElementOfSeq, LenProperties
      <4>. QED  BY <4>1 DEF Typed
    <3>3. a = c
      <4>1. ASSUME NEW i \in DOMAIN c PROVE AsText(c[i]) = c[i]
        <5>1. c[i] \in T /\ c[i].type = "text"
          BY <2>4, <3>2
        <5>. QED  BY <5>1, TextsForImages DEF T
      <4>2. c = [i \in DOMAIN c |-> c[i]]
        BY <2>1, LenProperties
      <4>. QED  BY <2>2, <4>1, <4>2
    <3>4. Keep(c, Typed({"text"}) \ {NoText}) = c
      BY <3>1, KeepAll
    <3>. QED  BY <1>0, <2>1, <2>8, <2>12, <3>3, <3>4 DEF Texts, Of, Wire, Typed
  <2>13. w.content = OrNoText(a) /\ w.role = role
    BY <2>5 DEF Wire
  <2>. QED  BY <1>3, <2>0, <2>1, <2>8, <2>9, <2>10, <2>11, <2>12, <2>13
<1>. QED  BY <1>1, <1>2, <1>3

-----------------------------------------------------------------------------
(* The numbers of the blocks of a list of messages.                        *)

\* The messages of a prompt and of a request.
Sent == [role : Role \cup {"model"}, content : Seq(Block)]

AllIds(d, types) == FlattenSeq([i \in DOMAIN d |-> Ids(Of(types, d[i]))])

\* The messages of a conversation and the system message can be sent.
LEMMA TurnsAreSent == Turn \subseteq Sent /\ SystemMessage \in SystemTurn /\ SystemTurn \subseteq Sent
<1>1. ASSUME NEW m \in Turn \cup SystemTurn PROVE m \in Sent
  <2>1. m.content \in Seq(Block)
    BY TurnHas
  <2>2. /\ m = [role |-> m.role, content |-> m.content]
        /\ m.role \in Role
    BY DEF Turn, SystemTurn, UserTurn, AssistantTurn, ToolTurn, Role
  <2>. QED  BY <2>1, <2>2 DEF Sent
<1>2. SystemMessage \in SystemTurn
  <2>1. Text(1) \in Typed({"text"})
    BY DEF Text, Typed
  <2>2. <<Text(1)>> \in Seq(Typed({"text"}))
    BY <2>1
  <2>. QED  BY <2>2 DEF SystemMessage, SystemTurn
<1>. QED  BY <1>1, <1>2

\* The numbers of blocks, one by one.
LEMMA IdsType ==
  ASSUME NEW b \in Seq(Block)
  PROVE  /\ Ids(b) \in Seq(Nat)
         /\ Len(Ids(b)) = Len(b) /\ Len(b) \in Nat
         /\ DOMAIN Ids(b) = 1..Len(b)
         /\ \A i \in 1..Len(b) : Ids(b)[i] = b[i].id
<1>1. DOMAIN b = 1..Len(b) /\ Len(b) \in Nat
  BY LenProperties
<1>2. ASSUME NEW i \in 1..Len(b) PROVE b[i].id \in Nat
  <2>1. b[i] \in Block
    BY ElementOfSeq
  <2>. QED  BY <2>1 DEF Block
<1>3. Ids(b) = [i \in 1..Len(b) |-> b[i].id]
  BY <1>1 DEF Ids
<1>4. Ids(b) \in Seq(Nat)
  BY <1>1, <1>2, <1>3, IsASeq
<1>5. Len(Ids(b)) = Len(b)
  BY <1>1, <1>3
<1>. QED  BY <1>1, <1>3, <1>4, <1>5

\* The numbers of two lists of blocks.
LEMMA IdsConcat ==
  ASSUME NEW a \in Seq(Block), NEW b \in Seq(Block)
  PROVE  Ids(a \o b) = Ids(a) \o Ids(b)
<1>1. PICK x \in Seq(Nat), y \in Seq(Nat), c \in Seq(Block) : x = Ids(a) /\ y = Ids(b) /\ c = a \o b
  BY IdsType, ConcatProperties
<1>2. /\ Len(x) = Len(a) /\ Len(y) = Len(b) /\ Len(a) \in Nat /\ Len(b) \in Nat
      /\ \A i \in 1..Len(a) : x[i] = a[i].id
      /\ \A i \in 1..Len(b) : y[i] = b[i].id
  BY <1>1, IdsType
<1>3. /\ Len(c) = Len(a) + Len(b)
      /\ \A i \in 1..Len(a) + Len(b) : c[i] = IF i <= Len(a) THEN a[i] ELSE b[i - Len(a)]
  BY <1>1, ConcatProperties
<1>4. /\ x \o y \in Seq(Nat) /\ Len(x \o y) = Len(a) + Len(b)
      /\ \A i \in 1..Len(a) + Len(b) : (x \o y)[i] = IF i <= Len(a) THEN x[i] ELSE y[i - Len(a)]
  <2>1. /\ x \o y \in Seq(Nat) /\ Len(x \o y) = Len(x) + Len(y)
        /\ \A i \in 1..Len(x) + Len(y) : (x \o y)[i] = IF i <= Len(x) THEN x[i] ELSE y[i - Len(x)]
    BY ConcatProperties
  <2>2. Len(x) = Len(a) /\ Len(y) = Len(b)
    BY <1>2
  <2>. QED  BY <2>1, <2>2
<1>5. /\ Ids(c) \in Seq(Nat) /\ Len(Ids(c)) = Len(c)
      /\ \A i \in 1..Len(c) : Ids(c)[i] = c[i].id
  BY IdsType
<1>6. ASSUME NEW i \in 1..Len(Ids(c)) PROVE Ids(c)[i] = (x \o y)[i]
  <2>1. i \in 1..Len(a) + Len(b) /\ Ids(c)[i] = c[i].id
    BY <1>3, <1>5
  <2>2. CASE i <= Len(a)
    <3>1. i \in 1..Len(a)
      BY <1>2, <2>1, <2>2
    <3>. QED  BY <1>2, <1>3, <1>4, <2>1, <2>2, <3>1
  <2>3. CASE ~(i <= Len(a))
    <3>1. i - Len(a) \in 1..Len(b)
      BY <1>2, <2>1, <2>3
    <3>2. c[i] = b[i - Len(a)] /\ (x \o y)[i] = y[i - Len(a)]
      BY <1>3, <1>4, <2>1, <2>3
    <3>. QED  BY <1>2, <2>1, <3>1, <3>2
  <2>. QED  BY <2>2, <2>3
<1>7. Ids(c) = x \o y
  BY <1>3, <1>4, <1>5, <1>6, SeqEqual
<1>. QED  BY <1>1, <1>7

\* The numbers of each of a list of lists.
Each(ss) == [i \in DOMAIN ss |-> Ids(ss[i])]

\* The numbers of a list of lists of blocks.
LEMMA IdsFlatten ==
  ASSUME NEW ss \in Seq(Seq(Block))
  PROVE  Ids(FlattenSeq(ss)) = FlattenSeq(Each(ss)) /\ Each(ss) \in Seq(Seq(Nat))
<1>. DEFINE P == {tt \in Seq(Seq(Block)) :
                    Ids(FlattenSeq(tt)) = FlattenSeq(Each(tt)) /\ Each(tt) \in Seq(Seq(Nat))}
<1>1. << >> \in P
  <2>1. Each(<< >>) = << >> /\ Ids(<< >>) = << >>
    BY DEF Each, Ids
  <2>2. << >> \in Seq(Seq(Nat)) /\ << >> \in Seq(Seq(Block))
    BY EmptySeq
  <2>. QED  BY <2>1, <2>2, FlattenEmpty
<1>2. ASSUME NEW tt \in P, NEW e \in Seq(Block) PROVE Append(tt, e) \in P
  <2>1. PICK ee \in Seq(Seq(Nat)) : ee = Each(tt) /\ Ids(FlattenSeq(tt)) = FlattenSeq(ee)
    OBVIOUS
  <2>2. PICK u \in Seq(Seq(Block)) : u = Append(tt, e)
    <3>1. Append(tt, e) \in Seq(Seq(Block))
      OBVIOUS
    <3>. QED  BY <3>1
  <2>3. PICK one \in Seq(Nat) : one = Ids(e)
    BY IdsType
  <2>4. Each(u) = Append(ee, one)
    <3>1. /\ Len(u) = Len(tt) + 1 /\ u[Len(tt) + 1] = e /\ Len(tt) \in Nat
          /\ DOMAIN u = 1..Len(tt) + 1 /\ DOMAIN tt = 1..Len(tt)
          /\ \A i \in 1..Len(tt) : u[i] = tt[i]
      BY <2>2
    <3>2. ee = [i \in 1..Len(tt) |-> Ids(tt[i])] /\ Len(ee) = Len(tt)
      BY <2>1, <3>1 DEF Each
    <3>3. Each(u) = [i \in 1..Len(tt) + 1 |-> Ids(u[i])]
      BY <3>1 DEF Each
    <3>4. /\ DOMAIN Append(ee, one) = 1..Len(tt) + 1
          /\ Append(ee, one)[Len(tt) + 1] = one
          /\ \A i \in 1..Len(tt) : Append(ee, one)[i] = ee[i]
          /\ Append(ee, one) = [i \in 1..Len(tt) + 1 |-> Append(ee, one)[i]]
      BY <3>2
    <3>5. ASSUME NEW i \in 1..Len(tt) + 1 PROVE Append(ee, one)[i] = Ids(u[i])
      <4>1. CASE i = Len(tt) + 1
        BY <2>3, <3>1, <3>4, <4>1
      <4>2. CASE i # Len(tt) + 1
        <5>1. i \in 1..Len(tt)
          BY <3>1, <4>2
        <5>. QED  BY <3>1, <3>2, <3>4, <5>1
      <4>. QED  BY <4>1, <4>2
    <3>. QED  BY <3>3, <3>4, <3>5
  <2>5. FlattenSeq(tt) \in Seq(Block) /\ FlattenSeq(ee) \in Seq(Nat)
    BY FlattenType
  <2>6. FlattenSeq(u) = FlattenSeq(tt) \o e
    BY <2>2, <2>5, FlattenAppend
  <2>7. FlattenSeq(Append(ee, one)) = FlattenSeq(ee) \o one
    BY <2>5, FlattenAppend
  <2>8. Ids(FlattenSeq(tt) \o e) = FlattenSeq(ee) \o one
    BY <2>1, <2>3, <2>5, IdsConcat
  <2>9. Append(ee, one) \in Seq(Seq(Nat))
    OBVIOUS
  <2>. QED  BY <2>2, <2>4, <2>6, <2>7, <2>8, <2>9
<1>3. P = Seq(Seq(Block))
  <2>. HIDE DEF P
  <2>1. P \in SUBSET Seq(Seq(Block))
    BY DEF P
  <2>. QED  BY <1>1, <1>2, <2>1, SeqInduction
<1>. QED  BY <1>3

\* The blocks of some types, message by message.
Blocks(d, types) == [i \in DOMAIN d |-> Of(types, d[i])]

\* The blocks of each message.
LEMMA BlocksType ==
  ASSUME NEW d \in Seq(Sent), NEW X \in SUBSET Types
  PROVE  /\ Blocks(d, X) \in Seq(Seq(Block))
         /\ Len(Blocks(d, X)) = Len(d) /\ Len(d) \in Nat /\ DOMAIN d = 1..Len(d)
         /\ \A i \in 1..Len(d) : Blocks(d, X)[i] = Of(X, d[i])
<1>1. DOMAIN d = 1..Len(d) /\ Len(d) \in Nat
  BY LenProperties
<1>2. ASSUME NEW i \in 1..Len(d) PROVE Of(X, d[i]) \in Seq(Block)
  <2>1. d[i] \in Sent
    BY ElementOfSeq
  <2>2. d[i].content \in Seq(Block)
    BY <2>1 DEF Sent
  <2>. QED  BY <2>2, OfIsSeq
<1>3. Blocks(d, X) = [i \in 1..Len(d) |-> Of(X, d[i])]
  BY <1>1 DEF Blocks
<1>4. Blocks(d, X) \in Seq(Seq(Block))
  BY <1>1, <1>2, <1>3, IsASeq
<1>5. Len(Blocks(d, X)) = Len(d)
  BY <1>1, <1>3
<1>. QED  BY <1>1, <1>3, <1>4, <1>5

\* Two ways to take the numbers of a list of messages.
LEMMA AllIdsAre ==
  ASSUME NEW d \in Seq(Sent), NEW X \in SUBSET Types
  PROVE  /\ AllIds(d, X) = FlattenSeq(Each(Blocks(d, X)))
         /\ Each(Blocks(d, X)) \in Seq(Seq(Nat))
         /\ AllIds(d, X) = Ids(FlattenSeq(Blocks(d, X)))
         /\ AllIds(d, X) \in Seq(Nat)
<1>1. PICK b \in Seq(Seq(Block)) : b = Blocks(d, X)
  BY BlocksType
<1>2. Each(Blocks(d, X)) = [i \in DOMAIN d |-> Ids(Of(X, d[i]))]
  BY DEF Each, Blocks
<1>3. Ids(FlattenSeq(b)) = FlattenSeq(Each(b)) /\ Each(b) \in Seq(Seq(Nat))
  BY IdsFlatten
<1>4. FlattenSeq(Each(b)) \in Seq(Nat)
  BY <1>3, FlattenType
<1>. QED  BY <1>1, <1>2, <1>3, <1>4 DEF AllIds

\* AllOf of ModelCall takes the numbers of the blocks of some types.
LEMMA AllOfIs ==
  ASSUME NEW d \in Seq(Sent)
  PROVE  /\ AllOf(d, Contents) = AllIds(d, Speech)
         /\ AllOf(d, Calls) = AllIds(d, {"tool_call"})
         /\ AllOf(d, Results) = AllIds(d, {"tool_result"})
<1>1. Speech \in SUBSET Types /\ {"tool_call"} \in SUBSET Types /\ {"tool_result"} \in SUBSET Types
  BY DEF Speech, Types
<1>2. /\ AllOf(d, Contents) = Ids(FlattenSeq(Blocks(d, Speech)))
      /\ AllOf(d, Calls) = Ids(FlattenSeq(Blocks(d, {"tool_call"})))
      /\ AllOf(d, Results) = Ids(FlattenSeq(Blocks(d, {"tool_result"})))
  BY DEF AllOf, Blocks, Contents, Calls, Results, Speech
<1>. QED  BY <1>1, <1>2, AllIdsAre

\* The numbers of two lists of messages.
LEMMA AllIdsConcat ==
  ASSUME NEW d \in Seq(Sent), NEW e \in Seq(Sent), NEW X \in SUBSET Types
  PROVE  AllIds(d \o e, X) = AllIds(d, X) \o AllIds(e, X)
<1>1. PICK c \in Seq(Sent) : c = d \o e
  BY ConcatProperties
<1>2. PICK x \in Seq(Seq(Nat)), y \in Seq(Seq(Nat)), z \in Seq(Seq(Nat)) :
         x = Each(Blocks(d, X)) /\ y = Each(Blocks(e, X)) /\ z = Each(Blocks(c, X))
  BY AllIdsAre
<1>3. /\ Len(d) \in Nat /\ Len(e) \in Nat /\ Len(c) = Len(d) + Len(e)
      /\ \A i \in 1..Len(d) + Len(e) : c[i] = IF i <= Len(d) THEN d[i] ELSE e[i - Len(d)]
      /\ DOMAIN d = 1..Len(d) /\ DOMAIN e = 1..Len(e) /\ DOMAIN c = 1..Len(d) + Len(e)
  BY <1>1, ConcatProperties, LenProperties
<1>4. /\ x = [i \in 1..Len(d) |-> Ids(Of(X, d[i]))]
      /\ y = [i \in 1..Len(e) |-> Ids(Of(X, e[i]))]
      /\ z = [i \in 1..Len(d) + Len(e) |-> Ids(Of(X, c[i]))]
  BY <1>2, <1>3 DEF Each, Blocks
<1>5. Len(x) = Len(d) /\ Len(y) = Len(e) /\ Len(z) = Len(d) + Len(e)
  BY <1>3, <1>4
<1>6. /\ x \o y \in Seq(Seq(Nat)) /\ Len(x \o y) = Len(d) + Len(e)
      /\ \A i \in 1..Len(d) + Len(e) : (x \o y)[i] = IF i <= Len(d) THEN x[i] ELSE y[i - Len(d)]
  <2>1. /\ x \o y \in Seq(Seq(Nat)) /\ Len(x \o y) = Len(x) + Len(y)
        /\ \A i \in 1..Len(x) + Len(y) : (x \o y)[i] = IF i <= Len(x) THEN x[i] ELSE y[i - Len(x)]
    BY ConcatProperties
  <2>2. Len(x) = Len(d) /\ Len(y) = Len(e)
    BY <1>5
  <2>. QED  BY <2>1, <2>2
<1>7. ASSUME NEW i \in 1..Len(z) PROVE z[i] = (x \o y)[i]
  <2>1. i \in 1..Len(d) + Len(e) /\ z[i] = Ids(Of(X, c[i]))
    BY <1>4, <1>5
  <2>2. CASE i <= Len(d)
    <3>1. i \in 1..Len(d)
      BY <1>3, <2>1, <2>2
    <3>. QED  BY <1>3, <1>4, <1>6, <2>1, <2>2, <3>1
  <2>3. CASE ~(i <= Len(d))
    <3>1. i - Len(d) \in 1..Len(e)
      BY <1>3, <2>1, <2>3
    <3>2. c[i] = e[i - Len(d)] /\ (x \o y)[i] = y[i - Len(d)]
      BY <1>3, <1>6, <2>1, <2>3
    <3>. QED  BY <1>4, <2>1, <3>1, <3>2
  <2>. QED  BY <2>2, <2>3
<1>8. z = x \o y
  BY <1>5, <1>6, <1>7, SeqEqual
<1>9. FlattenSeq(x \o y) = FlattenSeq(x) \o FlattenSeq(y)
  BY FlattenConcat
<1>10. AllIds(c, X) = FlattenSeq(z) /\ AllIds(d, X) = FlattenSeq(x) /\ AllIds(e, X) = FlattenSeq(y)
  BY <1>2, AllIdsAre
<1>. QED  BY <1>1, <1>8, <1>9, <1>10

\* The numbers of one message, and of none.
LEMMA AllIdsOne ==
  ASSUME NEW m \in Sent, NEW X \in SUBSET Types
  PROVE  AllIds(<<m>>, X) = Ids(Of(X, m)) /\ AllIds(<< >>, X) = << >>
<1>1. m.content \in Seq(Block)
  BY DEF Sent
<1>2. PICK b \in Seq(Nat) : b = Ids(Of(X, m))
  BY <1>1, OfIsSeq, IdsType
<1>3. [i \in DOMAIN <<m>> |-> Ids(Of(X, <<m>>[i]))] = <<b>>
  <2>1. DOMAIN <<m>> = 1..1 /\ <<m>>[1] = m /\ \A i \in 1..1 : i = 1
    OBVIOUS
  <2>2. <<b>> = [i \in 1..1 |-> b]
    OBVIOUS
  <2>3. \A i \in 1..1 : <<m>>[i] = m
    BY <2>1
  <2>4. [i \in DOMAIN <<m>> |-> Ids(Of(X, <<m>>[i]))] = [i \in 1..1 |-> b]
    BY <1>2, <2>1, <2>3
  <2>. QED  BY <2>2, <2>4
<1>4. FlattenSeq(<<b>>) = b
  BY FlattenOne
<1>5. [i \in DOMAIN << >> |-> Ids(Of(X, << >>[i]))] = << >>
  OBVIOUS
<1>. QED  BY <1>2, <1>3, <1>4, <1>5, FlattenEmpty DEF AllIds

\* Only what each message has of the types counts.
LEMMA AllIdsSame ==
  ASSUME NEW d, NEW e, NEW X, NEW Y, DOMAIN d = DOMAIN e,
         \A i \in DOMAIN d : Ids(Of(X, d[i])) = Ids(Of(Y, e[i]))
  PROVE  AllIds(d, X) = AllIds(e, Y)
BY DEF AllIds

\* Messages without such blocks have no numbers.
LEMMA AllIdsNone ==
  ASSUME NEW d \in Seq(Sent), NEW X, \A i \in DOMAIN d : Of(X, d[i]) = << >>
  PROVE  AllIds(d, X) = << >>
<1>1. DOMAIN d = 1..Len(d) /\ Len(d) \in Nat
  BY LenProperties
<1>2. Ids(<< >>) = << >>
  BY DEF Ids
<1>3. PICK ss : ss = [i \in 1..Len(d) |-> << >>]
  OBVIOUS
<1>4. AllIds(d, X) = FlattenSeq(ss)
  BY <1>1, <1>2, <1>3 DEF AllIds
<1>5. ss \in Seq(Seq({}))
  <2>1. << >> \in Seq({})
    BY EmptySeq
  <2>. QED  BY <1>1, <1>3, <2>1, IsASeq
<1>6. FlattenSeq(ss) \in Seq({})
  BY <1>5, FlattenType
<1>7. FlattenSeq(ss) = << >>
  BY <1>6, EmptySeq, LenProperties, ElementOfSeq
<1>. QED  BY <1>4, <1>7

-----------------------------------------------------------------------------
(* Merging what is one role's, for Gemini.                                 *)

Part == [role : {"user", "model"}, content : Seq(Block)]

\* Gemini's contents can be sent.
LEMMA PartsAreSent == Part \subseteq Sent
BY DEF Part, Sent, Role

\* MessageToGemini loses calls and results, and nothing else.
LEMMA ToGemini ==
  ASSUME NEW m \in Turn, NEW w, w = MessageToGemini(m)
  PROVE  /\ w \in Part
         /\ w.role = IF m.role = "assistant" THEN "model" ELSE "user"
         /\ Contents(w) = Contents(m)
         /\ Texts(w) = Texts(m)
<1>. DEFINE role == IF m.role = "assistant" THEN "model" ELSE "user"
<1>1. m.content \in Seq(Block)
  BY TurnHas
<1>2. w = Wire(role, OrNoText(Contents(m)))
  BY DEF MessageToGemini
<1>3. /\ Contents(w) = Contents(m) /\ Texts(w) = Texts(m) /\ OrNoText(Contents(m)) \in Seq(Block)
  BY <1>1, <1>2, SpokenIsKept
<1>4. w \in Part /\ w.role = role
  BY <1>2, <1>3 DEF Wire, Part
<1>. QED  BY <1>3, <1>4

\* g has merged the first n of the contents.
Merges(g, cs, n) ==
  g = [i \in 0..n |-> IF i = 0 THEN << >> ELSE Onto(g[i - 1], cs[i])]

Merged(g, cs, n) ==
  \A i \in 0..n : g[i] = IF i = 0 THEN << >> ELSE Onto(g[i - 1], cs[i])

\* The merge goes on with one more content.
LEMMA MergeGrows ==
  ASSUME NEW cs, NEW n \in Nat, NEW g, Merges(g, cs, n)
  PROVE  \E h : Merges(h, cs, n + 1)
<1>. DEFINE step(f, i) == Onto(f[i - 1], cs[i])
            h == [i \in 0..(n + 1) |-> IF i = n + 1 THEN step(g, n + 1) ELSE g[i]]
<1>1. ASSUME NEW i \in 0..(n + 1) PROVE h[i] = IF i = 0 THEN << >> ELSE step(h, i)
  <2>1. CASE i = n + 1
    <3>1. h[n] = g[n] /\ i # 0 /\ i - 1 = n
      BY <2>1
    <3>. QED  BY <2>1, <3>1
  <2>2. CASE i # n + 1
    <3>1. i \in 0..n /\ (i # 0 => i - 1 \in 0..n /\ i - 1 # n + 1 /\ i - 1 \in 0..(n + 1))
      BY <2>2
    <3>2. g[i] = IF i = 0 THEN << >> ELSE step(g, i)
      BY <3>1 DEF Merges
    <3>. QED  BY <2>2, <3>1, <3>2
  <2>. QED  BY <2>1, <2>2
<1>2. h = [i \in 0..(n + 1) |-> IF i = 0 THEN << >> ELSE step(h, i)]
  <2>1. h = [i \in 0..(n + 1) |-> h[i]]
    OBVIOUS
  <2>. HIDE DEF h
  <2>. QED  BY <1>1, <2>1
<1>3. Merges(h, cs, n + 1)
  <2>. HIDE DEF h
  <2>. QED  BY <1>2 DEF Merges
<1>. QED  BY <1>3

\* The recursive function of Merge exists.
LEMMA MergeMerges ==
  ASSUME NEW cs, Len(cs) \in Nat
  PROVE  \E g : Merges(g, cs, Len(cs)) /\ Merge(cs) = g[Len(cs)]
<1>. DEFINE fine == {n \in Nat : \E g : Merges(g, cs, n)}
<1>1. 0 \in fine
  <2>1. Merges([i \in 0..0 |-> << >>], cs, 0)
    <3>1. \A i \in 0..0 : i = 0
      OBVIOUS
    <3>. QED  BY <3>1 DEF Merges
  <2>. QED  BY <2>1
<1>2. \A n \in fine : n + 1 \in fine
  BY MergeGrows
<1>3. fine = Nat
  <2>. HIDE DEF fine
  <2>1. fine \in SUBSET Nat
    BY DEF fine
  <2>. QED  BY <1>1, <1>2, <2>1, SetInduction
<1>4. Merge(cs) = (CHOOSE g : Merges(g, cs, Len(cs)))[Len(cs)]
  BY DEF Merge, Merges
<1>. QED  BY <1>3, <1>4

\* There is one way to merge.
LEMMA MergeIsUnique ==
  ASSUME NEW cs, NEW n \in Nat, NEW g, NEW h, Merged(g, cs, n), Merged(h, cs, n)
  PROVE  g[n] = h[n]
<1>. DEFINE fine == {k \in Nat : k <= n => g[k] = h[k]}
<1>1. 0 \in fine
  BY DEF Merged
<1>2. ASSUME NEW k \in fine, k + 1 <= n PROVE g[k + 1] = h[k + 1]
  <2>1. k + 1 \in 0..n /\ k + 1 # 0 /\ (k + 1) - 1 = k /\ g[k] = h[k]
    BY <1>2
  <2>. QED  BY <2>1 DEF Merged
<1>3. fine = Nat
  <2>1. fine \in SUBSET Nat /\ \A k \in fine : k + 1 \in fine
    BY <1>2
  <2>. HIDE DEF fine
  <2>. QED  BY <1>1, <2>1, SetInduction
<1>. QED  BY <1>3

\* Nothing to merge.
LEMMA MergeEmpty == Merge(<< >>) = << >>
<1>1. Len(<< >>) = 0
  OBVIOUS
<1>2. PICK g : Merges(g, << >>, 0) /\ Merge(<< >>) = g[0]
  BY <1>1, MergeMerges
<1>. QED  BY <1>2 DEF Merges

\* Merge in terms of Onto: the last content comes last.
LEMMA MergeAppend ==
  ASSUME NEW T, NEW s \in Seq(T), NEW e \in T
  PROVE  Merge(Append(s, e)) = Onto(Merge(s), e)
<1>1. PICK u : u = Append(s, e)
  OBVIOUS
<1>2. PICK n \in Nat : n = Len(s)
  OBVIOUS
<1>3. Len(u) = n + 1 /\ u[n + 1] = e /\ \A i \in 1..n : u[i] = s[i]
  BY <1>1, <1>2
<1>4. PICK g : Merges(g, s, n) /\ Merge(s) = g[n]
  BY <1>2, MergeMerges
<1>5. PICK h : Merges(h, u, n + 1) /\ Merge(u) = h[n + 1]
  BY <1>3, MergeMerges
<1>6. \A i \in 0..(n + 1) : h[i] = IF i = 0 THEN << >> ELSE Onto(h[i - 1], u[i])
  BY <1>5 DEF Merges
<1>7. g[n] = h[n]
  <2>1. Merged(g, s, n)
    BY <1>4 DEF Merges, Merged
  <2>2. Merged(h, s, n)
    <3>. SUFFICES ASSUME NEW i \in 0..n
                  PROVE  h[i] = IF i = 0 THEN << >> ELSE Onto(h[i - 1], s[i])
      BY DEF Merged
    <3>1. i \in 0..(n + 1) /\ (i # 0 => i \in 1..n)
      OBVIOUS
    <3>2. i # 0 => u[i] = s[i]
      BY <1>3, <3>1
    <3>. QED  BY <1>6, <3>1, <3>2
  <2>. QED  BY <2>1, <2>2, MergeIsUnique
<1>8. h[n + 1] = Onto(h[n], e)
  <2>1. n + 1 \in 0..(n + 1) /\ n + 1 # 0 /\ (n + 1) - 1 = n
    OBVIOUS
  <2>. QED  BY <1>3, <1>6, <2>1
<1>. QED  BY <1>1, <1>4, <1>5, <1>7, <1>8

Alternates(w) == \A i \in 1..(Len(w) - 1) : w[i].role # w[i + 1].role

Has(w, v) == \E i \in 1..Len(w) : w[i] = v

\* A list with a new last element.
LEMMA LastOfAppend ==
  ASSUME NEW T, NEW f \in Seq(T), NEW l \in T
  PROVE  /\ Append(f, l) # << >> /\ Last(Append(f, l)) = l /\ Front(Append(f, l)) = f
         /\ Append(f, l)[1] = IF f = << >> THEN l ELSE f[1]
         /\ \A v : Has(Append(f, l), v) <=> Has(f, v) \/ v = l
<1>1. PICK w \in Seq(T) : w = Append(f, l)
  BY AppendProperties
<1>2. /\ w # << >> /\ Len(w) = Len(f) + 1 /\ Len(f) \in Nat
      /\ \A i \in 1..Len(f) : w[i] = f[i]
      /\ w[Len(f) + 1] = l
  BY <1>1, AppendProperties, LenProperties
<1>3. Last(w) = l
  BY <1>2 DEF Last
<1>4. Front(w) = f
  <2>1. SubSeq(w, 1, Len(f)) \in Seq(T) /\ Len(SubSeq(w, 1, Len(f))) = Len(f)
        /\ \A i \in 1..Len(f) : SubSeq(w, 1, Len(f))[i] = w[i]
    BY <1>2
  <2>2. SubSeq(w, 1, Len(f)) = f
    BY <1>2, <2>1, SeqEqual
  <2>3. Len(w) - 1 = Len(f)
    BY <1>2
  <2>. QED  BY <2>2, <2>3 DEF Front
<1>5. w[1] = IF f = << >> THEN l ELSE f[1]
  <2>1. f = << >> => Len(f) = 0
    OBVIOUS
  <2>2. f # << >> => Len(f) # 0
    BY EmptySeq
  <2>3. Len(f) # 0 => 1 \in 1..Len(f)
    BY <1>2
  <2>4. Len(f) = 0 => Len(f) + 1 = 1
    OBVIOUS
  <2>. QED  BY <1>2, <2>1, <2>2, <2>3, <2>4
<1>6. ASSUME NEW v PROVE Has(w, v) <=> Has(f, v) \/ v = l
  <2>1. \A i \in 1..Len(w) : i \in 1..Len(f) \/ i = Len(f) + 1
    BY <1>2
  <2>2. Len(f) + 1 \in 1..Len(w) /\ \A i \in 1..Len(f) : i \in 1..Len(w)
    BY <1>2
  <2>. QED  BY <1>2, <2>1, <2>2 DEF Has
<1>. QED  BY <1>1, <1>2, <1>3, <1>4, <1>5, <1>6

\* When roles alternate in a longer list.
LEMMA AlternatesAppend ==
  ASSUME NEW f \in Seq(Part), NEW l \in Part
  PROVE  /\ Alternates(Append(f, l)) => Alternates(f)
         /\ Alternates(f) /\ (f # << >> => Last(f).role # l.role) => Alternates(Append(f, l))
         /\ \A k \in Part : k.role = l.role /\ Alternates(Append(f, l)) => Alternates(Append(f, k))
<1>1. ASSUME NEW k \in Part
      PROVE  /\ Append(f, k) \in Seq(Part) /\ Len(Append(f, k)) = Len(f) + 1 /\ Len(f) \in Nat
             /\ \A i \in 1..Len(f) : Append(f, k)[i] = f[i]
             /\ Append(f, k)[Len(f) + 1] = k
  BY AppendProperties, LenProperties
<1>2. ASSUME NEW k \in Part
      PROVE  Alternates(Append(f, k)) <=> Alternates(f) /\ (Len(f) # 0 => f[Len(f)].role # k.role)
  <2>1. PICK w : w = Append(f, k)
    OBVIOUS
  <2>2. /\ Len(w) = Len(f) + 1 /\ Len(f) \in Nat
        /\ \A i \in 1..Len(f) : w[i] = f[i]
        /\ w[Len(f) + 1] = k
    BY <1>1, <2>1
  <2>3. Len(w) - 1 = Len(f)
    BY <2>2
  <2>4. ASSUME NEW i \in 1..(Len(f) - 1)
        PROVE  i \in 1..Len(f) /\ i + 1 \in 1..Len(f) /\ i # Len(f)
    BY <2>2
  <2>5. \A i \in 1..Len(f) : i = Len(f) \/ i \in 1..(Len(f) - 1)
    BY <2>2
  <2>6. Len(f) # 0 => Len(f) \in 1..Len(f)
    BY <2>2
  <2>7. ASSUME Alternates(w) PROVE Alternates(f) /\ (Len(f) # 0 => f[Len(f)].role # k.role)
    <3>1. \A i \in 1..Len(f) : w[i].role # w[i + 1].role
      BY <2>3, <2>7 DEF Alternates
    <3>2. ASSUME NEW i \in 1..(Len(f) - 1) PROVE f[i].role # f[i + 1].role
      BY <2>2, <2>4, <3>1
    <3>. QED  BY <2>2, <2>6, <3>1, <3>2 DEF Alternates
  <2>8. ASSUME Alternates(f), Len(f) # 0 => f[Len(f)].role # k.role PROVE Alternates(w)
    <3>1. ASSUME NEW i \in 1..Len(f) PROVE w[i].role # w[i + 1].role
      <4>1. CASE i = Len(f)
        BY <2>2, <2>6, <2>8, <4>1
      <4>2. CASE i # Len(f)
        <5>1. i \in 1..(Len(f) - 1)
          BY <2>5, <4>2
        <5>2. f[i].role # f[i + 1].role
          BY <2>8, <5>1 DEF Alternates
        <5>. QED  BY <2>2, <2>4, <5>1, <5>2
      <4>. QED  BY <4>1, <4>2
    <3>. QED  BY <2>3, <3>1 DEF Alternates
  <2>. QED  BY <2>1, <2>7, <2>8
<1>3. f # << >> <=> Len(f) # 0
  BY EmptySeq
<1>4. f # << >> => Last(f) = f[Len(f)]
  BY DEF Last
<1>. QED  BY <1>2, <1>3, <1>4

\* One more content: it joins the last one, or is the last one.
JoinedWell(w, e, u) ==
  /\ u \in Seq(Part) /\ u # << >> /\ Alternates(u)
  /\ Last(u).role = e.role
  /\ u[1].role = IF w = << >> THEN e.role ELSE w[1].role
  /\ \A X \in SUBSET Types : AllIds(u, X) = AllIds(w, X) \o Ids(Of(X, e))
  /\ ~(w # << >> /\ Last(w).role = e.role) => Has(u, e)
  /\ \A v : Has(w, v) /\ v.role = "model" =>
       Has(u, v) \/ (w # << >> /\ Last(w).role = "model" /\ e.role = "model")

\* One more content is merged as it should be.
LEMMA OntoFits ==
  ASSUME NEW w \in Seq(Part), Alternates(w), NEW e \in Part, NEW u, u = Onto(w, e)
  PROVE  JoinedWell(w, e, u)
<1>0. e \in Sent /\ \A s \in Seq(Part) : s \in Seq(Sent)
  BY PartsAreSent, SeqMonotonic
<1>1. CASE ~(w # << >> /\ Last(w).role = e.role)
  <2>1. u = Append(w, e)
    BY <1>1 DEF Onto
  <2>2. u \in Seq(Part) /\ u # << >>
    BY <2>1, AppendProperties
  <2>3. Alternates(u)
    BY <1>1, <2>1, AlternatesAppend
  <2>4. Last(u) = e /\ u[1] = (IF w = << >> THEN e ELSE w[1]) /\ \A v : Has(u, v) <=> Has(w, v) \/ v = e
    BY <2>1, LastOfAppend
  <2>5. ASSUME NEW X \in SUBSET Types PROVE AllIds(u, X) = AllIds(w, X) \o Ids(Of(X, e))
    <3>1. u = w \o <<e>> /\ <<e>> \in Seq(Sent) /\ w \in Seq(Sent)
      BY <1>0, <2>1, AppendIsConcat
    <3>. QED  BY <1>0, <3>1, AllIdsConcat, AllIdsOne
  <2>. QED  BY <1>1, <2>2, <2>3, <2>4, <2>5 DEF JoinedWell
<1>2. CASE w # << >> /\ Last(w).role = e.role
  <2>1. PICK f \in Seq(Part), l \in Part : w = Append(f, l)
    BY <1>2, SequenceEmptyOrAppend
  <2>2. Last(w) = l /\ Front(w) = f /\ w[1] = (IF f = << >> THEN l ELSE f[1])
        /\ \A v : Has(w, v) <=> Has(f, v) \/ v = l
    BY <2>1, LastOfAppend
  <2>3. PICK k : k = [e EXCEPT !.content = l.content \o @]
    OBVIOUS
  <2>4. k \in Part /\ k.role = e.role /\ k.content = l.content \o e.content
    <3>1. l.content \in Seq(Block) /\ e.content \in Seq(Block) /\ l.content \o e.content \in Seq(Block)
      BY ConcatProperties DEF Part
    <3>. QED  BY <2>3, <3>1 DEF Part
  <2>5. u = Append(f, k)
    BY <1>2, <2>2, <2>3 DEF Onto
  <2>6. u \in Seq(Part) /\ u # << >>
    BY <2>4, <2>5, AppendProperties
  <2>7. l.role = e.role
    BY <1>2, <2>2
  <2>8. Alternates(u)
    BY <2>1, <2>4, <2>5, <2>7, AlternatesAppend
  <2>9. Last(u) = k /\ u[1] = (IF f = << >> THEN k ELSE f[1]) /\ \A v : Has(u, v) <=> Has(f, v) \/ v = k
    BY <2>4, <2>5, LastOfAppend
  <2>10. ASSUME NEW X \in SUBSET Types PROVE AllIds(u, X) = AllIds(w, X) \o Ids(Of(X, e))
    <3>1. /\ u = f \o <<k>> /\ w = f \o <<l>> /\ f \in Seq(Sent)
          /\ <<k>> \in Seq(Sent) /\ <<l>> \in Seq(Sent) /\ k \in Sent /\ l \in Sent
      <4>1. k \in Sent /\ l \in Sent
        BY <2>4, PartsAreSent
      <4>. QED  BY <1>0, <2>1, <2>4, <2>5, <4>1, AppendIsConcat
    <3>2. /\ AllIds(u, X) = AllIds(f, X) \o Ids(Of(X, k))
          /\ AllIds(w, X) = AllIds(f, X) \o Ids(Of(X, l))
      BY <3>1, AllIdsConcat, AllIdsOne
    <3>3. l.content \in Seq(Block) /\ e.content \in Seq(Block)
      BY DEF Part
    <3>4. Of(X, k) = Of(X, l) \o Of(X, e)
      <4>. DEFINE Y == [type : X, id : Nat] \ {NoText}
      <4>1. PICK y : y = Y
        OBVIOUS
      <4>2. Keep(l.content \o e.content, y) = Keep(l.content, y) \o Keep(e.content, y)
        BY <3>3, KeepConcat
      <4>. QED  BY <2>4, <4>1, <4>2 DEF Of
    <3>5. PICK a \in Seq(Block), b \in Seq(Block) : a = Of(X, l) /\ b = Of(X, e)
      BY <3>3, OfIsSeq
    <3>6. PICK p \in Seq(Nat), q \in Seq(Nat), r \in Seq(Nat) :
             p = AllIds(f, X) /\ q = Ids(a) /\ r = Ids(b)
      BY <3>1, AllIdsAre, IdsType
    <3>7. Ids(a \o b) = q \o r
      BY <3>6, IdsConcat
    <3>8. (p \o q) \o r = p \o (q \o r)
      BY ConcatAssociative
    <3>. QED  BY <3>2, <3>4, <3>5, <3>6, <3>7, <3>8
  <2>. QED  BY <1>2, <2>2, <2>4, <2>6, <2>7, <2>8, <2>9, <2>10 DEF JoinedWell
<1>. QED  BY <1>1, <1>2

\* No two contents of the model follow each other.
Apart(cs) == \A i \in 1..(Len(cs) - 1) : cs[i].role = "model" => cs[i + 1].role # "model"

MergedWell(cs, w) ==
  /\ w \in Seq(Part) /\ Alternates(w)
  /\ cs = << >> => w = << >>
  /\ cs # << >> => w # << >> /\ w[1].role = cs[1].role /\ Last(w).role = Last(cs).role
  /\ \A X \in SUBSET Types : AllIds(w, X) = AllIds(cs, X)
  /\ Apart(cs) => \A i \in 1..Len(cs) : cs[i].role = "model" => Has(w, cs[i])

\* All of them are, by induction over the list of contents.
LEMMA MergeIsRight ==
  ASSUME NEW cs \in Seq(Part)
  PROVE  MergedWell(cs, Merge(cs))
<1>. DEFINE P == {s \in Seq(Part) : MergedWell(s, Merge(s))}
<1>1. << >> \in P
  <2>1. MergedWell(<< >>, << >>)
    <3>1. << >> \in Seq(Part) /\ Len(<< >>) = 0
      BY EmptySeq
    <3>. QED  BY <3>1 DEF MergedWell, Alternates
  <2>. QED  BY <2>1, EmptySeq, MergeEmpty
<1>2. ASSUME NEW s \in P, NEW e \in Part PROVE Append(s, e) \in P
  <2>1. PICK w : w = Merge(s)
    OBVIOUS
  <2>2. MergedWell(s, w)
    BY <2>1
  <2>3. PICK u : u = Onto(w, e)
    OBVIOUS
  <2>4. w \in Seq(Part) /\ Alternates(w)
    BY <2>2 DEF MergedWell
  <2>5. /\ u \in Seq(Part) /\ u # << >> /\ Alternates(u)
        /\ Last(u).role = e.role
        /\ u[1].role = IF w = << >> THEN e.role ELSE w[1].role
        /\ \A X \in SUBSET Types : AllIds(u, X) = AllIds(w, X) \o Ids(Of(X, e))
        /\ ~(w # << >> /\ Last(w).role = e.role) => Has(u, e)
        /\ \A v : Has(w, v) /\ v.role = "model" =>
             Has(u, v) \/ (w # << >> /\ Last(w).role = "model" /\ e.role = "model")
    <3>1. JoinedWell(w, e, u)
      BY <2>3, <2>4, OntoFits
    <3>. QED  BY <3>1 DEF JoinedWell
  <2>6. PICK t \in Seq(Part) : t = Append(s, e)
    <3>1. Append(s, e) \in Seq(Part)
      BY AppendProperties
    <3>. QED  BY <3>1
  <2>7. /\ t # << >> /\ Last(t) = e /\ t[1] = (IF s = << >> THEN e ELSE s[1])
        /\ Len(t) = Len(s) + 1 /\ Len(s) \in Nat
        /\ \A i \in 1..Len(s) : t[i] = s[i]
        /\ t[Len(s) + 1] = e
    BY <2>6, LastOfAppend, AppendProperties, LenProperties
  <2>8. ASSUME NEW X \in SUBSET Types PROVE AllIds(u, X) = AllIds(t, X)
    <3>1. AllIds(w, X) = AllIds(s, X)
      BY <2>2 DEF MergedWell
    <3>2. t = s \o <<e>> /\ s \in Seq(Sent) /\ <<e>> \in Seq(Sent) /\ e \in Sent
      BY <2>6, AppendIsConcat, PartsAreSent, SeqMonotonic
    <3>3. AllIds(t, X) = AllIds(s, X) \o Ids(Of(X, e))
      BY <3>2, AllIdsConcat, AllIdsOne
    <3>. QED  BY <2>5, <3>1, <3>3
  <2>9. ASSUME Apart(t), NEW i \in 1..Len(t), t[i].role = "model" PROVE Has(u, t[i])
    <3>1. Apart(s)
      <4>1. ASSUME NEW j \in 1..(Len(s) - 1), s[j].role = "model" PROVE s[j + 1].role # "model"
        <5>1. j \in 1..Len(s) /\ j + 1 \in 1..Len(s) /\ j \in 1..(Len(t) - 1)
          BY <2>7
        <5>. QED  BY <2>7, <2>9, <4>1, <5>1 DEF Apart
      <4>. QED  BY <4>1 DEF Apart
    <3>2. ~(w # << >> /\ Last(w).role = "model" /\ e.role = "model")
      <4>. SUFFICES ASSUME w # << >>, Last(w).role = "model" PROVE e.role # "model"
        OBVIOUS
      <4>1. s # << >> /\ Last(s).role = "model"
        BY <2>2 DEF MergedWell
      <4>2. Len(s) # 0 /\ Last(s) = s[Len(s)]
        BY <4>1, EmptySeq DEF Last
      <4>3. Len(s) \in 1..(Len(t) - 1) /\ Len(s) \in 1..Len(s)
        BY <2>7, <4>2
      <4>. QED  BY <2>7, <2>9, <4>1, <4>2, <4>3 DEF Apart
    <3>3. CASE i = Len(s) + 1
      BY <2>5, <2>7, <2>9, <3>2, <3>3
    <3>4. CASE i # Len(s) + 1
      <4>1. i \in 1..Len(s)
        BY <2>7, <3>4
      <4>2. Has(w, t[i])
        BY <2>2, <2>7, <2>9, <3>1, <4>1 DEF MergedWell
      <4>. QED  BY <2>5, <2>9, <3>2, <4>2
    <3>. QED  BY <3>3, <3>4
  <2>10. MergedWell(t, u)
    <3>1. s = << >> <=> w = << >>
      BY <2>2 DEF MergedWell
    <3>2. u[1].role = t[1].role
      BY <2>2, <2>5, <2>7, <3>1 DEF MergedWell
    <3>. QED  BY <2>5, <2>7, <2>8, <2>9, <3>2 DEF MergedWell
  <2>11. Merge(t) = u
    BY <2>1, <2>3, <2>6, MergeAppend
  <2>. QED  BY <2>6, <2>10, <2>11
<1>3. P = Seq(Part)
  <2>. HIDE DEF P
  <2>1. P \in SUBSET Seq(Part)
    BY DEF P
  <2>. QED  BY <1>1, <1>2, <2>1, SeqInduction
<1>. QED  BY <1>3

-----------------------------------------------------------------------------
(* What a request has of a prompt: the system message and a dialog.        *)

Prompt(d) == <<SystemMessage>> \o d

\* The system message is one text, with the number 1.
LEMMA SystemText ==
  /\ Texts(SystemMessage) = <<Text(1)>> /\ Of(Speech, SystemMessage) = <<Text(1)>>
  /\ Calls(SystemMessage) = << >> /\ Results(SystemMessage) = << >>
  /\ Ids(<<Text(1)>>) = <<1>> /\ Ids(<< >>) = << >>
  /\ <<Text(1)>> \in Seq(Block) /\ SystemMessage \in Sent
<1>1. SystemMessage \in Sent /\ SystemMessage \in Turn \cup SystemTurn
  BY TurnsAreSent
<1>2. /\ Text(1) \in Typed({"text"}) \ {NoText}
      /\ Text(1) \in Typed(Speech) \ {NoText}
      /\ Text(1).id = 1 /\ Text(1) \in Block
  BY DEF Text, NoText, Typed, Speech, Block
<1>3. Texts(SystemMessage) = <<Text(1)>> /\ Of(Speech, SystemMessage) = <<Text(1)>>
  <2>1. SystemMessage.content = <<Text(1)>>
    BY DEF SystemMessage
  <2>2. Keep(<<Text(1)>>, Typed({"text"}) \ {NoText}) = <<Text(1)>>
    BY <1>2, KeepOne
  <2>3. Keep(<<Text(1)>>, Typed(Speech) \ {NoText}) = <<Text(1)>>
    BY <1>2, KeepOne
  <2>. QED  BY <2>1, <2>2, <2>3 DEF Texts, Of, Typed
<1>4. SystemMessage.role = "system"
  BY DEF SystemMessage
<1>5. Calls(SystemMessage) = << >> /\ Results(SystemMessage) = << >>
  BY <1>1, <1>4, TurnHas
<1>6. Ids(<<Text(1)>>) = <<1>> /\ Ids(<< >>) = << >>
  <2>1. PICK t : t = Text(1)
    OBVIOUS
  <2>2. Ids(<<t>>) = <<t.id>> /\ Ids(<< >>) = << >>
    BY DEF Ids
  <2>. QED  BY <1>2, <2>1, <2>2
<1>7. <<Text(1)>> \in Seq(Block)
  BY <1>2
<1>. QED  BY <1>1, <1>3, <1>5, <1>6, <1>7

\* A prompt, message by message.
LEMMA PromptHas ==
  ASSUME NEW d \in Seq(Turn)
  PROVE  /\ d \in Seq(Sent) /\ DOMAIN d = 1..Len(d) /\ Len(d) \in Nat
         /\ Prompt(d) \in Seq(Turn \cup SystemTurn)
         /\ Prompt(d) \in Seq(Sent)
         /\ Len(Prompt(d)) = Len(d) + 1 /\ DOMAIN Prompt(d) = 1..Len(d) + 1
         /\ Prompt(d)[1] = SystemMessage
         /\ \A i \in 1..Len(d) : Prompt(d)[i + 1] = d[i]
<1>1. d \in Seq(Turn \cup SystemTurn) /\ <<SystemMessage>> \in Seq(Turn \cup SystemTurn)
  <2>1. Turn \subseteq Turn \cup SystemTurn /\ SystemMessage \in Turn \cup SystemTurn
    BY TurnsAreSent
  <2>. QED  BY <2>1, SeqMonotonic
<1>2. d \in Seq(Sent) /\ DOMAIN d = 1..Len(d) /\ Len(d) \in Nat
  BY TurnsAreSent, SeqMonotonic, LenProperties
<1>3. PICK s \in Seq(Turn \cup SystemTurn) : s = <<SystemMessage>>
  BY <1>1
<1>4. Len(s) = 1 /\ s[1] = SystemMessage
  BY <1>3
<1>5. PICK m \in Seq(Turn \cup SystemTurn) : m = s \o d
  BY <1>1, ConcatProperties
<1>6. /\ Len(m) = 1 + Len(d)
      /\ \A i \in 1..1 + Len(d) : m[i] = IF i <= 1 THEN s[i] ELSE d[i - 1]
  BY <1>1, <1>4, <1>5, ConcatProperties
<1>7. m[1] = SystemMessage
  BY <1>2, <1>4, <1>6
<1>8. ASSUME NEW i \in 1..Len(d) PROVE m[i + 1] = d[i]
  <2>1. i + 1 \in 1..1 + Len(d) /\ ~(i + 1 <= 1) /\ (i + 1) - 1 = i
    BY <1>2
  <2>. QED  BY <1>6, <2>1
<1>9. m \in Seq(Sent) /\ DOMAIN m = 1..Len(m)
  <2>1. Turn \cup SystemTurn \subseteq Sent
    BY TurnsAreSent
  <2>. QED  BY <2>1, SeqMonotonic, LenProperties
<1>10. Len(m) = Len(d) + 1
  BY <1>2, <1>6
<1>. QED  BY <1>2, <1>3, <1>5, <1>7, <1>8, <1>9, <1>10 DEF Prompt

\* The numbers of a prompt.
LEMMA PromptIds ==
  ASSUME NEW d \in Seq(Turn)
  PROVE  /\ AllIds(Prompt(d), Speech) = <<1>> \o AllIds(d, Speech)
         /\ AllIds(Prompt(d), {"tool_call"}) = AllIds(d, {"tool_call"})
         /\ AllIds(Prompt(d), {"tool_result"}) = AllIds(d, {"tool_result"})
<1>1. d \in Seq(Sent) /\ <<SystemMessage>> \in Seq(Sent) /\ SystemMessage \in Sent
  BY PromptHas, SystemText
<1>2. Speech \in SUBSET Types /\ {"tool_call"} \in SUBSET Types /\ {"tool_result"} \in SUBSET Types
  BY DEF Speech, Types
<1>3. \A X \in SUBSET Types : AllIds(Prompt(d), X) = Ids(Of(X, SystemMessage)) \o AllIds(d, X)
  BY <1>1, AllIdsConcat, AllIdsOne DEF Prompt
<1>4. \A X \in SUBSET Types : AllIds(d, X) \in Seq(Nat)
  BY <1>1, AllIdsAre
<1>5. \A X \in SUBSET Types : << >> \o AllIds(d, X) = AllIds(d, X)
  BY <1>4, ConcatEmptySeq
<1>6. Of({"tool_call"}, SystemMessage) = << >> /\ Of({"tool_result"}, SystemMessage) = << >>
  BY SystemText DEF Calls, Results
<1>7. Ids(Of(Speech, SystemMessage)) = <<1>>
  BY SystemText
<1>. QED  BY <1>2, <1>3, <1>5, <1>6, <1>7, SystemText

\* The system messages of a prompt and the others.
LEMMA PromptParts ==
  ASSUME NEW d \in Seq(Turn)
  PROVE  System(Prompt(d)) = <<SystemMessage>> /\ Spoken(Prompt(d)) = d
<1>. DEFINE Y == [role : {"system"}, content : Seq(Block)]
            N == [role : Role \ {"system"}, content : Seq(Block)]
<1>1. d \in Seq(Sent) /\ <<SystemMessage>> \in Seq(Sent) /\ SystemMessage \in Sent
  BY PromptHas, SystemText
<1>2. SystemMessage \in Y /\ SystemMessage \notin N
  BY SystemText DEF SystemMessage
<1>3. d \in Seq(N)
  <2>1. ASSUME NEW m \in Turn PROVE m \in N
    <3>1. m.content \in Seq(Block)
      BY TurnHas
    <3>2. m = [role |-> m.role, content |-> m.content] /\ m.role \in Role \ {"system"}
      BY DEF Turn, UserTurn, AssistantTurn, ToolTurn, Role
    <3>. QED  BY <3>1, <3>2
  <2>2. Turn \subseteq N
    BY <2>1
  <2>. QED  BY <2>2, SeqMonotonic
<1>4. Y \cap N = {}
  OBVIOUS
<1>. HIDE DEF Y, N
<1>5. Keep(<<SystemMessage>>, Y) = <<SystemMessage>> /\ Keep(<<SystemMessage>>, N) = << >>
  BY <1>2, KeepOne
<1>6. Keep(d, N) = d
  BY <1>3, KeepAll
<1>7. Keep(d, Y) = << >>
  <2>1. N \cap Y = {}
    BY <1>4
  <2>. QED  BY <1>3, <2>1, KeepNone
<1>8. /\ Keep(Prompt(d), Y) = <<SystemMessage>> \o << >>
      /\ Keep(Prompt(d), N) = << >> \o d
  <2>1. PICK s \in Seq(Sent) : s = <<SystemMessage>>
    BY <1>1
  <2>2. \A R : Keep(s \o d, R) = Keep(s, R) \o Keep(d, R)
    BY <1>1, KeepConcat
  <2>. QED  BY <1>5, <1>6, <1>7, <2>1, <2>2 DEF Prompt
<1>9. <<SystemMessage>> \o << >> = <<SystemMessage>> /\ << >> \o d = d
  BY <1>1, ConcatEmptySeq
<1>. QED  BY <1>8, <1>9 DEF System, Spoken, Y, N

-----------------------------------------------------------------------------
\* A request's contents say what the messages say, one by one.
SaysTheSame(c, m) ==
  /\ c \in Seq(Sent) /\ Len(c) = Len(m)
  /\ \A i \in 1..Len(m) :
       /\ Calls(c[i]) = Calls(m[i])
       /\ m[i].role = "assistant" => c[i].role = "assistant" /\ Texts(c[i]) = Texts(m[i])

SameResults(c, m) == \A i \in 1..Len(m) : Results(c[i]) = Results(m[i])

OneResult(m) == \A i \in 1..Len(m) : Len(Results(m[i])) <= 1

HeardBy(r) == Ids(r.system) \o AllOf(r.contents, Contents)

\* What OpenAI is sent of a conversation.
LEMMA AskOpenAI ==
  ASSUME NEW d \in Seq(Turn), NEW r, r = Request("openai", Prompt(d))
  PROVE  /\ r.to = "openai"
         /\ HeardBy(r) = AllIds(Prompt(d), Speech)
         /\ SaysTheSame(r.contents, Prompt(d))
         /\ OneResult(Prompt(d)) => SameResults(r.contents, Prompt(d))
<1>1. PICK m \in Seq(Turn \cup SystemTurn) : m = Prompt(d)
  BY PromptHas
<1>2. r.to = "openai" /\ r.system = << >> /\ r.contents = [i \in DOMAIN m |-> MessageToOpenAI(m[i])]
  BY <1>1 DEF Request
<1>3. PICK c : c = r.contents
  OBVIOUS
<1>4. DOMAIN m = 1..Len(m) /\ Len(m) \in Nat
  BY LenProperties
<1>5. ASSUME NEW i \in 1..Len(m)
      PROVE  /\ c[i] \in Sent
             /\ Of(Speech, c[i]) = Of(Speech, m[i]) /\ Calls(c[i]) = Calls(m[i])
             /\ Len(Results(m[i])) <= 1 => Results(c[i]) = Results(m[i])
             /\ m[i].role = "assistant" => c[i].role = "assistant" /\ Texts(c[i]) = Texts(m[i])
  <2>1. m[i] \in Turn \cup SystemTurn
    BY ElementOfSeq
  <2>2. c[i] = MessageToOpenAI(m[i])
    BY <1>2, <1>3, <1>4
  <2>3. /\ c[i].content \in Seq(Block) /\ c[i].role = m[i].role
        /\ Contents(c[i]) = Contents(m[i]) /\ Calls(c[i]) = Calls(m[i])
        /\ Len(Results(m[i])) <= 1 => Results(c[i]) = Results(m[i])
        /\ m[i].role = "assistant" => Texts(c[i]) = Texts(m[i])
    BY <2>1, <2>2, ToOpenAI
  <2>4. c[i] \in Sent
    <3>1. m[i] \in Sent
      BY <2>1, TurnsAreSent
    <3>2. c[i] = [role |-> c[i].role, content |-> c[i].content]
      <4>1. PICK w : w = MessageToOpenAI(m[i])
        OBVIOUS
      <4>2. \E p, b : w = Wire(p, b)
        BY <4>1 DEF MessageToOpenAI
      <4>3. w = [role |-> w.role, content |-> w.content]
        BY <4>2 DEF Wire
      <4>. QED  BY <2>2, <4>1, <4>3
    <3>. QED  BY <2>3, <3>1, <3>2 DEF Sent
  <2>. QED  BY <2>3, <2>4 DEF Contents, Speech
<1>6. c \in Seq(Sent) /\ Len(c) = Len(m) /\ DOMAIN c = DOMAIN m
  <2>1. c = [i \in 1..Len(m) |-> c[i]]
    BY <1>2, <1>3, <1>4
  <2>2. [i \in 1..Len(m) |-> c[i]] \in Seq(Sent)
    BY <1>4, <1>5, IsASeq
  <2>3. Len([i \in 1..Len(m) |-> c[i]]) = Len(m)
    BY <1>4
  <2>. QED  BY <1>4, <2>1, <2>2, <2>3
<1>7. AllIds(c, Speech) = AllIds(m, Speech)
  <2>1. \A i \in DOMAIN c : Ids(Of(Speech, c[i])) = Ids(Of(Speech, m[i]))
    BY <1>4, <1>5, <1>6
  <2>. QED  BY <1>6, <2>1, AllIdsSame
<1>8. HeardBy(r) = AllIds(m, Speech)
  <2>1. AllOf(c, Contents) = AllIds(c, Speech) /\ AllIds(c, Speech) \in Seq(Nat)
    <3>1. Speech \in SUBSET Types
      BY DEF Speech, Types
    <3>. QED  BY <1>6, <3>1, AllOfIs, AllIdsAre
  <2>2. << >> \o AllIds(c, Speech) = AllIds(c, Speech)
    BY <2>1, ConcatEmptySeq
  <2>. QED  BY <1>2, <1>3, <1>7, <2>1, <2>2, SystemText DEF HeardBy
<1>9. SaysTheSame(c, m)
  BY <1>5, <1>6 DEF SaysTheSame
<1>10. OneResult(m) => SameResults(c, m)
  BY <1>5 DEF OneResult, SameResults
<1>. QED  BY <1>1, <1>2, <1>3, <1>8, <1>9, <1>10

\* What Anthropic is sent of a conversation.
LEMMA AskAnthropic ==
  ASSUME NEW d \in Seq(Turn), NEW r, r = Request("anthropic", Prompt(d))
  PROVE  /\ r.to = "anthropic"
         /\ HeardBy(r) = AllIds(Prompt(d), Speech)
         /\ SaysTheSame(r.contents, d) /\ SameResults(r.contents, d)
<1>0. System(Prompt(d)) = <<SystemMessage>> /\ Spoken(Prompt(d)) = d
  BY PromptParts
<1>1. /\ r.to = "anthropic"
      /\ r.contents = [i \in DOMAIN d |-> MessageToAnthropic(d[i])]
  BY <1>0 DEF Request
<1>2. r.system = <<Text(1)>>
  <2>1. r.system = IF System(Prompt(d)) = << >> THEN << >> ELSE Texts(Last(System(Prompt(d))))
    BY DEF Request
  <2>2. <<SystemMessage>> # << >> /\ Last(<<SystemMessage>>) = SystemMessage
    BY DEF Last
  <2>. QED  BY <1>0, <2>1, <2>2, SystemText
<1>3. PICK c : c = r.contents
  OBVIOUS
<1>4. DOMAIN d = 1..Len(d) /\ Len(d) \in Nat
  BY LenProperties
<1>5. ASSUME NEW i \in 1..Len(d)
      PROVE  /\ c[i] \in Sent
             /\ Ids(Of(Speech, c[i])) = Ids(Of(Speech, d[i])) /\ Calls(c[i]) = Calls(d[i])
             /\ Results(c[i]) = Results(d[i])
             /\ d[i].role = "assistant" => c[i].role = "assistant" /\ Texts(c[i]) = Texts(d[i])
  <2>1. d[i] \in Turn
    BY ElementOfSeq
  <2>2. c[i] = MessageToAnthropic(d[i])
    BY <1>1, <1>3, <1>4
  <2>3. /\ c[i].content \in Seq(Block)
        /\ c[i].role = IF d[i].role = "assistant" THEN "assistant" ELSE "user"
        /\ Ids(Contents(c[i])) = Ids(Contents(d[i])) /\ Calls(c[i]) = Calls(d[i])
        /\ Results(c[i]) = Results(d[i])
        /\ d[i].role = "assistant" => Texts(c[i]) = Texts(d[i])
    BY <2>1, <2>2, ToAnthropic
  <2>4. c[i] \in Sent
    <3>1. c[i] = [role |-> c[i].role, content |-> c[i].content]
      <4>1. PICK w : w = MessageToAnthropic(d[i])
        OBVIOUS
      <4>2. \E p, b : w = Wire(p, b)
        BY <4>1 DEF MessageToAnthropic
      <4>3. w = [role |-> w.role, content |-> w.content]
        BY <4>2 DEF Wire
      <4>. QED  BY <2>2, <4>1, <4>3
    <3>. QED  BY <2>3, <3>1 DEF Sent, Role
  <2>. QED  BY <2>3, <2>4 DEF Contents, Speech
<1>6. c \in Seq(Sent) /\ Len(c) = Len(d) /\ DOMAIN c = DOMAIN d
  <2>1. c = [i \in 1..Len(d) |-> c[i]]
    BY <1>1, <1>3, <1>4
  <2>2. [i \in 1..Len(d) |-> c[i]] \in Seq(Sent)
    BY <1>4, <1>5, IsASeq
  <2>3. Len([i \in 1..Len(d) |-> c[i]]) = Len(d)
    BY <1>4
  <2>. QED  BY <1>4, <2>1, <2>2, <2>3
<1>7. AllIds(c, Speech) = AllIds(d, Speech)
  <2>1. \A i \in DOMAIN c : Ids(Of(Speech, c[i])) = Ids(Of(Speech, d[i]))
    BY <1>4, <1>5, <1>6
  <2>. QED  BY <1>6, <2>1, AllIdsSame
<1>8. HeardBy(r) = AllIds(Prompt(d), Speech)
  <2>1. AllOf(c, Contents) = AllIds(c, Speech)
    BY <1>6, AllOfIs
  <2>. QED  BY <1>2, <1>3, <1>7, <2>1, SystemText, PromptIds DEF HeardBy
<1>9. SaysTheSame(c, d) /\ SameResults(c, d)
  BY <1>5, <1>6 DEF SaysTheSame, SameResults
<1>. QED  BY <1>1, <1>3, <1>8, <1>9

\* A dialog begins with the user, and no two messages of the model follow each other.
InTurns(d) ==
  /\ d # << >> => d[1].role = "user"
  /\ \A i \in 1..(Len(d) - 1) : d[i].role = "assistant" => d[i + 1].role # "assistant"

\* What Gemini is sent of a conversation in which the model never speaks twice.
LEMMA AskGemini ==
  ASSUME NEW d \in Seq(Turn), d # << >>, InTurns(d), NEW r, r = Request("gemini", Prompt(d))
  PROVE  /\ r.to = "gemini"
         /\ HeardBy(r) = AllIds(Prompt(d), Speech)
         /\ r.contents[1].role = "user" /\ Alternates(r.contents)
         /\ r.contents \in Seq(Part)
         /\ \A i \in 1..Len(d) : d[i].role = "assistant" =>
              \E j \in 1..Len(r.contents) :
                r.contents[j].role = "model" /\ Texts(r.contents[j]) = Texts(d[i])
<1>0. System(Prompt(d)) = <<SystemMessage>> /\ Spoken(Prompt(d)) = d
  BY PromptParts
<1>1. PICK cs : cs = [i \in DOMAIN d |-> MessageToGemini(d[i])]
  OBVIOUS
<1>2. r.to = "gemini" /\ r.contents = Merge(cs)
  BY <1>0, <1>1 DEF Request
<1>3. r.system = <<Text(1)>>
  <2>1. r.system = FlattenSeq([i \in DOMAIN <<SystemMessage>> |-> Texts(<<SystemMessage>>[i])])
    BY <1>0 DEF Request
  <2>2. PICK s : s = SystemMessage
    OBVIOUS
  <2>3. [i \in DOMAIN <<s>> |-> Texts(<<s>>[i])] = <<Texts(s)>>
    OBVIOUS
  <2>4. FlattenSeq(<<<<Text(1)>>>>) = <<Text(1)>>
    BY SystemText, FlattenOne
  <2>. QED  BY <2>1, <2>2, <2>3, <2>4, SystemText
<1>4. DOMAIN d = 1..Len(d) /\ Len(d) \in Nat \ {0}
  BY LenProperties, EmptySeq
<1>5. ASSUME NEW i \in 1..Len(d)
      PROVE  /\ cs[i] \in Part
             /\ cs[i].role = IF d[i].role = "assistant" THEN "model" ELSE "user"
             /\ Of(Speech, cs[i]) = Of(Speech, d[i])
             /\ Texts(cs[i]) = Texts(d[i])
  <2>1. d[i] \in Turn
    BY ElementOfSeq
  <2>2. cs[i] = MessageToGemini(d[i])
    BY <1>1, <1>4
  <2>. QED  BY <2>1, <2>2, ToGemini DEF Contents, Speech
<1>6. cs \in Seq(Part) /\ Len(cs) = Len(d) /\ DOMAIN cs = DOMAIN d
  <2>1. cs = [i \in 1..Len(d) |-> cs[i]]
    BY <1>1, <1>4
  <2>2. [i \in 1..Len(d) |-> cs[i]] \in Seq(Part)
    BY <1>4, <1>5, IsASeq
  <2>3. Len([i \in 1..Len(d) |-> cs[i]]) = Len(d)
    BY <1>4
  <2>. QED  BY <1>4, <2>1, <2>2, <2>3
<1>7. PICK w : w = Merge(cs)
  OBVIOUS
<1>8. MergedWell(cs, w)
  BY <1>6, <1>7, MergeIsRight
<1>9. /\ w \in Seq(Part) /\ Alternates(w)
      /\ w[1].role = cs[1].role
      /\ AllIds(w, Speech) = AllIds(cs, Speech)
      /\ Apart(cs) => \A i \in 1..Len(cs) : cs[i].role = "model" => Has(w, cs[i])
  <2>1. cs # << >> /\ Speech \in SUBSET Types
    <3>1. Len(cs) # 0
      BY <1>4, <1>6
    <3>. QED  BY <3>1 DEF Speech, Types
  <2>. QED  BY <1>8, <2>1 DEF MergedWell
<1>10. w[1].role = "user"
  <2>1. 1 \in 1..Len(d) /\ d[1].role = "user"
    BY <1>4 DEF InTurns
  <2>. QED  BY <1>5, <1>9, <2>1
<1>11. Apart(cs)
  <2>1. ASSUME NEW i \in 1..(Len(cs) - 1), cs[i].role = "model" PROVE cs[i + 1].role # "model"
    <3>1. i \in 1..Len(d) /\ i + 1 \in 1..Len(d) /\ i \in 1..(Len(d) - 1)
      BY <1>4, <1>6
    <3>2. d[i].role = "assistant"
      BY <1>5, <2>1, <3>1
    <3>3. d[i + 1].role # "assistant"
      BY <3>1, <3>2 DEF InTurns
    <3>. QED  BY <1>5, <3>1, <3>3
  <2>. QED  BY <2>1 DEF Apart
<1>12. AllIds(cs, Speech) = AllIds(d, Speech)
  <2>1. \A i \in DOMAIN cs : Ids(Of(Speech, cs[i])) = Ids(Of(Speech, d[i]))
    BY <1>4, <1>5, <1>6
  <2>. QED  BY <1>6, <2>1, AllIdsSame
<1>13. HeardBy(r) = AllIds(Prompt(d), Speech)
  <2>1. AllOf(w, Contents) = AllIds(w, Speech)
    <3>1. w \in Seq(Sent)
      BY <1>9, PartsAreSent, SeqMonotonic
    <3>. QED  BY <3>1, AllOfIs
  <2>. QED  BY <1>2, <1>3, <1>7, <1>9, <1>12, <2>1, SystemText, PromptIds DEF HeardBy
<1>14. ASSUME NEW i \in 1..Len(d), d[i].role = "assistant"
       PROVE  \E j \in 1..Len(w) : w[j].role = "model" /\ Texts(w[j]) = Texts(d[i])
  <2>1. cs[i].role = "model" /\ Texts(cs[i]) = Texts(d[i])
    BY <1>5, <1>14
  <2>2. PICK j \in 1..Len(w) : w[j] = cs[i]
    BY <1>6, <1>9, <1>11, <2>1 DEF Has
  <2>. QED  BY <2>1, <2>2
<1>. QED  BY <1>2, <1>7, <1>9, <1>10, <1>13, <1>14

-----------------------------------------------------------------------------
(* Answers to calls.                                                       *)

ResultsOf(b) == [j \in DOMAIN b |-> Result(b[j])]

\* The calls of the i-th message are answered by what follows it at once.
Answered(s, i, form) ==
  LET c == Calls(s[i]) IN
  IF form = "each"
  THEN i + Len(c) <= Len(s) /\ \A j \in 1..Len(c) : Results(s[i + j]) = <<Result(c[j])>>
  ELSE i + 1 <= Len(s) /\ Results(s[i + 1]) = ResultsOf(c)

AllAnswered(s, form) == \A i \in 1..Len(s) : Calls(s[i]) # << >> => Answered(s, i, form)

\* The results of calls have their numbers.
LEMMA ResultsOfCalls ==
  ASSUME NEW b \in Seq(Block)
  PROVE  /\ ResultsOf(b) \in Seq(Typed({"tool_result"})) /\ ResultsOf(b) \in Seq(Block)
         /\ Len(ResultsOf(b)) = Len(b)
         /\ \A j \in 1..Len(b) : ResultsOf(b)[j] = Result(b[j])
         /\ Ids(ResultsOf(b)) = Ids(b)
         /\ \A j \in 1..Len(b) : Result(b[j]) \in Typed({"tool_result"}) \ {NoText}
<1>1. DOMAIN b = 1..Len(b) /\ Len(b) \in Nat
  BY LenProperties
<1>2. ASSUME NEW j \in 1..Len(b)
      PROVE  Result(b[j]) \in Typed({"tool_result"}) \ {NoText} /\ Result(b[j]).id = b[j].id
  <2>1. b[j] \in Block
    BY ElementOfSeq
  <2>2. b[j].id \in Nat
    BY <2>1 DEF Block
  <2>. QED  BY <2>2 DEF Result, Typed, NoText, Text
<1>3. PICK r : r = ResultsOf(b)
  OBVIOUS
<1>4. r = [j \in 1..Len(b) |-> Result(b[j])]
  BY <1>1, <1>3 DEF ResultsOf
<1>5. r \in Seq(Typed({"tool_result"})) /\ Len(r) = Len(b) /\ DOMAIN r = DOMAIN b
  <2>1. \A j \in 1..Len(b) : Result(b[j]) \in Typed({"tool_result"})
    BY <1>2
  <2>2. [j \in 1..Len(b) |-> Result(b[j])] \in Seq(Typed({"tool_result"}))
    BY <1>1, <2>1, IsASeq
  <2>. QED  BY <1>1, <1>4, <2>2
<1>6. r \in Seq(Block)
  <2>1. Typed({"tool_result"}) \subseteq Block
    BY DEF Typed, Block
  <2>. QED  BY <1>5, <2>1, SeqMonotonic
<1>7. Ids(r) = Ids(b)
  <2>1. \A j \in DOMAIN b : r[j].id = b[j].id
    BY <1>1, <1>2, <1>4
  <2>. QED  BY <1>5, <2>1 DEF Ids
<1>. QED  BY <1>2, <1>3, <1>4, <1>5, <1>6, <1>7

\* Calls, results and texts are blocks.
LEMMA CallsType ==
  ASSUME NEW m, m \in Sent \/ m.content \in Seq(Block)
  PROVE  /\ Calls(m) \in Seq(Block) /\ Results(m) \in Seq(Block) /\ Texts(m) \in Seq(Block)
         /\ Contents(m) \in Seq(Block)
<1>1. m.content \in Seq(Block)
  BY DEF Sent
<1>2. /\ {"tool_call"} \in SUBSET Types /\ {"tool_result"} \in SUBSET Types
      /\ {"text"} \in SUBSET Types /\ {"text"} \cup Image \in SUBSET Types
  BY DEF Types
<1>. QED  BY <1>1, <1>2, OfIsSeq DEF Calls, Results, Texts, Contents

\* What CallsAreAnswered asks of one message.
LEMMA AnswerIds ==
  ASSUME NEW s \in Seq(Sent), NEW i \in 1..Len(s), NEW form, Calls(s[i]) # << >>,
         Answered(s, i, form)
  PROVE  AllOf(IF form = "each" THEN SubSeq(s, i + 1, i + Len(Calls(s[i])))
                                ELSE SubSeq(s, i + 1, i + 1), Results) = Ids(Calls(s[i]))
<1>1. PICK c \in Seq(Block) : c = Calls(s[i])
  <2>1. s[i] \in Sent
    BY ElementOfSeq
  <2>. QED  BY <2>1, CallsType
<1>2. Len(c) \in Nat \ {0} /\ DOMAIN c = 1..Len(c) /\ Len(s) \in Nat /\ i \in Nat
  BY <1>1, EmptySeq, LenProperties
<1>3. PICK r \in Seq(Block) : r = ResultsOf(c)
  BY ResultsOfCalls
<1>4. Ids(r) = Ids(c) /\ Len(r) = Len(c) /\ \A j \in 1..Len(c) : r[j] = Result(c[j])
  BY <1>3, ResultsOfCalls
<1>5. CASE form = "each"
  <2>1. i + Len(c) <= Len(s) /\ \A j \in 1..Len(c) : Results(s[i + j]) = <<Result(c[j])>>
    BY <1>1, <1>5 DEF Answered
  <2>2. PICK t : t = SubSeq(s, i + 1, i + Len(c))
    OBVIOUS
  <2>3. \A j \in (i + 1)..(i + Len(c)) : s[j] \in Sent
    <3>1. \A j \in (i + 1)..(i + Len(c)) : j \in 1..Len(s)
      BY <1>2, <2>1
    <3>. QED  BY <3>1, ElementOfSeq
  <2>4. /\ t \in Seq(Sent)
        /\ Len(t) = Len(c)
        /\ \A j \in 1..Len(c) : t[j] = s[i + j]
    <3>1. i + 1 \in Int /\ i + Len(c) \in Int /\ i + 1 <= i + Len(c)
          /\ (i + Len(c)) - (i + 1) + 1 = Len(c)
          /\ \A j \in 1..Len(c) : (i + 1) + j - 1 = i + j
      BY <1>2
    <3>2. /\ t \in Seq(Sent)
          /\ Len(t) = (i + Len(c)) - (i + 1) + 1
          /\ \A j \in 1..(i + Len(c)) - (i + 1) + 1 : t[j] = s[(i + 1) + j - 1]
      BY <2>2, <2>3, <3>1, SubSeqProperties
    <3>. QED  BY <3>1, <3>2
  <2>5. [j \in DOMAIN t |-> Results(t[j])] = [j \in DOMAIN r |-> <<r[j]>>]
    <3>1. DOMAIN t = 1..Len(c) /\ DOMAIN r = 1..Len(c)
      BY <1>4, <2>4, LenProperties
    <3>2. ASSUME NEW j \in 1..Len(c) PROVE Results(t[j]) = <<r[j]>>
      BY <1>4, <2>1, <2>4
    <3>. QED  BY <3>1, <3>2
  <2>6. FlattenSeq([j \in DOMAIN r |-> <<r[j]>>]) = r
    BY FlattenSingles
  <2>7. AllOf(t, Results) = Ids(r)
    BY <2>5, <2>6 DEF AllOf
  <2>. QED  BY <1>1, <1>4, <1>5, <2>2, <2>7
<1>6. CASE form # "each"
  <2>1. i + 1 <= Len(s) /\ Results(s[i + 1]) = r
    BY <1>1, <1>3, <1>6 DEF Answered
  <2>2. PICK t : t = SubSeq(s, i + 1, i + 1)
    OBVIOUS
  <2>3. i + 1 \in 1..Len(s) /\ i + 1 \in Int /\ \A j \in (i + 1)..(i + 1) : j = i + 1
    BY <1>2, <2>1
  <2>4. s[i + 1] \in Sent
    BY <2>3, ElementOfSeq
  <2>5. t \in Seq(Sent) /\ Len(t) = 1 /\ t[1] = s[i + 1]
    <3>1. (i + 1) - (i + 1) + 1 = 1 /\ (i + 1) + 1 - 1 = i + 1 /\ i + 1 <= i + 1 /\ 1 \in 1..1
      BY <1>2
    <3>2. /\ t \in Seq(Sent)
          /\ Len(t) = (i + 1) - (i + 1) + 1
          /\ \A j \in 1..(i + 1) - (i + 1) + 1 : t[j] = s[(i + 1) + j - 1]
      BY <2>2, <2>3, <2>4, <3>1, SubSeqProperties
    <3>. QED  BY <3>1, <3>2
  <2>6. [j \in DOMAIN t |-> Results(t[j])] = <<r>>
    <3>1. DOMAIN t = 1..1 /\ Results(t[1]) = r
      BY <2>1, <2>5, LenProperties
    <3>2. \A j \in 1..1 : Results(t[j]) = r
      <4>1. \A j \in 1..1 : j = 1
        OBVIOUS
      <4>. QED  BY <3>1, <4>1
    <3>3. <<r>> = [j \in 1..1 |-> r]
      OBVIOUS
    <3>. QED  BY <3>1, <3>2, <3>3
  <2>7. FlattenSeq(<<r>>) = r
    BY FlattenOne
  <2>8. AllOf(t, Results) = Ids(r)
    BY <2>6, <2>7 DEF AllOf
  <2>. QED  BY <1>1, <1>4, <1>6, <2>2, <2>8
<1>. QED  BY <1>5, <1>6

\* A request is as well answered as its messages.
LEMMA AnsweredSame ==
  ASSUME NEW m \in Seq(Sent), NEW c, SaysTheSame(c, m), SameResults(c, m), NEW form,
         AllAnswered(m, form)
  PROVE  /\ AllAnswered(c, form)
         /\ AllIds(c, {"tool_call"}) = AllIds(m, {"tool_call"})
         /\ AllIds(c, {"tool_result"}) = AllIds(m, {"tool_result"})
<1>1. /\ Len(c) = Len(m) /\ Len(m) \in Nat
      /\ \A i \in 1..Len(m) : Calls(c[i]) = Calls(m[i]) /\ Results(c[i]) = Results(m[i])
  BY LenProperties DEF SaysTheSame, SameResults
<1>2. DOMAIN c = 1..Len(m) /\ DOMAIN m = 1..Len(m)
  BY <1>1, LenProperties DEF SaysTheSame
<1>3. ASSUME NEW i \in 1..Len(c), Calls(c[i]) # << >> PROVE Answered(c, i, form)
  <2>1. i \in 1..Len(m) /\ Calls(c[i]) = Calls(m[i])
    BY <1>1
  <2>2. Answered(m, i, form)
    BY <1>3, <2>1 DEF AllAnswered
  <2>3. PICK b \in Seq(Block) : b = Calls(m[i])
    <3>1. m[i] \in Sent
      BY <2>1, ElementOfSeq
    <3>. QED  BY <3>1, CallsType
  <2>4. CASE form = "each"
    <3>1. i + Len(b) <= Len(m) /\ \A j \in 1..Len(b) : Results(m[i + j]) = <<Result(b[j])>>
      BY <2>2, <2>3, <2>4 DEF Answered
    <3>2. ASSUME NEW j \in 1..Len(b) PROVE Results(c[i + j]) = <<Result(b[j])>>
      <4>1. i + j \in 1..Len(m)
        BY <1>1, <2>1, <3>1, LenProperties
      <4>. QED  BY <1>1, <3>1, <4>1
    <3>. QED  BY <1>1, <2>1, <2>3, <2>4, <3>1, <3>2 DEF Answered
  <2>5. CASE form # "each"
    <3>1. i + 1 <= Len(m) /\ Results(m[i + 1]) = ResultsOf(b)
      BY <2>2, <2>3, <2>5 DEF Answered
    <3>2. i + 1 \in 1..Len(m)
      BY <1>1, <2>1, <3>1
    <3>. QED  BY <1>1, <2>1, <2>3, <2>5, <3>1, <3>2 DEF Answered
  <2>. QED  BY <2>4, <2>5
<1>4. AllAnswered(c, form)
  BY <1>3 DEF AllAnswered
<1>5. /\ \A i \in DOMAIN c : Ids(Of({"tool_call"}, c[i])) = Ids(Of({"tool_call"}, m[i]))
      /\ \A i \in DOMAIN c : Ids(Of({"tool_result"}, c[i])) = Ids(Of({"tool_result"}, m[i]))
  BY <1>1, <1>2 DEF Calls, Results
<1>6. DOMAIN c = DOMAIN m
  BY <1>2
<1>. QED  BY <1>4, <1>5, <1>6, AllIdsSame

\* The system message changes nothing.
LEMMA AnsweredInPrompt ==
  ASSUME NEW d \in Seq(Turn), NEW form, AllAnswered(d, form)
  PROVE  AllAnswered(Prompt(d), form)
<1>1. PICK m \in Seq(Sent) : m = Prompt(d)
  BY PromptHas
<1>2. /\ Len(m) = Len(d) + 1 /\ Len(d) \in Nat /\ m[1] = SystemMessage
      /\ \A i \in 1..Len(d) : m[i + 1] = d[i]
      /\ d \in Seq(Sent)
  BY <1>1, PromptHas
<1>3. ASSUME NEW k \in 1..Len(m), Calls(m[k]) # << >> PROVE Answered(m, k, form)
  <2>1. k # 1
    BY <1>2, <1>3, SystemText
  <2>2. PICK i \in 1..Len(d) : k = i + 1
    <3>1. k - 1 \in 1..Len(d) /\ k = (k - 1) + 1
      BY <1>2, <2>1
    <3>. QED  BY <3>1
  <2>3. m[k] = d[i] /\ Answered(d, i, form)
    BY <1>2, <1>3, <2>2 DEF AllAnswered
  <2>4. PICK b \in Seq(Block) : b = Calls(d[i])
    <3>1. d[i] \in Sent
      BY <1>2, ElementOfSeq
    <3>. QED  BY <3>1, CallsType
  <2>5. Len(b) \in Nat
    BY LenProperties
  <2>6. CASE form = "each"
    <3>1. i + Len(b) <= Len(d) /\ \A j \in 1..Len(b) : Results(d[i + j]) = <<Result(b[j])>>
      BY <2>3, <2>4, <2>6 DEF Answered
    <3>2. ASSUME NEW j \in 1..Len(b) PROVE Results(m[k + j]) = <<Result(b[j])>>
      <4>1. i + j \in 1..Len(d) /\ k + j = (i + j) + 1
        BY <1>2, <2>2, <2>5, <3>1
      <4>. QED  BY <1>2, <3>1, <4>1
    <3>3. k + Len(b) <= Len(m)
      BY <1>2, <2>2, <2>5, <3>1
    <3>. QED  BY <2>3, <2>4, <2>6, <3>2, <3>3 DEF Answered
  <2>7. CASE form # "each"
    <3>1. i + 1 <= Len(d) /\ Results(d[i + 1]) = ResultsOf(b)
      BY <2>3, <2>4, <2>7 DEF Answered
    <3>2. i + 1 \in 1..Len(d) /\ k + 1 = (i + 1) + 1 /\ k + 1 <= Len(m)
      BY <1>2, <2>2, <3>1
    <3>. QED  BY <1>2, <2>3, <2>4, <2>7, <3>1, <3>2 DEF Answered
  <2>. QED  BY <2>6, <2>7
<1>. QED  BY <1>1, <1>3 DEF AllAnswered

\* What was answered stays answered when more is said.
LEMMA AnsweredGrows ==
  ASSUME NEW d \in Seq(Sent), NEW u \in Seq(Sent), NEW i \in 1..Len(d), NEW form,
         Answered(d, i, form)
  PROVE  Answered(d \o u, i, form)
<1>1. PICK e \in Seq(Sent) : e = d \o u
  BY ConcatProperties
<1>2. /\ Len(e) = Len(d) + Len(u) /\ Len(d) \in Nat /\ Len(u) \in Nat
      /\ \A j \in 1..Len(d) : e[j] = d[j]
  BY <1>1, ConcatProperties, LenProperties
<1>3. PICK b \in Seq(Block) : b = Calls(d[i])
  <2>1. d[i] \in Sent
    BY ElementOfSeq
  <2>. QED  BY <2>1, CallsType
<1>4. Len(b) \in Nat /\ Calls(e[i]) = b
  BY <1>2, <1>3, LenProperties
<1>5. CASE form = "each"
  <2>1. i + Len(b) <= Len(d) /\ \A j \in 1..Len(b) : Results(d[i + j]) = <<Result(b[j])>>
    BY <1>3, <1>5 DEF Answered
  <2>2. ASSUME NEW j \in 1..Len(b) PROVE Results(e[i + j]) = <<Result(b[j])>>
    <3>1. i + j \in 1..Len(d)
      BY <1>2, <1>4, <2>1
    <3>. QED  BY <1>2, <2>1, <3>1
  <2>3. i + Len(b) <= Len(e)
    BY <1>2, <1>4, <2>1
  <2>. QED  BY <1>1, <1>4, <1>5, <2>2, <2>3 DEF Answered
<1>6. CASE form # "each"
  <2>1. i + 1 <= Len(d) /\ Results(d[i + 1]) = ResultsOf(b)
    BY <1>3, <1>6 DEF Answered
  <2>2. i + 1 \in 1..Len(d) /\ i + 1 <= Len(e)
    BY <1>2, <2>1
  <2>. QED  BY <1>1, <1>2, <1>4, <1>6, <2>1, <2>2 DEF Answered
<1>. QED  BY <1>5, <1>6

-----------------------------------------------------------------------------
(* What is said in one step.                                               *)

\* A list of two.
LEMMA Pairs ==
  ASSUME NEW a, NEW b
  PROVE  Append(<<a>>, b) = <<a, b>>
<1>1. PICK U, s, t : U = {a, b} /\ s = Append(<<a>>, b) /\ t = <<a, b>>
  OBVIOUS
<1>2. /\ <<a>> \in Seq(U) /\ Len(<<a>>) = 1 /\ <<a>>[1] = a /\ b \in U
      /\ t \in Seq(U) /\ Len(t) = 2 /\ t[1] = a /\ t[2] = b
  BY <1>1
<1>3. s \in Seq(U) /\ Len(s) = 2 /\ s[1] = a /\ s[2] = b
  BY <1>1, <1>2, AppendProperties
<1>4. \A i \in 1..2 : i = 1 \/ i = 2
  OBVIOUS
<1>. QED  BY <1>1, <1>2, <1>3, <1>4, SeqEqual

\* A list of three.
LEMMA Triples ==
  ASSUME NEW a, NEW b, NEW c
  PROVE  Append(<<a, b>>, c) = <<a, b, c>> /\ <<a>> \o <<b, c>> = <<a, b, c>>
<1>1. PICK U, s, r, t, e :
        /\ U = {a, b, c} /\ s = Append(r, c) /\ r = <<a, b>> /\ t = <<a, b, c>>
        /\ e = <<a>> \o <<b, c>>
  OBVIOUS
<1>2. /\ r \in Seq(U) /\ Len(r) = 2 /\ r[1] = a /\ r[2] = b /\ c \in U
      /\ t \in Seq(U) /\ Len(t) = 3 /\ t[1] = a /\ t[2] = b /\ t[3] = c
      /\ <<a>> \in Seq(U) /\ <<b, c>> \in Seq(U) /\ Len(<<a>>) = 1 /\ Len(<<b, c>>) = 2
  BY <1>1
<1>3. s \in Seq(U) /\ Len(s) = 3 /\ s[1] = a /\ s[2] = b /\ s[3] = c
  BY <1>1, <1>2, AppendProperties
<1>4. e \in Seq(U) /\ Len(e) = 3
  BY <1>1, <1>2, ConcatProperties
<1>5. e[1] = a /\ e[2] = b /\ e[3] = c
  BY <1>1, <1>2
<1>6. \A i \in 1..3 : i = 1 \/ i = 2 \/ i = 3
  OBVIOUS
<1>7. s = t
  BY <1>2, <1>3, <1>6, SeqEqual
<1>8. e = t
  BY <1>2, <1>4, <1>5, <1>6, SeqEqual
<1>. QED  BY <1>1, <1>7, <1>8

\* Filtering a list of two.
LEMMA KeepTwo ==
  ASSUME NEW a, NEW b, NEW S
  PROVE  Keep(<<a, b>>, S) = IF b \in S THEN Append(Keep(<<a>>, S), b) ELSE Keep(<<a>>, S)
<1>1. PICK U, x : U = {a, b} /\ x = <<a>>
  OBVIOUS
<1>2. x \in Seq(U) /\ b \in U
  BY <1>1
<1>3. Keep(Append(x, b), S) = IF b \in S THEN Append(Keep(x, S), b) ELSE Keep(x, S)
  BY <1>2, KeepAppend
<1>. QED  BY <1>1, <1>3, Pairs

\* Filtering a list of three.
LEMMA KeepThree ==
  ASSUME NEW a, NEW b, NEW c, NEW S
  PROVE  Keep(<<a, b, c>>, S) = IF c \in S THEN Append(Keep(<<a, b>>, S), c)
                                ELSE Keep(<<a, b>>, S)
<1>1. PICK U, x : U = {a, b, c} /\ x = <<a, b>>
  OBVIOUS
<1>2. x \in Seq(U) /\ c \in U
  BY <1>1
<1>3. Keep(Append(x, c), S) = IF c \in S THEN Append(Keep(x, S), c) ELSE Keep(x, S)
  BY <1>2, KeepAppend
<1>. QED  BY <1>1, <1>3, Triples

\* Messages with the right contents belong to conversations.
LEMMA TurnTypes ==
  ASSUME NEW c
  PROVE  /\ c \in Seq(Typed(Speech) \cap Shown) => User(c) \in Turn
         /\ c \in Seq(Typed({"text", "tool_call"})) => Assistant(c) \in Turn
         /\ c \in Seq(Typed({"text"})) => Tool(c) \in Turn
         /\ c \in Seq(Typed({"tool_result"})) => Tool(c) \in Turn
BY DEF User, Assistant, Tool, Turn, UserTurn, AssistantTurn, ToolTurn

\* LLMResponse.content keeps every reply as it is.
LEMMA ReplyIs ==
  ASSUME NEW reply \in Replies, Backend \in Provider, fresh \in Nat
  PROVE  /\ Content(Backend, reply) = reply
         /\ reply \in Seq(Typed({"text", "tool_call"}))
         /\ Ids(Texts(Assistant(reply))) \in {<< >>, <<fresh + 1>>}
<1>. DEFINE T == Typed({"text"}) \ {NoText}
            C == Typed({"tool_call"}) \ {NoText}
<1>1. PICK t, c, d : t = Text(fresh + 1) /\ c = Call(fresh + 2) /\ d = Call(fresh + 3)
  OBVIOUS
<1>2. /\ t \in T /\ t \notin C /\ c \in C /\ c \notin T /\ d \in C /\ d \notin T
      /\ t.id = fresh + 1
  BY <1>1 DEF Text, Call, NoText, Typed
<1>3. /\ t \in Typed({"text", "tool_call"})
      /\ c \in Typed({"text", "tool_call"})
      /\ d \in Typed({"text", "tool_call"})
  BY <1>1 DEF Text, Call, Typed
<1>4. \/ reply = << >> \/ reply = <<t>>
      \/ Backend # "gemini" /\ (reply = <<c>> \/ reply = <<t, c, d>>)
      \/ Backend = "anthropic" /\ reply = <<c, t>>
  BY <1>1 DEF Replies
<1>5. Texts(Assistant(reply)) = Keep(reply, T) /\ Calls(Assistant(reply)) = Keep(reply, C)
  BY DEF Texts, Calls, Of, Assistant, Typed
<1>6. /\ Backend = "openai" => Content(Backend, reply) = Keep(reply, T) \o Keep(reply, C)
      /\ Backend = "anthropic" => Content(Backend, reply) = reply
      /\ Backend = "gemini" => Content(Backend, reply) = Keep(reply, T)
  BY <1>5 DEF Content, Assistant
<1>. HIDE DEF T, C
<1>7. /\ Keep(<<t>>, T) = <<t>> /\ Keep(<<t>>, C) = << >>
      /\ Keep(<<c>>, T) = << >> /\ Keep(<<c>>, C) = <<c>>
      /\ Keep(<<d>>, T) = << >> /\ Keep(<<d>>, C) = <<d>>
      /\ Keep(<< >>, T) = << >> /\ Keep(<< >>, C) = << >>
  BY <1>2, KeepOne, KeepEmpty
<1>8. /\ << >> \o << >> = << >> /\ <<t>> \o << >> = <<t>> /\ << >> \o <<c>> = <<c>>
      /\ Append(<< >>, c) = <<c>> /\ Append(<< >>, t) = <<t>>
  OBVIOUS
<1>9. Append(<<c>>, d) = <<c, d>> /\ <<t>> \o <<c, d>> = <<t, c, d>>
  BY Pairs, Triples
<1>10. Keep(<<t, c>>, T) = <<t>> /\ Keep(<<t, c>>, C) = <<c>>
  BY <1>2, <1>7, <1>8, KeepTwo
<1>11. Keep(<<t, c, d>>, T) = <<t>> /\ Keep(<<t, c, d>>, C) = <<c, d>>
  BY <1>2, <1>9, <1>10, KeepThree
<1>12. Keep(<<c, t>>, T) = <<t>>
  BY <1>2, <1>7, <1>8, KeepTwo
<1>13. Content(Backend, reply) = reply
  BY <1>4, <1>6, <1>7, <1>8, <1>9, <1>11 DEF Provider
<1>14. reply \in Seq(Typed({"text", "tool_call"}))
  <2>. DEFINE B == Typed({"text", "tool_call"})
  <2>. HIDE DEF B
  <2>1. t \in B /\ c \in B /\ d \in B
    BY <1>3 DEF B
  <2>2. << >> \in Seq(B) /\ <<t>> \in Seq(B) /\ <<c>> \in Seq(B) /\ <<t, c, d>> \in Seq(B)
        /\ <<c, t>> \in Seq(B)
    BY <2>1
  <2>3. reply \in Seq(B)
    BY <1>4, <2>2
  <2>. QED  BY <2>3 DEF B
<1>15. Ids(<<t>>) = <<fresh + 1>> /\ Ids(<< >>) = << >>
  <2>1. Ids(<<t>>) = <<t.id>> /\ Ids(<< >>) = << >>
    BY DEF Ids
  <2>. QED  BY <1>2, <2>1
<1>16. Keep(reply, T) \in {<< >>, <<t>>}
  BY <1>4, <1>7, <1>11, <1>12
<1>. QED  BY <1>5, <1>13, <1>14, <1>15, <1>16

\* A text that is not empty.
LEMMA OneText ==
  ASSUME NEW k \in Nat, k # 0
  PROVE  /\ <<Text(k)>> \in Seq(Typed({"text"}))
         /\ <<Text(k)>> \in Seq(Typed(Speech) \cap Shown)
         /\ Ids(Contents(User(<<Text(k)>>))) = <<k>>
         /\ Ids(Contents(Tool(<<Text(k)>>))) = <<k>>
<1>1. PICK t : t = Text(k)
  OBVIOUS
<1>2. /\ t \in Typed({"text"}) /\ t \in Typed(Speech) \cap Shown
      /\ t \in Typed(Speech) \ {NoText} /\ t.id = k
  BY <1>1 DEF Text, Typed, Speech, Shown, Image, Block, NoText
<1>3. Keep(<<t>>, Typed(Speech) \ {NoText}) = <<t>>
  BY <1>2, KeepOne
<1>4. Contents(User(<<t>>)) = <<t>> /\ Contents(Tool(<<t>>)) = <<t>>
  BY <1>3 DEF Contents, Of, User, Tool, Typed, Speech
<1>5. Ids(<<t>>) = <<t.id>>
  BY DEF Ids
<1>. QED  BY <1>1, <1>2, <1>4, <1>5

\* What a client's user may say.
Words ==
  {<<Text(fresh + 1)>>,
   <<Text(fresh + 1), [type |-> "image_url", id |-> fresh + 2]>>,
   <<[type |-> "image_base64", id |-> fresh + 1]>>,
   << >>}

\* What a client's user may say.
LEMMA WordsAre ==
  ASSUME NEW content \in Words, fresh \in Nat
  PROVE  /\ content \in Seq(Typed(Speech) \cap Shown)
         /\ Ids(Contents(User(content))) \in {<< >>, <<fresh + 1>>, <<fresh + 1, fresh + 2>>}
<1>1. PICK t, i, b : /\ t = Text(fresh + 1)
                     /\ i = [type |-> "image_url", id |-> fresh + 2]
                     /\ b = [type |-> "image_base64", id |-> fresh + 1]
  OBVIOUS
<1>. DEFINE S == Typed(Speech) \ {NoText}
            V == Typed(Speech) \cap Shown
<1>2. /\ t \in S /\ i \in S /\ b \in S /\ t \in V /\ i \in V /\ b \in V
      /\ t.id = fresh + 1 /\ i.id = fresh + 2 /\ b.id = fresh + 1
  BY <1>1 DEF Text, Typed, Speech, Shown, Image, Block, NoText
<1>3. Contents(User(content)) = Keep(content, S)
  BY DEF Contents, Of, User, Typed, Speech
<1>4. content = <<t>> \/ content = <<t, i>> \/ content = <<b>> \/ content = << >>
  BY <1>1 DEF Words
<1>. HIDE DEF S, V
<1>5. content \in Seq(S) /\ content \in Seq(V)
  <2>1. \A X : /\ << >> \in Seq(X)
               /\ t \in X /\ i \in X /\ b \in X => <<t>> \in Seq(X) /\ <<t, i>> \in Seq(X) /\ <<b>> \in Seq(X)
    OBVIOUS
  <2>. QED  BY <1>2, <1>4, <2>1
<1>6. Keep(content, S) = content
  BY <1>5, KeepAll
<1>7. /\ Ids(<<t>>) = <<t.id>> /\ Ids(<<t, i>>) = <<t.id, i.id>> /\ Ids(<<b>>) = <<b.id>>
      /\ Ids(<< >>) = << >>
  BY DEF Ids
<1>8. Ids(content) \in {<< >>, <<fresh + 1>>, <<fresh + 1, fresh + 2>>}
  BY <1>2, <1>4, <1>7
<1>. QED  BY <1>3, <1>5, <1>6, <1>8 DEF V

-----------------------------------------------------------------------------
(* Numbers that rise from one above a to b.                                *)

Rising(w) == \A i, j \in 1..Len(w) : i < j => w[i] < w[j]

Numbers(w, a, b) == Rising(w) /\ \A i \in 1..Len(w) : w[i] \in (a + 1)..b

\* None, one or two new numbers.
LEMMA NumbersFew ==
  ASSUME NEW a \in Nat, NEW b \in Nat
  PROVE  /\ Numbers(<< >>, a, b)
         /\ a + 1 <= b => Numbers(<<a + 1>>, a, b)
         /\ a + 2 <= b => Numbers(<<a + 1, a + 2>>, a, b)
<1>1. Numbers(<< >>, a, b)
  <2>1. \A i \in 1..Len(<< >>) : FALSE
    OBVIOUS
  <2>. QED  BY <2>1 DEF Numbers, Rising
<1>2. ASSUME a + 1 <= b PROVE Numbers(<<a + 1>>, a, b)
  <2>1. Len(<<a + 1>>) = 1 /\ <<a + 1>>[1] = a + 1 /\ \A i \in 1..1 : i = 1
    OBVIOUS
  <2>2. a + 1 \in (a + 1)..b
    BY <1>2
  <2>3. \A i, j \in 1..1 : ~(i < j)
    OBVIOUS
  <2>. QED  BY <2>1, <2>2, <2>3 DEF Numbers, Rising
<1>3. ASSUME a + 2 <= b PROVE Numbers(<<a + 1, a + 2>>, a, b)
  <2>1. PICK w : w = <<a + 1, a + 2>>
    OBVIOUS
  <2>2. Len(w) = 2 /\ w[1] = a + 1 /\ w[2] = a + 2
    BY <2>1
  <2>3. \A i \in 1..2 : i = 1 \/ i = 2
    OBVIOUS
  <2>4. a + 1 \in (a + 1)..b /\ a + 2 \in (a + 1)..b
    BY <1>3
  <2>5. \A i, j \in 1..2 : i < j => i = 1 /\ j = 2
    OBVIOUS
  <2>. QED  BY <2>1, <2>2, <2>3, <2>4, <2>5 DEF Numbers, Rising
<1>. QED  BY <1>1, <1>2, <1>3

\* Numbers above other numbers.
LEMMA NumbersConcat ==
  ASSUME NEW a \in Nat, NEW b \in Nat, NEW c \in Nat, a <= b, b <= c,
         NEW w \in Seq(Nat), NEW v \in Seq(Nat), Numbers(w, a, b), Numbers(v, b, c)
  PROVE  Numbers(w \o v, a, c)
<1>1. PICK x \in Seq(Nat) : x = w \o v
  BY ConcatProperties
<1>2. /\ Len(x) = Len(w) + Len(v) /\ Len(w) \in Nat /\ Len(v) \in Nat
      /\ \A i \in 1..Len(w) + Len(v) : x[i] = IF i <= Len(w) THEN w[i] ELSE v[i - Len(w)]
  BY <1>1, ConcatProperties, LenProperties
<1>3. ASSUME NEW i \in 1..Len(x)
      PROVE  \/ i \in 1..Len(w) /\ x[i] = w[i] /\ w[i] \in (a + 1)..b
             \/ i > Len(w) /\ i - Len(w) \in 1..Len(v) /\ x[i] = v[i - Len(w)]
                /\ v[i - Len(w)] \in (b + 1)..c
  <2>1. CASE i <= Len(w)
    <3>1. i \in 1..Len(w)
      BY <1>2, <2>1
    <3>. QED  BY <1>2, <2>1, <3>1 DEF Numbers
  <2>2. CASE ~(i <= Len(w))
    <3>1. i - Len(w) \in 1..Len(v) /\ i > Len(w)
      BY <1>2, <2>2
    <3>. QED  BY <1>2, <2>2, <3>1 DEF Numbers
  <2>. QED  BY <2>1, <2>2
<1>4. ASSUME NEW i \in 1..Len(x) PROVE x[i] \in (a + 1)..c
  <2>1. \A n : n \in (a + 1)..b => n \in (a + 1)..c
    OBVIOUS
  <2>2. \A n : n \in (b + 1)..c => n \in (a + 1)..c
    OBVIOUS
  <2>. QED  BY <1>3, <2>1, <2>2
<1>5. ASSUME NEW i \in 1..Len(x), NEW j \in 1..Len(x), i < j PROVE x[i] < x[j]
  <2>1. CASE j \in 1..Len(w) /\ x[j] = w[j]
    <3>1. i \in 1..Len(w)
      BY <1>2, <1>5, <2>1
    <3>2. x[i] = w[i]
      BY <1>2, <1>3, <3>1
    <3>. QED  BY <1>5, <2>1, <3>1, <3>2 DEF Numbers, Rising
  <2>2. CASE j > Len(w) /\ j - Len(w) \in 1..Len(v) /\ x[j] = v[j - Len(w)]
             /\ v[j - Len(w)] \in (b + 1)..c
    <3>1. CASE i \in 1..Len(w) /\ x[i] = w[i] /\ w[i] \in (a + 1)..b
      <4>1. \A n \in (a + 1)..b, k \in (b + 1)..c : n < k
        OBVIOUS
      <4>. QED  BY <2>2, <3>1, <4>1
    <3>2. CASE i > Len(w) /\ i - Len(w) \in 1..Len(v) /\ x[i] = v[i - Len(w)]
      <4>1. i - Len(w) < j - Len(w)
        BY <1>2, <1>5
      <4>. QED  BY <2>2, <3>2, <4>1 DEF Numbers, Rising
    <3>. QED  BY <1>3, <3>1, <3>2
  <2>. QED  BY <1>3, <2>1, <2>2
<1>. QED  BY <1>1, <1>4, <1>5 DEF Numbers, Rising

\* There may be higher numbers.
LEMMA NumbersMore ==
  ASSUME NEW a \in Nat, NEW b \in Nat, NEW c \in Nat, b <= c, NEW w, Numbers(w, a, b)
  PROVE  Numbers(w, a, c)
<1>1. \A n : n \in (a + 1)..b => n \in (a + 1)..c
  OBVIOUS
<1>. QED  BY <1>1 DEF Numbers

-----------------------------------------------------------------------------
(* The conversation, wherever it is held: between two runs of an agent it  *)
(* is what is stored, else it is the prompt behind the system message.     *)

Early == scenario.style = "agent" /\ pc \in {"idle", "input"}

Dialog == IF Early THEN stored ELSE Tail(messages)

\* What an exception cannot take away.
Earlier == IF scenario.style = "agent" THEN stored ELSE Dialog

\* The last number of a text or image that may be in the conversation.
Given == IF pc = "input" THEN fresh - 1 ELSE fresh

TalkInv ==
  /\ Tail(messages) \in Seq(Turn) /\ messages = Prompt(Tail(messages))
  /\ stored \in Seq(Turn)
  /\ InTurns(Dialog) /\ InTurns(stored)
  /\ pc \in {"ready", "asking"} => Dialog # << >> /\ Last(Dialog).role # "assistant"
  /\ pc = "asking" => request = Request(Backend, messages)
  /\ IF scenario.style = "agent"
     THEN \E u \in Seq(Turn) : Dialog = stored \o u
     ELSE stored = << >>

Numbered(d, n) == Numbers(AllIds(d, Speech), 1, n)

OrderInv == Given \in Nat /\ Given >= 1 /\ Numbered(Dialog, Given) /\ Numbered(stored, Given)

Recalled(r, d) ==
  \E i \in 1..Len(d) : /\ d[i].role = "assistant"
                       /\ Texts(d[i]) = Texts(Assistant(r.content))
                       /\ Calls(d[i]) = Calls(Assistant(r.content))

\* The replies that are in a conversation d, and in its part s but for turn t.
Kept(d, s, t) ==
  {r \in [turn : Nat, content : Seq(Block)] : Recalled(r, d) /\ (r.turn # t => Recalled(r, s))}

RecallInv == replies \in Seq(Kept(Dialog, Earlier, turn))

\* u may follow d.
Follows(d, u) ==
  /\ d = << >> /\ u # << >> => u[1].role = "user"
  /\ \A i \in 1..(Len(u) - 1) : u[i].role = "assistant" => u[i + 1].role # "assistant"
  /\ d # << >> /\ u # << >> /\ Last(d).role = "assistant" => u[1].role # "assistant"

\* The model still does not speak twice in a row.
LEMMA InTurnsGrows ==
  ASSUME NEW d \in Seq(Turn), NEW u \in Seq(Turn), InTurns(d), Follows(d, u)
  PROVE  /\ d \o u \in Seq(Turn) /\ InTurns(d \o u)
         /\ u # << >> => d \o u # << >> /\ Last(d \o u) = Last(u)
<1>1. PICK e \in Seq(Turn) : e = d \o u
  BY ConcatProperties
<1>2. /\ Len(e) = Len(d) + Len(u) /\ Len(d) \in Nat /\ Len(u) \in Nat
      /\ \A i \in 1..Len(d) + Len(u) : e[i] = IF i <= Len(d) THEN d[i] ELSE u[i - Len(d)]
  BY <1>1, ConcatProperties, LenProperties
<1>3. /\ d = << >> <=> Len(d) = 0
      /\ u = << >> <=> Len(u) = 0
      /\ e = << >> <=> Len(e) = 0
  BY EmptySeq
<1>4. ASSUME u # << >> PROVE e # << >> /\ Last(e) = Last(u)
  <2>1. Len(e) # 0 /\ Len(e) \in 1..Len(d) + Len(u) /\ ~(Len(e) <= Len(d)) /\ Len(e) - Len(d) = Len(u)
    BY <1>2, <1>3, <1>4
  <2>2. e[Len(e)] = u[Len(u)]
    BY <1>2, <2>1
  <2>. QED  BY <1>3, <2>1, <2>2 DEF Last
<1>5. ASSUME e # << >> PROVE e[1].role = "user"
  <2>1. CASE d = << >>
    <3>1. Len(d) = 0 /\ 1 \in 1..Len(d) + Len(u) /\ ~(1 <= Len(d)) /\ 1 - Len(d) = 1 /\ u # << >>
      BY <1>2, <1>3, <1>5, <2>1
    <3>. QED  BY <1>2, <2>1, <3>1 DEF Follows
  <2>2. CASE d # << >>
    <3>1. 1 \in 1..Len(d) + Len(u) /\ 1 <= Len(d)
      BY <1>2, <1>3, <2>2
    <3>. QED  BY <1>2, <2>2, <3>1 DEF InTurns
  <2>. QED  BY <2>1, <2>2
<1>6. ASSUME NEW i \in 1..(Len(e) - 1), e[i].role = "assistant" PROVE e[i + 1].role # "assistant"
  <2>1. i \in 1..Len(d) + Len(u) /\ i + 1 \in 1..Len(d) + Len(u)
    BY <1>2
  <2>2. CASE i + 1 <= Len(d)
    <3>1. i \in 1..(Len(d) - 1) /\ i <= Len(d)
      BY <1>2, <2>2
    <3>2. e[i] = d[i] /\ e[i + 1] = d[i + 1]
      BY <1>2, <2>1, <2>2, <3>1
    <3>. QED  BY <1>6, <3>1, <3>2 DEF InTurns
  <2>3. CASE i = Len(d)
    <3>1. Len(d) # 0 /\ Len(u) # 0 /\ i <= Len(d) /\ ~(i + 1 <= Len(d)) /\ (i + 1) - Len(d) = 1
      BY <1>2, <2>3
    <3>2. e[i] = Last(d) /\ e[i + 1] = u[1]
      BY <1>2, <2>1, <2>3, <3>1 DEF Last
    <3>. QED  BY <1>3, <1>6, <3>1, <3>2 DEF Follows
  <2>4. CASE i > Len(d)
    <3>1. /\ i - Len(d) \in 1..(Len(u) - 1) /\ ~(i <= Len(d)) /\ ~(i + 1 <= Len(d))
          /\ (i + 1) - Len(d) = (i - Len(d)) + 1
      BY <1>2, <2>4
    <3>2. e[i] = u[i - Len(d)] /\ e[i + 1] = u[(i - Len(d)) + 1]
      BY <1>2, <2>1, <3>1
    <3>. QED  BY <1>6, <3>1, <3>2 DEF Follows
  <2>5. i + 1 <= Len(d) \/ i = Len(d) \/ i > Len(d)
    BY <1>2
  <2>. QED  BY <2>2, <2>3, <2>4, <2>5
<1>. QED  BY <1>1, <1>4, <1>5, <1>6 DEF InTurns

\* The dialog of a prompt.
LEMMA PromptTail ==
  ASSUME NEW d \in Seq(Turn)
  PROVE  Tail(Prompt(d)) = d
<1>1. PICK m \in Seq(Turn \cup SystemTurn) : m = Prompt(d)
  BY PromptHas
<1>2. /\ Len(m) = Len(d) + 1 /\ Len(d) \in Nat
      /\ \A i \in 1..Len(d) : m[i + 1] = d[i]
  BY <1>1, PromptHas
<1>3. m # << >>
  <2>1. Len(m) # 0
    BY <1>2
  <2>. QED  BY <2>1, EmptySeq
<1>4. /\ Tail(m) \in Seq(Turn \cup SystemTurn)
      /\ Len(Tail(m)) = Len(m) - 1
      /\ \A i \in 1..Len(Tail(m)) : Tail(m)[i] = m[i + 1]
  BY <1>3, HeadTailProperties
<1>5. Len(Tail(m)) = Len(d)
  BY <1>2, <1>4
<1>6. d \in Seq(Turn \cup SystemTurn)
  <2>1. Turn \subseteq Turn \cup SystemTurn
    OBVIOUS
  <2>. QED  BY <2>1, SeqMonotonic
<1>7. Tail(m) = d
  BY <1>2, <1>4, <1>5, <1>6, SeqEqual
<1>. QED  BY <1>1, <1>7

\* What is appended to a prompt is appended to its dialog.
LEMMA PromptGrows ==
  ASSUME NEW d \in Seq(Turn), NEW u \in Seq(Turn)
  PROVE  /\ Prompt(d) \o u = Prompt(d \o u)
         /\ d \o u \in Seq(Turn)
         /\ \A m \in Turn : u = <<m>> => Append(Prompt(d), m) = Prompt(d \o u)
<1>1. PICK s \in Seq(Sent) : s = <<SystemMessage>>
  <2>1. SystemMessage \in Sent
    BY SystemText
  <2>2. <<SystemMessage>> \in Seq(Sent)
    BY <2>1
  <2>. QED  BY <2>2
<1>2. d \in Seq(Sent) /\ u \in Seq(Sent)
  BY PromptHas
<1>3. (s \o d) \o u = s \o (d \o u)
  BY <1>2, ConcatAssociative
<1>4. Prompt(d) \o u = Prompt(d \o u)
  BY <1>1, <1>3 DEF Prompt
<1>5. ASSUME NEW m \in Turn, u = <<m>> PROVE Append(Prompt(d), m) = Prompt(d \o u)
  <2>1. Prompt(d) \in Seq(Sent) /\ m \in Sent
    BY PromptHas, TurnsAreSent
  <2>2. Append(Prompt(d), m) = Prompt(d) \o <<m>>
    BY <2>1, AppendIsConcat
  <2>. QED  BY <1>4, <1>5, <2>2
<1>. QED  BY <1>4, <1>5, ConcatProperties

\* What is recalled stays recalled.
LEMMA RecalledGrows ==
  ASSUME NEW d \in Seq(Turn), NEW u \in Seq(Turn), NEW r, Recalled(r, d) \/ Recalled(r, u)
  PROVE  Recalled(r, d \o u)
<1>1. PICK e : e = d \o u
  OBVIOUS
<1>2. /\ Len(e) = Len(d) + Len(u) /\ Len(d) \in Nat /\ Len(u) \in Nat
      /\ \A i \in 1..Len(d) + Len(u) : e[i] = IF i <= Len(d) THEN d[i] ELSE u[i - Len(d)]
  BY <1>1, ConcatProperties, LenProperties
<1>3. CASE Recalled(r, d)
  <2>1. PICK i \in 1..Len(d) : /\ d[i].role = "assistant"
                               /\ Texts(d[i]) = Texts(Assistant(r.content))
                               /\ Calls(d[i]) = Calls(Assistant(r.content))
    BY <1>3 DEF Recalled
  <2>2. i \in 1..Len(e) /\ e[i] = d[i]
    BY <1>2
  <2>. QED  BY <1>1, <2>1, <2>2 DEF Recalled
<1>4. CASE Recalled(r, u)
  <2>1. PICK i \in 1..Len(u) : /\ u[i].role = "assistant"
                               /\ Texts(u[i]) = Texts(Assistant(r.content))
                               /\ Calls(u[i]) = Calls(Assistant(r.content))
    BY <1>4 DEF Recalled
  <2>2. i + Len(d) \in 1..Len(e) /\ ~(i + Len(d) <= Len(d)) /\ (i + Len(d)) - Len(d) = i
    BY <1>2
  <2>3. e[i + Len(d)] = u[i]
    BY <1>2, <2>2
  <2>. QED  BY <1>1, <2>1, <2>2, <2>3 DEF Recalled
<1>. QED  BY <1>3, <1>4

-----------------------------------------------------------------------------
(* What a step does to the conversation: it adds to it, it leaves it as it *)
(* is, or what the open turn has added is lost.                            *)

Adds(u) ==
  /\ u \in Seq(Turn) /\ Follows(Dialog, u)
  /\ ~Early' /\ pc' # "asking"
  /\ UNCHANGED <<scenario, stored>> /\ turn' \in Nat
  /\ scenario.style = "agent" => turn' = turn
  /\ messages' = Prompt(Dialog \o u)
  /\ pc' = "ready" => Dialog \o u # << >> /\ Last(Dialog \o u).role # "assistant"
  /\ Given' \in Nat /\ Given' >= Given /\ Numbers(AllIds(u, Speech), Given, Given')
  /\ \/ UNCHANGED replies
     \/ \E c \in Seq(Block) : LET r == [turn |-> turn', content |-> c] IN
          replies' = Append(replies, r) /\ Recalled(r, u)

Rests ==
  /\ UNCHANGED <<scenario, messages, replies>> /\ Dialog' = Dialog
  /\ UNCHANGED stored \/ (scenario.style = "agent" /\ stored' = Dialog)
  /\ turn' = turn \/ Earlier' = Dialog
  /\ Given' \in Nat /\ Given' >= Given
  /\ pc' \in {"ready", "asking"} => pc \in {"ready", "asking"}
  /\ pc' = "asking" => request' = Request(Backend', messages')

Loses ==
  /\ UNCHANGED <<scenario, messages, stored, turn>>
  /\ scenario.style = "agent" /\ pc' = "idle"
  /\ Dialog' = stored /\ Given' = Given
  /\ replies' = Keep(replies, [turn : Nat \ {turn}, content : Seq(Block)])

\* A step that adds messages keeps the first three parts of the invariant.
LEMMA AddsKeeps ==
  ASSUME TalkInv, OrderInv, RecallInv, NEW u, Adds(u)
  PROVE  TalkInv' /\ OrderInv' /\ RecallInv' /\ Dialog' = Dialog \o u
<1>1. Dialog \in Seq(Turn) /\ u \in Seq(Turn) /\ stored \in Seq(Turn)
  BY DEF TalkInv, Dialog, Adds
<1>2. PICK e \in Seq(Turn) : e = Dialog \o u
  BY <1>1, ConcatProperties
<1>3. InTurns(e)
  BY <1>1, <1>2, InTurnsGrows DEF TalkInv, Adds
<1>4. messages' = Prompt(e) /\ Tail(messages') = e
  BY <1>2, PromptTail DEF Adds
<1>5. Dialog' = e /\ stored' = stored /\ scenario' = scenario
  BY <1>4 DEF Dialog, Adds
<1>6. TalkInv'
  <2>1. /\ Tail(messages') \in Seq(Turn) /\ messages' = Prompt(Tail(messages'))
        /\ stored' \in Seq(Turn) /\ InTurns(Dialog') /\ InTurns(stored')
    BY <1>1, <1>3, <1>4, <1>5 DEF TalkInv
  <2>2. pc' # "asking" /\ (pc' = "ready" => Dialog' # << >> /\ Last(Dialog').role # "assistant")
    BY <1>2, <1>5 DEF Adds
  <2>3. ASSUME scenario.style = "agent" PROVE \E v \in Seq(Turn) : Dialog' = stored' \o v
    <3>1. PICK v \in Seq(Turn) : Dialog = stored \o v
      BY <2>3 DEF TalkInv
    <3>2. (stored \o v) \o u = stored \o (v \o u) /\ v \o u \in Seq(Turn)
      BY <1>1, ConcatAssociative, ConcatProperties
    <3>. QED  BY <1>2, <1>5, <3>1, <3>2
  <2>4. scenario.style # "agent" => stored' = << >>
    BY <1>5 DEF TalkInv
  <2>5. InTurns(Dialog)' /\ InTurns(stored)'
    BY <2>1 DEF InTurns
  <2>. QED  BY <1>5, <2>1, <2>2, <2>3, <2>4, <2>5 DEF TalkInv, Prompt, SystemMessage, Text
<1>7. OrderInv'
  <2>1. /\ Given \in Nat /\ Given >= 1 /\ Given' \in Nat /\ Given' >= Given
        /\ Numbers(AllIds(Dialog, Speech), 1, Given) /\ Numbers(AllIds(stored, Speech), 1, Given)
        /\ Numbers(AllIds(u, Speech), Given, Given')
    BY DEF OrderInv, Numbered, Adds
  <2>2. /\ AllIds(e, Speech) = AllIds(Dialog, Speech) \o AllIds(u, Speech)
        /\ AllIds(Dialog, Speech) \in Seq(Nat) /\ AllIds(u, Speech) \in Seq(Nat)
    <3>1. Speech \in SUBSET Types
      BY DEF Speech, Types
    <3>2. Dialog \in Seq(Sent) /\ u \in Seq(Sent)
      BY <1>1, PromptHas
    <3>. QED  BY <1>2, <3>1, <3>2, AllIdsConcat, AllIdsAre
  <2>3. 1 <= Given /\ Given <= Given'
    BY <2>1
  <2>4. Numbers(AllIds(e, Speech), 1, Given')
    BY <2>1, <2>2, <2>3, NumbersConcat
  <2>5. Numbers(AllIds(stored, Speech), 1, Given')
    BY <2>1, <2>3, NumbersMore
  <2>6. Given' >= 1
    BY <2>1
  <2>7. Numbered(e, Given') /\ Numbered(stored, Given')
    BY <2>4, <2>5 DEF Numbered
  <2>8. Numbered(Dialog, Given)' /\ Numbered(stored, Given)'
    BY <1>5, <2>7 DEF Numbered, AllIds, Ids, Of, Speech, Image, NoText, Text, Numbers, Rising
  <2>. QED  BY <2>1, <2>6, <2>8 DEF OrderInv
<1>8. RecallInv'
  <2>1. PICK f : f = Earlier'
    OBVIOUS
  <2>2. Kept(Dialog, Earlier, turn) \subseteq Kept(e, f, turn')
    <3>. SUFFICES ASSUME NEW r \in Kept(Dialog, Earlier, turn) PROVE r \in Kept(e, f, turn')
      OBVIOUS
    <3>1. Recalled(r, e)
      BY <1>1, <1>2, RecalledGrows DEF Kept
    <3>2. CASE scenario.style = "agent"
      <4>1. f = stored /\ turn' = turn /\ Earlier = stored
        BY <1>5, <2>1, <3>2 DEF Earlier, Adds
      <4>. QED  BY <3>1, <4>1 DEF Kept
    <3>3. CASE scenario.style # "agent"
      <4>1. f = e
        BY <1>5, <2>1, <3>3 DEF Earlier
      <4>. QED  BY <3>1, <4>1 DEF Kept
    <3>. QED  BY <3>2, <3>3
  <2>3. replies \in Seq(Kept(e, f, turn'))
    BY <2>2, SeqMonotonic DEF RecallInv
  <2>4. replies' \in Seq(Kept(e, f, turn'))
    <3>1. CASE UNCHANGED replies
      BY <2>3, <3>1
    <3>2. ASSUME NEW c \in Seq(Block), NEW r, r = [turn |-> turn', content |-> c],
                 replies' = Append(replies, r), Recalled(r, u)
          PROVE  replies' \in Seq(Kept(e, f, turn'))
      <4>1. Recalled(r, e)
        BY <1>1, <1>2, <3>2, RecalledGrows
      <4>2. r \in [turn : Nat, content : Seq(Block)] /\ r.turn = turn'
        BY <3>2 DEF Adds
      <4>3. r \in Kept(e, f, turn')
        BY <4>1, <4>2 DEF Kept
      <4>. QED  BY <2>3, <3>2, <4>3, AppendProperties
    <3>. QED  BY <3>1, <3>2 DEF Adds
  <2>5. Kept(e, f, turn') = Kept(Dialog, Earlier, turn)'
    BY <1>5, <2>1 DEF Kept, Recalled, Texts, Calls, Of, Assistant, Block, NoText, Text, Image
  <2>. QED  BY <2>4, <2>5 DEF RecallInv
<1>. QED  BY <1>2, <1>5, <1>6, <1>7, <1>8

\* So does a step that adds none,
LEMMA RestsKeeps ==
  ASSUME TalkInv, OrderInv, RecallInv, Rests
  PROVE  TalkInv' /\ OrderInv' /\ RecallInv'
<1>1. Dialog \in Seq(Turn) /\ stored \in Seq(Turn)
  BY DEF TalkInv, Dialog
<1>2. /\ Dialog' = Dialog /\ scenario' = scenario /\ messages' = messages /\ replies' = replies
      /\ stored' = stored \/ (scenario.style = "agent" /\ stored' = Dialog)
  BY DEF Rests
<1>3. stored' \in Seq(Turn) /\ InTurns(stored') /\ Numbered(stored', Given)
  BY <1>1, <1>2 DEF TalkInv, OrderInv
<1>4. TalkInv'
  <2>1. /\ Tail(messages') \in Seq(Turn) /\ messages' = Prompt(Tail(messages'))
        /\ InTurns(Dialog') /\ InTurns(stored')
    BY <1>2, <1>3 DEF TalkInv
  <2>2. InTurns(Dialog)' /\ InTurns(stored)'
    BY <2>1 DEF InTurns
  <2>3. ASSUME scenario.style = "agent" PROVE \E v \in Seq(Turn) : Dialog' = stored' \o v
    <3>1. CASE stored' = stored
      BY <1>2, <2>3, <3>1 DEF TalkInv
    <3>2. CASE stored' = Dialog
      <4>1. << >> \in Seq(Turn) /\ Dialog \o << >> = Dialog
        BY <1>1, EmptySeq, ConcatEmptySeq
      <4>. QED  BY <1>2, <3>2, <4>1
    <3>. QED  BY <1>2, <3>1, <3>2
  <2>4. scenario.style # "agent" => stored' = << >>
    BY <1>2 DEF TalkInv
  <2>5. pc' \in {"ready", "asking"} => Dialog' # << >> /\ Last(Dialog').role # "assistant"
    BY <1>2 DEF TalkInv, Rests
  <2>6. pc' = "asking" => request' = Request(Backend', messages')
    BY DEF Rests
  <2>7. messages' = Prompt(Tail(messages))' /\ stored' \in Seq(Turn)
    BY <1>3, <2>1 DEF Prompt, SystemMessage, Text
  <2>. QED  BY <1>2, <2>1, <2>2, <2>3, <2>4, <2>5, <2>6, <2>7 DEF TalkInv
<1>5. OrderInv'
  <2>1. /\ Given \in Nat /\ Given >= 1 /\ Given' \in Nat /\ Given' >= Given
        /\ Numbers(AllIds(Dialog, Speech), 1, Given) /\ Numbers(AllIds(stored', Speech), 1, Given)
    BY <1>3 DEF OrderInv, Numbered, Rests
  <2>2. 1 \in Nat /\ Given <= Given' /\ Given' >= 1
    BY <2>1
  <2>3. Numbers(AllIds(Dialog, Speech), 1, Given') /\ Numbers(AllIds(stored', Speech), 1, Given')
    BY <2>1, <2>2, NumbersMore
  <2>4. Numbered(Dialog, Given)' /\ Numbered(stored, Given)'
    BY <1>2, <2>3 DEF Numbered
  <2>. QED  BY <2>1, <2>2, <2>4 DEF OrderInv
<1>6. RecallInv'
  <2>1. PICK f : f = Earlier'
    OBVIOUS
  <2>2. Kept(Dialog, Earlier, turn) \subseteq Kept(Dialog, f, turn')
    <3>1. f = Earlier \/ f = Dialog
      BY <1>2, <2>1 DEF Earlier
    <3>2. CASE f = Dialog
      BY <3>2 DEF Kept
    <3>3. CASE f # Dialog
      <4>1. turn' = turn /\ f = Earlier
        BY <2>1, <3>1, <3>3 DEF Rests
      <4>. QED  BY <4>1
    <3>. QED  BY <3>2, <3>3
  <2>3. replies' \in Seq(Kept(Dialog, f, turn'))
    BY <1>2, <2>2, SeqMonotonic DEF RecallInv
  <2>4. Kept(Dialog, f, turn') = Kept(Dialog, Earlier, turn)'
    BY <1>2, <2>1
  <2>. QED  BY <2>3, <2>4 DEF RecallInv
<1>. QED  BY <1>4, <1>5, <1>6

\* and an agent's step that loses the open turn.
LEMMA LosesKeeps ==
  ASSUME TalkInv, OrderInv, RecallInv, Loses
  PROVE  TalkInv' /\ OrderInv' /\ RecallInv'
<1>1. stored \in Seq(Turn) /\ InTurns(stored)
  BY DEF TalkInv
<1>2. /\ Dialog' = stored /\ scenario' = scenario /\ messages' = messages /\ stored' = stored
      /\ turn' = turn /\ scenario.style = "agent" /\ pc' = "idle" /\ Given' = Given
  BY DEF Loses
<1>3. TalkInv'
  <2>1. \E v \in Seq(Turn) : Dialog' = stored' \o v
    <3>1. << >> \in Seq(Turn) /\ stored \o << >> = stored
      BY <1>1, EmptySeq, ConcatEmptySeq
    <3>. QED  BY <1>2, <3>1
  <2>2. InTurns(Dialog)' /\ InTurns(stored)'
    BY <1>1, <1>2
  <2>3. messages' = Prompt(Tail(messages))' /\ Tail(messages)' \in Seq(Turn)
    BY <1>2 DEF TalkInv
  <2>. QED  BY <1>1, <1>2, <2>1, <2>2, <2>3 DEF TalkInv
<1>4. OrderInv'
  <2>1. Numbered(Dialog, Given)' /\ Numbered(stored, Given)'
    BY <1>2 DEF OrderInv
  <2>. QED  BY <1>2, <2>1 DEF OrderInv
<1>5. RecallInv'
  <2>. DEFINE K == Kept(Dialog, Earlier, turn)
              R == [turn : Nat \ {turn}, content : Seq(Block)]
  <2>1. replies' = Keep(replies, R) /\ replies \in Seq(K)
    BY DEF RecallInv, Loses
  <2>2. K \cap R \subseteq Kept(stored, stored, turn)
    <3>1. Earlier = stored
      BY <1>2 DEF Earlier
    <3>. QED  BY <3>1 DEF Kept
  <2>. HIDE DEF K, R
  <2>3. replies' \in Seq(K \cap R)
    BY <2>1, KeepType
  <2>4. replies' \in Seq(Kept(stored, stored, turn))
    BY <2>2, <2>3, SeqMonotonic
  <2>5. Kept(stored, stored, turn) = Kept(Dialog, Earlier, turn)'
    <3>1. Earlier' = stored
      BY <1>2 DEF Earlier
    <3>. QED  BY <1>2, <3>1
  <2>. QED  BY <2>4, <2>5 DEF RecallInv
<1>. QED  BY <1>3, <1>4, <1>5

\* A step that adds one message.
LEMMA MessageAdds ==
  ASSUME TalkInv, NEW m \in Turn,
         ~Early', pc' # "asking", UNCHANGED <<scenario, stored>>, turn' \in Nat,
         scenario.style = "agent" => turn' = turn,
         messages' = Prompt(Dialog \o <<m>>),
         Dialog = << >> => m.role = "user",
         Dialog # << >> /\ Last(Dialog).role = "assistant" => m.role # "assistant",
         pc' = "ready" => m.role # "assistant",
         Given' \in Nat, Given' >= Given, Numbers(Ids(Contents(m)), Given, Given'),
         \/ UNCHANGED replies
         \/ \E c \in Seq(Block) :
              /\ replies' = Append(replies, [turn |-> turn', content |-> c])
              /\ m.role = "assistant"
              /\ Texts(m) = Texts(Assistant(c)) /\ Calls(m) = Calls(Assistant(c))
  PROVE  Adds(<<m>>)
<1>1. PICK u : u = <<m>>
  OBVIOUS
<1>2. /\ u \in Seq(Turn) /\ Len(u) = 1 /\ u[1] = m /\ u # << >> /\ Last(u) = m
      /\ \A i \in 1..(Len(u) - 1) : FALSE
  <2>1. <<m>> \in Seq(Turn) /\ Len(<<m>>) = 1 /\ <<m>>[1] = m /\ <<m>> # << >>
    OBVIOUS
  <2>2. \A i \in 1..(1 - 1) : FALSE
    OBVIOUS
  <2>. QED  BY <1>1, <2>1, <2>2 DEF Last
<1>3. Dialog \in Seq(Turn) /\ InTurns(Dialog)
  BY DEF TalkInv, Dialog
<1>4. Follows(Dialog, u)
  BY <1>2 DEF Follows
<1>5. Dialog \o u # << >> /\ Last(Dialog \o u) = m
  BY <1>2, <1>3, <1>4, InTurnsGrows
<1>6. AllIds(u, Speech) = Ids(Contents(m))
  <2>1. Speech \in SUBSET Types /\ m \in Sent
    BY TurnsAreSent DEF Speech, Types
  <2>. QED  BY <1>1, <2>1, AllIdsOne DEF Contents, Speech
<1>7. ASSUME ~UNCHANGED replies
      PROVE  \E c \in Seq(Block) : LET r == [turn |-> turn', content |-> c] IN
               replies' = Append(replies, r) /\ Recalled(r, u)
  <2>1. PICK c \in Seq(Block) :
              /\ replies' = Append(replies, [turn |-> turn', content |-> c])
              /\ m.role = "assistant"
              /\ Texts(m) = Texts(Assistant(c)) /\ Calls(m) = Calls(Assistant(c))
    BY <1>7
  <2>2. Recalled([turn |-> turn', content |-> c], u)
    <3>1. 1 \in 1..Len(u) /\ [turn |-> turn', content |-> c].content = c
      BY <1>2
    <3>. QED  BY <1>2, <2>1, <3>1 DEF Recalled
  <2>. QED  BY <2>1, <2>2
<1>8. Adds(u)
  BY <1>1, <1>2, <1>4, <1>5, <1>6, <1>7 DEF Adds
<1>. QED  BY <1>1, <1>8

\* The prompt of an open turn.
LEMMA OpenTurn ==
  ASSUME TalkInv, pc \notin {"idle", "input"} \/ scenario.style # "agent"
  PROVE  Dialog = Tail(messages) /\ messages = Prompt(Dialog) /\ Dialog \in Seq(Turn)
BY DEF TalkInv, Dialog, Early

\* Turns are counted, and a run has one of two styles.
LEMMA RunsInNat ==
  ASSUME StyleInv
  PROVE  turn \in Nat /\ scenario.style \in {"agent", "client"}
<1>1. scenario.backends \in Seq(Provider) /\ scenario.style \in {"agent", "client"}
  BY ModelCallAssumption DEF StyleInv, Scenario
<1>2. Len(scenario.backends) \in Nat
  BY <1>1, LenProperties
<1>. QED  BY <1>1, <1>2 DEF StyleInv

\* The task that passed its check is added.
LEMMA InputPassesAdds ==
  ASSUME StyleInv, TalkInv, OrderInv, InputPasses
  PROVE  /\ Adds(<<User(<<Text(fresh)>>)>>)
         /\ User(<<Text(fresh)>>) \in Turn
<1>. DEFINE m == User(<<Text(fresh)>>)
<1>1. /\ pc = "input" /\ pc' = "ready" /\ scenario.style = "agent"
      /\ messages' = <<SystemMessage>> \o Append(stored, m)
      /\ UNCHANGED <<scenario, turn, fresh, stored, replies>>
  BY DEF InputPasses, StyleInv, past
<1>2. Dialog = stored /\ stored \in Seq(Turn)
  BY <1>1 DEF Dialog, Early, TalkInv
<1>3. Given = fresh - 1 /\ Given' = fresh /\ fresh \in Nat /\ fresh # 0 /\ fresh # 1
      /\ Given \in Nat /\ Given + 1 = fresh
  <2>1. fresh \in Nat /\ fresh - 1 >= 1
    BY <1>1 DEF OrderInv, Given, StyleInv
  <2>2. fresh - 1 \in Nat /\ (fresh - 1) + 1 = fresh /\ fresh # 0 /\ fresh # 1
    BY <2>1
  <2>. QED  BY <1>1, <2>1, <2>2 DEF Given
<1>4. m \in Turn /\ Ids(Contents(m)) = <<fresh>>
  BY <1>3, OneText, TurnTypes
<1>5. messages' = Prompt(Dialog \o <<m>>)
  <2>1. Append(stored, m) = stored \o <<m>>
    BY <1>2, <1>4, AppendIsConcat
  <2>. QED  BY <1>1, <1>2, <2>1 DEF Prompt
<1>6. Numbers(<<fresh>>, Given, Given')
  <2>1. Given' \in Nat /\ Given + 1 <= Given'
    BY <1>3
  <2>. QED  BY <1>3, <2>1, NumbersFew
<1>7. m.role = "user" /\ ~Early' /\ turn' \in Nat /\ Given' >= Given /\ Given' \in Nat
  BY <1>1, <1>3, RunsInNat DEF User, Early
<1>. HIDE DEF m
<1>8. Adds(<<m>>)
  <2>1. /\ m.role = "user" /\ ~Early' /\ turn' \in Nat /\ Given' >= Given /\ Given' \in Nat
        /\ turn' = turn /\ stored' = stored /\ scenario' = scenario /\ replies' = replies
        /\ pc' = "ready"
    BY <1>1, <1>7
  <2>2. Numbers(Ids(Contents(m)), Given, Given')
    BY <1>4, <1>6
  <2>. QED  BY <1>4, <1>5, <2>1, <2>2, MessageAdds
<1>. QED  BY <1>4, <1>8 DEF m

\* A reply as the agent or the client puts it into the conversation.
LEMMA ReplyAdds ==
  ASSUME NEW reply \in Replies, Backend \in Provider, fresh \in Nat, NEW c, NEW m,
         c = Content(Backend, reply) \/ c = OrNoText(Content(Backend, reply)), m = Assistant(c)
  PROVE  /\ m \in Turn /\ m.role = "assistant" /\ reply \in Seq(Block)
         /\ Texts(m) = Texts(Assistant(reply)) /\ Calls(m) = Calls(Assistant(reply))
         /\ Ids(Contents(m)) \in {<< >>, <<fresh + 1>>}
         /\ Results(m) = << >>
<1>1. /\ Content(Backend, reply) = reply
      /\ reply \in Seq(Typed({"text", "tool_call"}))
      /\ Ids(Texts(Assistant(reply))) \in {<< >>, <<fresh + 1>>}
  BY ReplyIs
<1>2. reply \in Seq(Block)
  <2>1. Typed({"text", "tool_call"}) \subseteq Block
    BY DEF Typed, Block
  <2>. QED  BY <1>1, <2>1, SeqMonotonic
<1>3. OrNoText(reply) \in Seq(Typed({"text", "tool_call"}))
  <2>1. NoText \in Typed({"text", "tool_call"})
    BY DEF NoText, Text, Typed
  <2>2. <<NoText>> \in Seq(Typed({"text", "tool_call"}))
    BY <2>1
  <2>. QED  BY <1>1, <2>2 DEF OrNoText
<1>4. c \in Seq(Typed({"text", "tool_call"})) /\ (c = reply \/ c = OrNoText(reply))
  BY <1>1, <1>3
<1>5. m \in Turn /\ m.role = "assistant" /\ m.content = c
  BY <1>4, TurnTypes DEF Assistant
<1>6. \A X : Of(X, m) = Of(X, Assistant(reply))
  <2>1. \A X : Of(X, Wire("assistant", OrNoText(reply))) = Of(X, Wire("assistant", reply))
    BY <1>2, OfOrNoText
  <2>. QED  BY <1>4, <2>1 DEF Assistant, Wire
<1>7. Texts(m) = Texts(Assistant(reply)) /\ Calls(m) = Calls(Assistant(reply))
  BY <1>6 DEF Texts, Calls
<1>8. Results(m) = << >> /\ Contents(m) = Texts(m)
  BY <1>5, TurnHas
<1>. QED  BY <1>1, <1>2, <1>5, <1>7, <1>8

\* A reply in words has no calls.
LEMMA WordsOnly ==
  ASSUME NEW reply \in {<< >>, <<Text(fresh + 1)>>}, fresh \in Nat
  PROVE  reply \in Replies /\ Calls(Assistant(reply)) = << >>
<1>1. reply \in Replies
  BY DEF Replies
<1>2. PICK t : t = Text(fresh + 1)
  OBVIOUS
<1>3. t \notin Typed({"tool_call"}) \ {NoText}
  BY <1>2 DEF Text, Typed
<1>4. Keep(<<t>>, Typed({"tool_call"}) \ {NoText}) = << >>
      /\ Keep(<< >>, Typed({"tool_call"}) \ {NoText}) = << >>
  BY <1>3, KeepOne, KeepEmpty
<1>5. reply = << >> \/ reply = <<t>>
  BY <1>2
<1>6. Calls(Assistant(reply)) = Keep(reply, Typed({"tool_call"}) \ {NoText})
  BY DEF Calls, Of, Assistant, Typed
<1>. QED  BY <1>1, <1>4, <1>5, <1>6

\* An agent's last reply of a turn is added.
LEMMA AgentAnswerAdds ==
  ASSUME StyleInv, TalkInv, OrderInv, AgentAnswer
  PROVE  \E m \in Turn : Adds(<<m>>) /\ Calls(m) = << >> /\ Results(m) = << >>
<1>1. /\ pc = "asking" /\ scenario.style = "agent" /\ pc' = "save" /\ fresh' = fresh + 1
      /\ UNCHANGED <<scenario, turn, stored>>
  BY DEF AgentAnswer
<1>2. PICK reply \in {<< >>, <<Text(fresh + 1)>>} :
        /\ messages' = Append(messages, Assistant(OrNoText(Content(Backend, reply))))
        /\ replies' = Append(replies, [turn |-> turn, content |-> reply])
  BY DEF AgentAnswer, Heard
<1>3. Backend \in Provider /\ fresh \in Nat /\ turn \in Nat
  BY <1>1, BackendType, RunsInNat DEF StyleInv
<1>4. reply \in Replies /\ Calls(Assistant(reply)) = << >>
  BY <1>3, WordsOnly
<1>5. PICK m : m = Assistant(OrNoText(Content(Backend, reply)))
  OBVIOUS
<1>6. /\ m \in Turn /\ m.role = "assistant" /\ reply \in Seq(Block)
      /\ Texts(m) = Texts(Assistant(reply)) /\ Calls(m) = Calls(Assistant(reply))
      /\ Ids(Contents(m)) \in {<< >>, <<fresh + 1>>}
      /\ Results(m) = << >>
  BY <1>3, <1>4, <1>5, ReplyAdds
<1>7. messages = Prompt(Dialog) /\ Dialog \in Seq(Turn)
  BY <1>1, OpenTurn
<1>8. messages' = Prompt(Dialog \o <<m>>)
  <2>1. <<m>> \in Seq(Turn)
    BY <1>6
  <2>. QED  BY <1>2, <1>5, <1>6, <1>7, <2>1, PromptGrows
<1>9. Given = fresh /\ Given' = fresh + 1 /\ Given' \in Nat /\ Given' >= Given
  BY <1>1, <1>3 DEF Given
<1>10. Numbers(Ids(Contents(m)), Given, Given')
  <2>1. Given + 1 <= Given' /\ Given \in Nat
    BY <1>3, <1>9
  <2>. QED  BY <1>6, <1>9, <2>1, NumbersFew
<1>11. Adds(<<m>>)
  <2>1. ~Early' /\ pc' # "asking" /\ pc' # "ready" /\ turn' \in Nat
    BY <1>1, <1>3 DEF Early
  <2>2. /\ Dialog # << >> /\ Last(Dialog).role # "assistant"
    BY <1>1 DEF TalkInv
  <2>3. replies' = Append(replies, [turn |-> turn', content |-> reply])
    BY <1>1, <1>2
  <2>. QED  BY <1>1, <1>6, <1>8, <1>9, <1>10, <2>1, <2>2, <2>3, MessageAdds
<1>. QED  BY <1>4, <1>6, <1>11

\* A call of a tool by the agent is added as two texts.
LEMMA AgentActionAdds ==
  ASSUME StyleInv, TalkInv, OrderInv, AgentAction
  PROVE  \E m, o \in Turn :
           /\ Adds(<<m, o>>)
           /\ Calls(m) = << >> /\ Results(m) = << >> /\ Calls(o) = << >> /\ Results(o) = << >>
<1>1. /\ pc = "asking" /\ scenario.style = "agent" /\ pc' \in {"save", "ready"} /\ fresh' = fresh + 2
      /\ UNCHANGED <<scenario, turn, stored>>
  BY DEF AgentAction
<1>2. PICK reply, m, o :
        /\ reply = <<Text(fresh + 1)>>
        /\ m = Assistant(Content(Backend, reply)) /\ o = Tool(<<Text(fresh + 2)>>)
  OBVIOUS
<1>3. /\ messages' = messages \o <<m, o>>
      /\ replies' = Append(replies, [turn |-> turn, content |-> reply])
  BY <1>2 DEF AgentAction, Heard
<1>4. Backend \in Provider /\ fresh \in Nat /\ turn \in Nat
  BY <1>1, BackendType, RunsInNat DEF StyleInv
<1>5. reply \in Replies /\ Calls(Assistant(reply)) = << >>
  BY <1>2, <1>4, WordsOnly
<1>6. /\ m \in Turn /\ m.role = "assistant" /\ reply \in Seq(Block)
      /\ Texts(m) = Texts(Assistant(reply)) /\ Calls(m) = Calls(Assistant(reply))
      /\ Ids(Contents(m)) \in {<< >>, <<fresh + 1>>}
      /\ Results(m) = << >>
  BY <1>2, <1>4, <1>5, ReplyAdds
<1>7. /\ o \in Turn /\ o.role = "tool" /\ Ids(Contents(o)) = <<fresh + 2>>
      /\ Calls(o) = << >> /\ Results(o) = << >>
  <2>1. fresh + 2 \in Nat /\ fresh + 2 # 0
    BY <1>4
  <2>2. <<Text(fresh + 2)>> \in Seq(Typed({"text"})) /\ Ids(Contents(o)) = <<fresh + 2>>
    BY <1>2, <2>1, OneText
  <2>3. o \in Turn /\ o.role = "tool" /\ o.content = <<Text(fresh + 2)>>
    BY <1>2, <2>2, TurnTypes DEF Tool
  <2>4. {"text"} \cap {"tool_call"} = {} /\ {"text"} \cap {"tool_result"} = {}
    OBVIOUS
  <2>. QED  BY <2>2, <2>3, <2>4, OfNone DEF Calls, Results
<1>8. messages = Prompt(Dialog) /\ Dialog \in Seq(Turn) /\ InTurns(Dialog)
      /\ Dialog # << >> /\ Last(Dialog).role # "assistant"
  BY <1>1, OpenTurn DEF TalkInv
<1>9. PICK u \in Seq(Turn) : u = <<m, o>>
  <2>1. <<m, o>> \in Seq(Turn)
    BY <1>6, <1>7
  <2>. QED  BY <2>1
<1>10. Len(u) = 2 /\ u[1] = m /\ u[2] = o /\ u # << >> /\ Last(u) = o
  <2>1. Len(u) = 2 /\ u[1] = m /\ u[2] = o
    BY <1>9
  <2>2. u # << >>
    BY <1>9
  <2>. QED  BY <2>1, <2>2 DEF Last
<1>11. Follows(Dialog, u)
  <2>1. \A i \in 1..(Len(u) - 1) : i = 1 /\ i + 1 = 2
    <3>1. \A i \in 1..(2 - 1) : i = 1 /\ i + 1 = 2
      OBVIOUS
    <3>. QED  BY <1>10, <3>1
  <2>2. ASSUME NEW i \in 1..(Len(u) - 1) PROVE u[i + 1].role # "assistant"
    <3>1. i + 1 = 2
      BY <2>1
    <3>. QED  BY <1>7, <1>10, <3>1
  <2>. QED  BY <1>8, <2>2 DEF Follows
<1>12. Dialog \o u # << >> /\ Last(Dialog \o u).role = "tool"
  BY <1>7, <1>8, <1>10, <1>11, InTurnsGrows
<1>13. messages' = Prompt(Dialog \o u)
  BY <1>3, <1>8, <1>9, PromptGrows
<1>14. Given = fresh /\ Given' = fresh + 2 /\ Given' \in Nat /\ Given' >= Given
  BY <1>1, <1>4 DEF Given
<1>15. Numbers(AllIds(u, Speech), Given, Given')
  <2>1. Speech \in SUBSET Types /\ m \in Sent /\ o \in Sent
    BY <1>6, <1>7, TurnsAreSent DEF Speech, Types
  <2>2. PICK x \in Seq(Sent), y \in Seq(Sent) : x = <<m>> /\ y = <<o>>
    <3>1. <<m>> \in Seq(Sent) /\ <<o>> \in Seq(Sent)
      BY <2>1
    <3>. QED  BY <3>1
  <2>3. u = x \o y
    <3>1. Append(x, o) = <<m, o>>
      BY <2>2, Pairs
    <3>2. Append(x, o) = x \o <<o>>
      BY <2>1, AppendIsConcat
    <3>. QED  BY <1>9, <2>2, <3>1, <3>2
  <2>4. AllIds(u, Speech) = AllIds(x, Speech) \o AllIds(y, Speech)
    BY <2>1, <2>3, AllIdsConcat
  <2>5. AllIds(x, Speech) = Ids(Contents(m)) /\ AllIds(y, Speech) = Ids(Contents(o))
    BY <2>1, <2>2, AllIdsOne DEF Contents, Speech
  <2>6. AllIds(x, Speech) \in Seq(Nat) /\ AllIds(y, Speech) \in Seq(Nat)
    BY <2>1, AllIdsAre
  <2>7. Numbers(AllIds(x, Speech), fresh, fresh + 1)
    <3>1. fresh + 1 \in Nat /\ fresh + 1 <= fresh + 1
      BY <1>4
    <3>. QED  BY <1>4, <1>6, <2>5, <3>1, NumbersFew
  <2>8. Numbers(AllIds(y, Speech), fresh + 1, fresh + 2)
    <3>1. /\ fresh + 1 \in Nat /\ fresh + 2 \in Nat /\ (fresh + 1) + 1 <= fresh + 2
          /\ (fresh + 1) + 1 = fresh + 2
      BY <1>4
    <3>2. Numbers(<<(fresh + 1) + 1>>, fresh + 1, fresh + 2)
      BY <3>1, NumbersFew
    <3>. QED  BY <1>7, <2>5, <3>1, <3>2
  <2>9. fresh <= fresh + 1 /\ fresh + 1 <= fresh + 2 /\ fresh + 1 \in Nat /\ fresh + 2 \in Nat
    BY <1>4
  <2>. QED  BY <1>4, <1>14, <2>4, <2>6, <2>7, <2>8, <2>9, NumbersConcat
<1>16. replies' = Append(replies, [turn |-> turn', content |-> reply])
       /\ Recalled([turn |-> turn', content |-> reply], u)
  <2>1. 1 \in 1..Len(u) /\ [turn |-> turn', content |-> reply].content = reply
    BY <1>10
  <2>. QED  BY <1>1, <1>3, <1>6, <1>10, <2>1 DEF Recalled
<1>17. ~Early' /\ pc' # "asking" /\ turn' \in Nat /\ turn' = turn
  BY <1>1, <1>4 DEF Early
<1>18. Adds(u)
  BY <1>1, <1>6, <1>11, <1>12, <1>13, <1>14, <1>15, <1>16, <1>17 DEF Adds
<1>. QED  BY <1>5, <1>6, <1>7, <1>9, <1>18

\* A client's user is heard.
LEMMA ClientSaysAdds ==
  ASSUME StyleInv, TalkInv, OrderInv, ClientSays
  PROVE  \E m \in Turn : Adds(<<m>>) /\ Calls(m) = << >> /\ Results(m) = << >> /\ m.role = "user"
<1>1. /\ pc = "idle" /\ scenario.style = "client" /\ pc' = "ready" /\ fresh' = fresh + 2
      /\ turn' = turn + 1 /\ UNCHANGED <<scenario, stored, replies>>
  BY DEF ClientSays, past
<1>2. PICK content \in Words : messages' = Append(messages, User(content))
  BY DEF ClientSays, Words
<1>3. fresh \in Nat /\ turn \in Nat /\ turn' \in Nat
  <2>1. fresh \in Nat /\ turn \in Nat
    BY RunsInNat DEF StyleInv
  <2>. QED  BY <1>1, <2>1
<1>4. /\ content \in Seq(Typed(Speech) \cap Shown)
      /\ Ids(Contents(User(content))) \in {<< >>, <<fresh + 1>>, <<fresh + 1, fresh + 2>>}
  BY <1>3, WordsAre
<1>5. PICK m : m = User(content)
  OBVIOUS
<1>6. m \in Turn /\ m.role = "user"
  BY <1>4, <1>5, TurnTypes DEF User
<1>7. Calls(m) = << >> /\ Results(m) = << >>
  BY <1>6, TurnHas
<1>8. messages = Prompt(Dialog) /\ Dialog \in Seq(Turn)
  BY <1>1, OpenTurn
<1>9. messages' = Prompt(Dialog \o <<m>>)
  <2>1. <<m>> \in Seq(Turn)
    BY <1>6
  <2>. QED  BY <1>2, <1>5, <1>6, <1>8, <2>1, PromptGrows
<1>10. Given = fresh /\ Given' = fresh + 2 /\ Given' \in Nat /\ Given' >= Given
  BY <1>1, <1>3 DEF Given
<1>11. Numbers(Ids(Contents(m)), Given, Given')
  <2>1. Given + 1 <= Given' /\ Given + 2 <= Given' /\ Given \in Nat
    BY <1>3, <1>10
  <2>. QED  BY <1>4, <1>5, <1>10, <2>1, NumbersFew
<1>12. Adds(<<m>>)
  <2>1. ~Early' /\ pc' # "asking" /\ m.role # "assistant" /\ scenario.style # "agent"
    BY <1>1, <1>6 DEF Early
  <2>. QED  BY <1>1, <1>3, <1>6, <1>9, <1>10, <1>11, <2>1, MessageAdds
<1>. QED  BY <1>6, <1>7, <1>12

\* A reply to a client is added, and its calls wait.
LEMMA ClientHearsAdds ==
  ASSUME StyleInv, TalkInv, OrderInv, ClientHears
  PROVE  \E m \in Turn :
           /\ Adds(<<m>>) /\ Results(m) = << >> /\ m.role = "assistant"
           /\ calls' = [i \in DOMAIN Calls(m) |-> [id |-> Calls(m)[i].id, decided |-> FALSE]]
           /\ pc' = IF Calls(m) = << >> THEN "idle" ELSE "policy"
<1>1. /\ pc = "asking" /\ scenario.style = "client" /\ fresh' = fresh + 3
      /\ UNCHANGED <<scenario, turn, stored>> /\ pc' \in {"idle", "policy"}
  BY DEF ClientHears
<1>2. PICK reply, m :
        /\ reply \in Replies
        /\ m = Assistant(Content(Backend, reply))
        /\ messages' = Append(messages, m)
        /\ replies' = Append(replies, [turn |-> turn, content |-> reply])
        /\ calls' = [i \in DOMAIN Calls(m) |-> [id |-> Calls(m)[i].id, decided |-> FALSE]]
        /\ pc' = IF Calls(m) = << >> THEN "idle" ELSE "policy"
  BY DEF ClientHears, Heard
<1>3. Backend \in Provider /\ fresh \in Nat /\ turn \in Nat
  BY <1>1, BackendType, RunsInNat DEF StyleInv
<1>4. /\ m \in Turn /\ m.role = "assistant" /\ reply \in Seq(Block)
      /\ Texts(m) = Texts(Assistant(reply)) /\ Calls(m) = Calls(Assistant(reply))
      /\ Ids(Contents(m)) \in {<< >>, <<fresh + 1>>}
      /\ Results(m) = << >>
  BY <1>2, <1>3, ReplyAdds
<1>5. messages = Prompt(Dialog) /\ Dialog \in Seq(Turn)
  BY <1>1, OpenTurn
<1>6. messages' = Prompt(Dialog \o <<m>>)
  <2>1. <<m>> \in Seq(Turn)
    BY <1>4
  <2>. QED  BY <1>2, <1>4, <1>5, <2>1, PromptGrows
<1>7. Given = fresh /\ Given' = fresh + 3 /\ Given' \in Nat /\ Given' >= Given
  BY <1>1, <1>3 DEF Given
<1>8. Numbers(Ids(Contents(m)), Given, Given')
  <2>1. Given + 1 <= Given' /\ Given \in Nat
    BY <1>3, <1>7
  <2>. QED  BY <1>4, <1>7, <2>1, NumbersFew
<1>9. Adds(<<m>>)
  <2>1. ~Early' /\ pc' # "asking" /\ pc' # "ready" /\ turn' \in Nat /\ turn' = turn
    BY <1>1, <1>3 DEF Early
  <2>2. /\ Dialog # << >> /\ Last(Dialog).role # "assistant"
    BY <1>1 DEF TalkInv
  <2>3. replies' = Append(replies, [turn |-> turn', content |-> reply])
    BY <1>1, <1>2
  <2>. QED  BY <1>1, <1>4, <1>6, <1>7, <1>8, <2>1, <2>2, <2>3, MessageAdds
<1>. QED  BY <1>2, <1>4, <1>9

-----------------------------------------------------------------------------
(* The calls of the last reply.                                            *)

CallIds == [j \in DOMAIN calls |-> calls[j].id]

PolicyInv ==
  /\ Dialog # << >>
  /\ calls \in Seq([id : Nat, decided : BOOLEAN]) /\ calls # << >>
  /\ CallIds = Ids(Calls(Last(Dialog)))

\* The results that DecideCall adds are those of the calls.
LEMMA ResultsFollow ==
  ASSUME calls \in Seq([id : Nat, decided : BOOLEAN]), calls # << >>,
         NEW c \in Seq(Block), CallIds = Ids(c), scenario.results \in {"each", "together"},
         NEW u, u = ResultMessages
  PROVE  /\ u \in Seq(Turn) /\ u # << >>
         /\ \A i \in 1..Len(u) : u[i].role = "tool" /\ Calls(u[i]) = << >> /\ Contents(u[i]) = << >>
         /\ IF scenario.results = "each"
            THEN Len(u) = Len(c) /\ \A j \in 1..Len(c) : Results(u[j]) = <<Result(c[j])>>
            ELSE Len(u) = 1 /\ Results(u[1]) = ResultsOf(c)
         /\ Len(AllIds(u, {"tool_result"})) = Len(calls)
<1>1. /\ DOMAIN calls = 1..Len(calls) /\ Len(calls) \in Nat \ {0}
      /\ DOMAIN c = 1..Len(c) /\ Len(c) \in Nat
  BY LenProperties, EmptySeq
<1>2. Len(c) = Len(calls) /\ \A j \in 1..Len(c) : calls[j].id = c[j].id
  <2>1. DOMAIN CallIds = DOMAIN calls /\ \A j \in DOMAIN calls : CallIds[j] = calls[j].id
    BY DEF CallIds
  <2>2. DOMAIN Ids(c) = 1..Len(c) /\ \A j \in 1..Len(c) : Ids(c)[j] = c[j].id
    BY IdsType
  <2>3. 1..Len(calls) = 1..Len(c)
    BY <1>1, <2>1, <2>2
  <2>4. Len(calls) = Len(c)
    <3>1. \A a, b \in Nat : 1..a = 1..b => a = b
      <4>. SUFFICES ASSUME NEW a \in Nat, NEW b \in Nat, 1..a = 1..b PROVE a = b
        OBVIOUS
      <4>1. a # 0 => a \in 1..b
        <5>1. a # 0 => a \in 1..a
          OBVIOUS
        <5>. QED  BY <5>1
      <4>2. b # 0 => b \in 1..a
        <5>1. b # 0 => b \in 1..b
          OBVIOUS
        <5>. QED  BY <5>1
      <4>. QED  BY <4>1, <4>2
    <3>. QED  BY <1>1, <2>3, <3>1
  <2>. QED  BY <1>1, <2>1, <2>2, <2>4
<1>3. PICK r : r = ResultsOf(c)
  OBVIOUS
<1>4. /\ r \in Seq(Typed({"tool_result"})) /\ r \in Seq(Block) /\ Len(r) = Len(c)
      /\ \A j \in 1..Len(c) : r[j] = Result(c[j]) /\ r[j] \in Typed({"tool_result"}) \ {NoText}
      /\ Ids(r) = Ids(c)
  BY <1>3, ResultsOfCalls
<1>5. [i \in DOMAIN calls |-> Result(calls[i])] = r
  <2>1. r = [j \in 1..Len(c) |-> Result(c[j])]
    BY <1>1, <1>3 DEF ResultsOf
  <2>2. \A j \in 1..Len(c) : Result(calls[j]) = Result(c[j])
    BY <1>2 DEF Result
  <2>. QED  BY <1>1, <1>2, <2>1, <2>2
<1>6. u = IF scenario.results = "together" THEN <<Tool(r)>>
          ELSE [i \in DOMAIN calls |-> Tool(<<r[i]>>)]
  BY <1>5 DEF ResultMessages
<1>7. ASSUME NEW b \in Seq(Typed({"tool_result"}))
      PROVE  /\ Tool(b) \in Turn /\ Tool(b).role = "tool" /\ Tool(b).content = b
             /\ Calls(Tool(b)) = << >> /\ Contents(Tool(b)) = << >>
             /\ b \in Seq(Typed({"tool_result"}) \ {NoText}) => Results(Tool(b)) = b
  <2>1. Tool(b) \in Turn /\ Tool(b).role = "tool" /\ Tool(b).content = b
    BY TurnTypes DEF Tool
  <2>2. {"tool_result"} \cap {"tool_call"} = {} /\ {"tool_result"} \cap ({"text"} \cup Image) = {}
    BY DEF Image
  <2>3. Calls(Tool(b)) = << >> /\ Contents(Tool(b)) = << >>
    BY <2>1, <2>2, OfNone DEF Calls, Contents
  <2>4. ASSUME b \in Seq(Typed({"tool_result"}) \ {NoText}) PROVE Results(Tool(b)) = b
    <3>1. Keep(b, Typed({"tool_result"}) \ {NoText}) = b
      BY <2>4, KeepAll
    <3>. QED  BY <2>1, <3>1 DEF Results, Of, Typed
  <2>. QED  BY <2>1, <2>3, <2>4
<1>8. {"tool_result"} \in SUBSET Types
  BY DEF Types
<1>9. Len(Ids(r)) = Len(calls)
  BY <1>2, <1>4, IdsType
<1>10. CASE scenario.results = "together"
  <2>1. u = <<Tool(r)>> /\ r \in Seq(Typed({"tool_result"}) \ {NoText})
    <3>1. \A j \in 1..Len(r) : r[j] \in Typed({"tool_result"}) \ {NoText}
      BY <1>4
    <3>2. r = [j \in 1..Len(r) |-> r[j]] /\ Len(r) \in Nat
      BY <1>4, LenProperties
    <3>3. [j \in 1..Len(r) |-> r[j]] \in Seq(Typed({"tool_result"}) \ {NoText})
      BY <3>1, <3>2, IsASeq
    <3>. QED  BY <1>6, <1>10, <3>2, <3>3
  <2>2. PICK t : t = Tool(r)
    OBVIOUS
  <2>3. t \in Turn /\ t.role = "tool" /\ Calls(t) = << >> /\ Contents(t) = << >> /\ Results(t) = r
    BY <1>4, <1>7, <2>1, <2>2
  <2>4. /\ <<t>> \in Seq(Turn) /\ <<t>> # << >> /\ Len(<<t>>) = 1 /\ <<t>>[1] = t
        /\ \A i \in 1..1 : i = 1
    BY <2>3
  <2>5. AllIds(<<t>>, {"tool_result"}) = Ids(r)
    <3>1. t \in Sent
      BY <2>3, TurnsAreSent
    <3>. QED  BY <1>8, <2>3, <3>1, AllIdsOne DEF Results
  <2>. QED  BY <1>3, <1>9, <1>10, <2>1, <2>2, <2>3, <2>4, <2>5
<1>11. CASE scenario.results = "each"
  <2>1. u = [i \in 1..Len(c) |-> Tool(<<r[i]>>)]
    BY <1>1, <1>2, <1>6, <1>11
  <2>2. ASSUME NEW i \in 1..Len(c)
        PROVE  /\ u[i] \in Turn /\ u[i].role = "tool" /\ Calls(u[i]) = << >> /\ Contents(u[i]) = << >>
               /\ Results(u[i]) = <<r[i]>>
    <3>1. r[i] \in Typed({"tool_result"}) \ {NoText} /\ u[i] = Tool(<<r[i]>>)
      BY <1>4, <2>1
    <3>2. <<r[i]>> \in Seq(Typed({"tool_result"})) /\ <<r[i]>> \in Seq(Typed({"tool_result"}) \ {NoText})
      <4>1. PICK e : e = r[i]
        OBVIOUS
      <4>2. \A S : e \in S => <<e>> \in Seq(S)
        OBVIOUS
      <4>3. e \in Typed({"tool_result"}) /\ e \in Typed({"tool_result"}) \ {NoText}
        BY <3>1, <4>1
      <4>. QED  BY <4>1, <4>2, <4>3
    <3>. QED  BY <1>7, <3>1, <3>2
  <2>3. u \in Seq(Turn) /\ Len(u) = Len(c) /\ DOMAIN u = 1..Len(c)
    <3>1. u = [i \in 1..Len(c) |-> u[i]]
      BY <2>1
    <3>2. [i \in 1..Len(c) |-> u[i]] \in Seq(Turn)
      BY <1>1, <2>2, IsASeq
    <3>3. Len([i \in 1..Len(c) |-> u[i]]) = Len(c)
      BY <1>1
    <3>4. DOMAIN u = 1..Len(c)
      BY <2>1
    <3>. QED  BY <3>1, <3>2, <3>3, <3>4
  <2>4. u # << >>
    <3>1. Len(u) # 0
      BY <1>1, <1>2, <2>3
    <3>. QED  BY <2>3, <3>1, EmptySeq
  <2>5. AllIds(u, {"tool_result"}) = Ids(r)
    <3>1. u \in Seq(Sent)
      BY <2>3, PromptHas
    <3>2. AllIds(u, {"tool_result"}) = Ids(FlattenSeq(Blocks(u, {"tool_result"})))
      BY <1>8, <3>1, AllIdsAre
    <3>3. Blocks(u, {"tool_result"}) = [i \in DOMAIN r |-> <<r[i]>>]
      <4>1. DOMAIN r = 1..Len(c)
        BY <1>4, LenProperties
      <4>2. \A i \in 1..Len(c) : Of({"tool_result"}, u[i]) = <<r[i]>>
        BY <2>2 DEF Results
      <4>. QED  BY <2>3, <4>1, <4>2 DEF Blocks
    <3>4. FlattenSeq([i \in DOMAIN r |-> <<r[i]>>]) = r
      BY <1>4, FlattenSingles
    <3>. QED  BY <3>2, <3>3, <3>4
  <2>6. \A j \in 1..Len(c) : Results(u[j]) = <<Result(c[j])>>
    BY <1>4, <2>2
  <2>. QED  BY <1>9, <1>11, <2>2, <2>3, <2>4, <2>5, <2>6
<1>. QED  BY <1>10, <1>11

-----------------------------------------------------------------------------
(* The steps that say nothing.                                             *)

\* What was said in the open turn is behind what is stored.
LEMMA SavedIsSaid ==
  ASSUME NEW s \in Seq(Turn), NEW u \in Seq(Turn), NEW m, m = Prompt(s \o u)
  PROVE  s \o SubSeq(m, Len(s) + 2, Len(m)) = s \o u
<1>1. PICK e \in Seq(Turn) : e = s \o u
  BY ConcatProperties
<1>2. /\ Len(e) = Len(s) + Len(u) /\ Len(s) \in Nat /\ Len(u) \in Nat
      /\ \A i \in 1..Len(s) + Len(u) : e[i] = IF i <= Len(s) THEN s[i] ELSE u[i - Len(s)]
  BY <1>1, ConcatProperties, LenProperties
<1>3. Len(m) = Len(e) + 1 /\ \A i \in 1..Len(e) : m[i + 1] = e[i]
  BY <1>1, PromptHas
<1>4. PICK a, b : a = Len(s) + 2 /\ b = Len(m)
  OBVIOUS
<1>5. ASSUME NEW i \in a..b PROVE m[i] \in Turn /\ i - a + 1 \in 1..Len(u) /\ m[i] = u[i - a + 1]
  <2>1. /\ i - 1 \in 1..Len(e) /\ (i - 1) + 1 = i
        /\ ~(i - 1 <= Len(s)) /\ (i - 1) - Len(s) = i - a + 1 /\ i - a + 1 \in 1..Len(u)
    BY <1>2, <1>3, <1>4, <1>5
  <2>2. m[i] = u[i - a + 1]
    BY <1>2, <1>3, <2>1
  <2>. QED  BY <2>1, <2>2, ElementOfSeq
<1>6. a \in Int /\ b \in Int
  BY <1>2, <1>3, <1>4
<1>7. PICK t : t = SubSeq(m, a, b)
  OBVIOUS
<1>8. /\ t \in Seq(Turn) /\ Len(t) = IF a <= b THEN b - a + 1 ELSE 0
      /\ \A i \in 1..b - a + 1 : t[i] = m[a + i - 1]
  BY <1>5, <1>6, <1>7, SubSeqProperties
<1>9. Len(t) = Len(u)
  BY <1>2, <1>3, <1>4, <1>8
<1>10. ASSUME NEW i \in 1..Len(t) PROVE t[i] = u[i]
  <2>1. i \in 1..b - a + 1 /\ a + i - 1 \in a..b /\ (a + i - 1) - a + 1 = i
    BY <1>2, <1>3, <1>4, <1>9
  <2>2. m[a + i - 1] = u[(a + i - 1) - a + 1]
    BY <1>5, <2>1
  <2>. QED  BY <1>8, <2>1, <2>2
<1>11. t = u
  BY <1>8, <1>9, <1>10, SeqEqual
<1>. QED  BY <1>4, <1>7, <1>11

SamePolicy == (pc' = "policy") = (pc = "policy") /\ calls' = calls

\* Numbers are numbers.
LEMMA GivenInNat ==
  ASSUME StyleInv, OrderInv
  PROVE  Given \in Nat /\ fresh \in Nat /\ turn \in Nat
BY RunsInNat DEF StyleInv, OrderInv

\* Guardrails and rules have no part in the conversation.
LEMMA AddRests ==
  ASSUME StyleInv, TalkInv, OrderInv, Add \/ Consult \/ Over \/ UNCHANGED vars
  PROVE  Rests /\ SamePolicy
<1>1. /\ UNCHANGED <<scenario, pc, turn, fresh, stored, messages, calls, request, replies>>
  BY DEF Add, Consult, Over, vars, talk, past
<1>2. Dialog' = Dialog /\ Given' = Given /\ Backend' = Backend
  BY <1>1 DEF Dialog, Early, Given, Backend
<1>3. Given \in Nat /\ Given >= Given
  BY GivenInNat
<1>4. pc = "asking" => request = Request(Backend, messages)
  BY DEF TalkInv
<1>. QED  BY <1>1, <1>2, <1>3, <1>4 DEF Rests, SamePolicy

\* A new run starts from what is stored.
LEMMA RunAgentRests ==
  ASSUME StyleInv, TalkInv, OrderInv, RunAgent
  PROVE  Rests /\ scenario.style = "agent"
<1>1. /\ UNCHANGED <<scenario, stored, messages, replies>> /\ pc = "idle" /\ pc' = "input"
      /\ scenario.style = "agent" /\ fresh' = fresh + 1
  BY DEF RunAgent, past
<1>2. Dialog = stored /\ Dialog' = stored /\ Earlier' = stored
  BY <1>1 DEF Dialog, Early, Earlier
<1>3. Given' = fresh /\ Given = fresh
  <2>1. \A n \in Nat : (n + 1) - 1 = n
    OBVIOUS
  <2>. QED  BY <1>1, <2>1, GivenInNat DEF Given
<1>4. \A n \in Nat : n >= n
  OBVIOUS
<1>. QED  BY <1>1, <1>2, <1>3, <1>4, GivenInNat DEF Rests

\* A task that was blocked is forgotten.
LEMMA InputBlockedRests ==
  ASSUME StyleInv, TalkInv, OrderInv, InputBlocked
  PROVE  Rests /\ scenario.style = "agent"
<1>1. /\ UNCHANGED <<scenario, stored, messages, replies, turn, fresh>>
      /\ pc = "input" /\ pc' = "idle" /\ scenario.style = "agent"
  BY DEF InputBlocked, past, talk, StyleInv
<1>2. Dialog = stored /\ Dialog' = stored
  BY <1>1 DEF Dialog, Early
<1>3. Given' = fresh /\ Given = fresh - 1
  BY <1>1 DEF Given
<1>4. \A n \in Nat : n >= n - 1
  OBVIOUS
<1>. QED  BY <1>1, <1>2, <1>3, <1>4, GivenInNat DEF Rests

\* What is stored is what was said.
LEMMA SaveRests ==
  ASSUME StyleInv, TalkInv, OrderInv, Save, scenario.style = "agent"
  PROVE  Rests
<1>1. /\ UNCHANGED <<scenario, messages, replies, turn, fresh>> /\ pc = "save" /\ pc' = "idle"
      /\ stored' = stored \o SubSeq(messages, Len(stored) + 2, Len(messages))
  BY DEF Save, past
<1>2. messages = Prompt(Dialog) /\ stored \in Seq(Turn)
  BY <1>1, OpenTurn DEF TalkInv
<1>3. PICK u \in Seq(Turn) : Dialog = stored \o u
  BY DEF TalkInv
<1>4. stored' = Dialog
  BY <1>1, <1>2, <1>3, SavedIsSaid
<1>5. Dialog' = Dialog
  BY <1>1, <1>4 DEF Dialog, Early
<1>6. Given' = Given /\ Given \in Nat /\ Given >= Given
  <2>1. \A n \in Nat : n >= n
    OBVIOUS
  <2>. QED  BY <1>1, <2>1, GivenInNat DEF Given
<1>. QED  BY <1>1, <1>4, <1>5, <1>6 DEF Rests

\* The request is made of the conversation.
LEMMA CompleteRests ==
  ASSUME StyleInv, TalkInv, OrderInv, Complete
  PROVE  Rests /\ SamePolicy
<1>1. /\ UNCHANGED <<scenario, turn, fresh, stored, messages, calls, replies>>
      /\ pc = "ready" /\ pc' = "asking" /\ request' = Request(Backend, messages)
  BY DEF Complete, talk
<1>2. Dialog' = Dialog /\ Given' = Given /\ Backend' = Backend
  BY <1>1 DEF Dialog, Early, Given, Backend
<1>3. Given \in Nat /\ Given >= Given
  <2>1. \A n \in Nat : n >= n
    OBVIOUS
  <2>. QED  BY <2>1, GivenInNat
<1>. QED  BY <1>1, <1>2, <1>3 DEF Rests, SamePolicy

\* An exception costs an agent the turn, a client nothing.
LEMMA RaiseLoses ==
  ASSUME StyleInv, TalkInv, OrderInv, Raise
  PROVE  IF scenario.style = "agent" THEN Loses ELSE Rests /\ SamePolicy
<1>1. UNCHANGED <<scenario, turn, fresh, stored, messages, calls>> /\ pc = "asking"
  BY DEF Raise, talk
<1>2. ASSUME scenario.style = "agent" PROVE Loses
  <2>1. pc' = "idle" /\ replies' = Keep(replies, [turn : Nat \ {turn}, content : Seq(Block)])
    BY <1>2 DEF Raise
  <2>2. Dialog' = stored /\ Given' = Given
    BY <1>1, <1>2, <2>1 DEF Dialog, Early, Given
  <2>. QED  BY <1>1, <1>2, <2>1, <2>2 DEF Loses
<1>3. ASSUME scenario.style # "agent" PROVE Rests /\ SamePolicy
  <2>1. pc' \in {"idle", "ready"} /\ UNCHANGED replies
    BY <1>3 DEF Raise
  <2>2. Dialog' = Dialog /\ Given' = Given
    BY <1>1, <1>3, <2>1 DEF Dialog, Early, Given
  <2>3. Given \in Nat /\ Given >= Given
    <3>1. \A n \in Nat : n >= n
      OBVIOUS
    <3>. QED  BY <3>1, GivenInNat
  <2>. QED  BY <1>1, <2>1, <2>2, <2>3 DEF Rests, SamePolicy
<1>. QED  BY <1>2, <1>3

-----------------------------------------------------------------------------
(* Which calls of a conversation have been answered.                       *)

\* Nobody calls a tool.
Mute(d) == \A i \in 1..Len(d) : Calls(d[i]) = << >> /\ Results(d[i]) = << >>

\* n calls, those of the last message if there are any, wait for an answer.
Settled(d, form, n) ==
  /\ \A i \in 1..Len(d) : Calls(d[i]) # << >> /\ (n # 0 => i # Len(d)) => Answered(d, i, form)
  /\ form = "each" => OneResult(d)
  /\ Len(AllIds(d, {"tool_call"})) = Len(AllIds(d, {"tool_result"})) + n

\* The messages of role tool are results.
Linked(d) == \A i \in 1..Len(d) : d[i].role = "tool" => Results(d[i]) # << >>

AnswerInv ==
  IF scenario.style = "agent"
  THEN Mute(stored) /\ Mute(Dialog)
  ELSE /\ pc # "save"
       /\ Linked(Dialog)
       /\ pc # "policy" => Settled(Dialog, scenario.results, 0)
       /\ pc = "policy" => PolicyInv /\ Settled(Dialog, scenario.results, Len(calls))

\* Two conversations without calls.
LEMMA MuteGrows ==
  ASSUME NEW d \in Seq(Turn), NEW u \in Seq(Turn), Mute(d), Mute(u)
  PROVE  Mute(d \o u)
<1>1. PICK e : e = d \o u
  OBVIOUS
<1>2. /\ Len(e) = Len(d) + Len(u) /\ Len(d) \in Nat /\ Len(u) \in Nat
      /\ \A i \in 1..Len(d) + Len(u) : e[i] = IF i <= Len(d) THEN d[i] ELSE u[i - Len(d)]
  BY <1>1, ConcatProperties, LenProperties
<1>3. ASSUME NEW i \in 1..Len(e) PROVE Calls(e[i]) = << >> /\ Results(e[i]) = << >>
  <2>1. CASE i <= Len(d)
    <3>1. i \in 1..Len(d) /\ e[i] = d[i]
      BY <1>2, <2>1
    <3>. QED  BY <3>1 DEF Mute
  <2>2. CASE ~(i <= Len(d))
    <3>1. i - Len(d) \in 1..Len(u) /\ e[i] = u[i - Len(d)]
      BY <1>2, <2>2
    <3>. QED  BY <3>1 DEF Mute
  <2>. QED  BY <2>1, <2>2
<1>. QED  BY <1>1, <1>3 DEF Mute

\* Two conversations whose results are linked to calls.
LEMMA LinkedGrows ==
  ASSUME NEW d \in Seq(Turn), NEW u \in Seq(Turn), Linked(d), Linked(u)
  PROVE  Linked(d \o u)
<1>1. PICK e : e = d \o u
  OBVIOUS
<1>2. /\ Len(e) = Len(d) + Len(u) /\ Len(d) \in Nat /\ Len(u) \in Nat
      /\ \A i \in 1..Len(d) + Len(u) : e[i] = IF i <= Len(d) THEN d[i] ELSE u[i - Len(d)]
  BY <1>1, ConcatProperties, LenProperties
<1>3. ASSUME NEW i \in 1..Len(e), e[i].role = "tool" PROVE Results(e[i]) # << >>
  <2>1. CASE i <= Len(d)
    <3>1. i \in 1..Len(d) /\ e[i] = d[i]
      BY <1>2, <2>1
    <3>. QED  BY <1>3, <3>1 DEF Linked
  <2>2. CASE ~(i <= Len(d))
    <3>1. i - Len(d) \in 1..Len(u) /\ e[i] = u[i - Len(d)]
      BY <1>2, <2>2
    <3>. QED  BY <1>3, <3>1 DEF Linked
  <2>. QED  BY <2>1, <2>2
<1>. QED  BY <1>1, <1>3 DEF Linked

\* One message of another role.
LEMMA OneLinked ==
  ASSUME NEW m, m.role # "tool"
  PROVE  Linked(<<m>>)
<1>1. Len(<<m>>) = 1 /\ <<m>>[1] = m /\ \A i \in 1..1 : i = 1
  OBVIOUS
<1>. QED  BY <1>1 DEF Linked

\* Where nobody calls, nothing waits.
LEMMA MuteIsSettled ==
  ASSUME NEW d \in Seq(Turn), Mute(d), NEW form
  PROVE  Settled(d, form, 0)
<1>1. d \in Seq(Sent) /\ DOMAIN d = 1..Len(d)
  BY PromptHas
<1>2. \A i \in DOMAIN d : Of({"tool_call"}, d[i]) = << >> /\ Of({"tool_result"}, d[i]) = << >>
  BY <1>1 DEF Mute, Calls, Results
<1>3. AllIds(d, {"tool_call"}) = << >> /\ AllIds(d, {"tool_result"}) = << >>
  BY <1>1, <1>2, AllIdsNone
<1>4. OneResult(d)
  <2>1. Len(<< >>) <= 1 /\ Len(<< >>) = 0
    OBVIOUS
  <2>. QED  BY <2>1 DEF Mute, OneResult
<1>5. Len(<< >>) = Len(<< >>) + 0
  OBVIOUS
<1>. QED  BY <1>3, <1>4, <1>5 DEF Mute, Settled

\* A message without results, with or without calls, when nothing is open.
LEMMA MessageSettles ==
  ASSUME NEW d \in Seq(Turn), NEW form, Settled(d, form, 0),
         NEW m \in Turn, Results(m) = << >>, NEW n, n = Len(Calls(m))
  PROVE  Settled(d \o <<m>>, form, n)
<1>1. PICK u \in Seq(Turn) : u = <<m>>
  <2>1. <<m>> \in Seq(Turn)
    OBVIOUS
  <2>. QED  BY <2>1
<1>2. Len(u) = 1 /\ u[1] = m /\ m \in Sent /\ d \in Seq(Sent) /\ u \in Seq(Sent)
  <2>1. Len(<<m>>) = 1 /\ <<m>>[1] = m
    OBVIOUS
  <2>. QED  BY <1>1, <2>1, TurnsAreSent, PromptHas
<1>3. PICK e : e = d \o u
  OBVIOUS
<1>4. /\ Len(e) = Len(d) + 1 /\ Len(d) \in Nat
      /\ \A i \in 1..Len(d) + 1 : e[i] = IF i <= Len(d) THEN d[i] ELSE u[i - Len(d)]
  <2>1. /\ Len(e) = Len(d) + Len(u) /\ Len(d) \in Nat
        /\ \A i \in 1..Len(d) + Len(u) : e[i] = IF i <= Len(d) THEN d[i] ELSE u[i - Len(d)]
    BY <1>1, <1>3, ConcatProperties, LenProperties
  <2>. QED  BY <1>2, <2>1
<1>5. \A i \in 1..Len(d) : e[i] = d[i]
  BY <1>4
<1>6. e[Len(d) + 1] = m
  <2>1. Len(d) + 1 \in 1..Len(d) + 1 /\ ~(Len(d) + 1 <= Len(d)) /\ (Len(d) + 1) - Len(d) = 1
    BY <1>4
  <2>. QED  BY <1>2, <1>4, <2>1
<1>7. \A i \in 1..Len(e) : i \in 1..Len(d) \/ i = Len(d) + 1
  BY <1>4
<1>8. PICK c \in Seq(Block) : c = Calls(m)
  BY <1>2, CallsType
<1>9. n \in Nat /\ (n = 0 <=> c = << >>)
  BY <1>8, EmptySeq, LenProperties
<1>10. ASSUME NEW i \in 1..Len(e), Calls(e[i]) # << >>, n # 0 => i # Len(e)
       PROVE  Answered(e, i, form)
  <2>1. i \in 1..Len(d)
    BY <1>4, <1>6, <1>7, <1>8, <1>9, <1>10
  <2>2. Answered(d, i, form)
    BY <1>5, <1>10, <2>1 DEF Settled
  <2>. QED  BY <1>2, <1>3, <2>1, <2>2, AnsweredGrows
<1>11. ASSUME form = "each" PROVE OneResult(e)
  <2>1. Len(<< >>) <= 1
    OBVIOUS
  <2>. QED  BY <1>5, <1>6, <1>7, <1>11, <2>1 DEF OneResult, Settled
<1>12. Len(AllIds(e, {"tool_call"})) = Len(AllIds(e, {"tool_result"})) + n
  <2>1. {"tool_call"} \in SUBSET Types /\ {"tool_result"} \in SUBSET Types
    BY DEF Types
  <2>2. PICK a, b : a = AllIds(d, {"tool_call"}) /\ b = AllIds(d, {"tool_result"})
    OBVIOUS
  <2>3. a \in Seq(Nat) /\ b \in Seq(Nat) /\ Len(a) = Len(b) + 0
    BY <1>2, <2>1, <2>2, AllIdsAre DEF Settled
  <2>4. AllIds(u, {"tool_call"}) = Ids(c) /\ AllIds(u, {"tool_result"}) = << >>
    <3>1. Ids(<< >>) = << >>
      BY SystemText
    <3>. QED  BY <1>1, <1>2, <1>8, <2>1, <3>1, AllIdsOne DEF Calls, Results
  <2>5. Ids(c) \in Seq(Nat) /\ Len(Ids(c)) = n
    BY <1>8, IdsType
  <2>6. AllIds(e, {"tool_call"}) = a \o Ids(c)
    BY <1>2, <1>3, <2>1, <2>2, <2>4, AllIdsConcat
  <2>7. AllIds(e, {"tool_result"}) = b \o << >>
    BY <1>2, <1>3, <2>1, <2>2, <2>4, AllIdsConcat
  <2>8. b \o << >> = b /\ Len(a \o Ids(c)) = Len(a) + n /\ Len(a) \in Nat /\ Len(b) \in Nat
    <3>1. b \o << >> = b
      BY <2>3, ConcatEmptySeq
    <3>2. Len(a \o Ids(c)) = Len(a) + Len(Ids(c))
      BY <2>3, <2>5, ConcatProperties
    <3>. QED  BY <2>3, <2>5, <3>1, <3>2, LenProperties
  <2>. QED  BY <1>9, <2>3, <2>6, <2>7, <2>8
<1>. QED  BY <1>1, <1>3, <1>10, <1>11, <1>12 DEF Settled

\* The results of the calls of the last message.
ResultsOfLast(c, form, u) ==
  /\ u \in Seq(Turn) /\ u # << >>
  /\ \A i \in 1..Len(u) : Calls(u[i]) = << >>
  /\ Linked(u)
  /\ IF form = "each"
     THEN Len(u) = Len(c) /\ \A j \in 1..Len(c) : Results(u[j]) = <<Result(c[j])>>
     ELSE Len(u) = 1 /\ Results(u[1]) = ResultsOf(c)
  /\ Len(AllIds(u, {"tool_result"})) = Len(c)

\* Once the results are there, nothing waits.
LEMMA ResultsSettle ==
  ASSUME NEW d \in Seq(Turn), d # << >>, NEW c \in Seq(Block), c = Calls(Last(d)), c # << >>,
         NEW form, Settled(d, form, Len(c)), NEW u, ResultsOfLast(c, form, u)
  PROVE  Settled(d \o u, form, 0)
<1>1. u \in Seq(Turn) /\ u \in Seq(Sent) /\ d \in Seq(Sent) /\ \A i \in 1..Len(u) : Calls(u[i]) = << >>
  BY PromptHas DEF ResultsOfLast
<1>2. PICK e \in Seq(Sent) : e = d \o u
  BY <1>1, ConcatProperties
<1>3. /\ Len(e) = Len(d) + Len(u) /\ Len(d) \in Nat \ {0} /\ Len(u) \in Nat \ {0}
      /\ Len(c) \in Nat \ {0}
  BY <1>1, <1>2, ConcatProperties, EmptySeq DEF ResultsOfLast
<1>4. \A i \in 1..Len(d) + Len(u) : e[i] = IF i <= Len(d) THEN d[i] ELSE u[i - Len(d)]
  BY <1>1, <1>2, ConcatProperties
<1>5. \A i \in 1..Len(d) : i \in 1..Len(e) /\ e[i] = d[i]
  BY <1>3, <1>4
<1>6. ASSUME NEW j \in 1..Len(u) PROVE Len(d) + j \in 1..Len(e) /\ e[Len(d) + j] = u[j]
  <2>1. Len(d) + j \in 1..Len(d) + Len(u) /\ ~(Len(d) + j <= Len(d)) /\ (Len(d) + j) - Len(d) = j
    BY <1>3
  <2>. QED  BY <1>3, <1>4, <2>1
<1>7. ASSUME NEW i \in 1..Len(e), i \notin 1..Len(d) PROVE \E j \in 1..Len(u) : i = Len(d) + j
  <2>1. i - Len(d) \in 1..Len(u) /\ i = Len(d) + (i - Len(d))
    BY <1>3, <1>7
  <2>. QED  BY <2>1
<1>8. Answered(e, Len(d), form)
  <2>1. Calls(e[Len(d)]) = c
    <3>1. Len(d) \in 1..Len(d)
      BY <1>3
    <3>. QED  BY <1>5, <3>1 DEF Last
  <2>2. CASE form = "each"
    <3>1. Len(u) = Len(c) /\ \A j \in 1..Len(c) : Results(u[j]) = <<Result(c[j])>>
      BY <2>2 DEF ResultsOfLast
    <3>2. \A j \in 1..Len(c) : Results(e[Len(d) + j]) = <<Result(c[j])>>
      BY <1>6, <3>1
    <3>3. Len(d) + Len(c) <= Len(e)
      BY <1>3, <3>1
    <3>. QED  BY <2>1, <2>2, <3>2, <3>3 DEF Answered
  <2>3. CASE form # "each"
    <3>1. Len(u) = 1 /\ Results(u[1]) = ResultsOf(c)
      BY <2>3 DEF ResultsOfLast
    <3>2. 1 \in 1..Len(u) /\ Len(d) + 1 <= Len(e)
      BY <1>3, <3>1
    <3>3. Results(e[Len(d) + 1]) = ResultsOf(c)
      BY <1>6, <3>1, <3>2
    <3>. QED  BY <2>1, <2>3, <3>2, <3>3 DEF Answered
  <2>. QED  BY <2>2, <2>3
<1>9. ASSUME NEW i \in 1..Len(e), Calls(e[i]) # << >> PROVE Answered(e, i, form)
  <2>1. CASE i \notin 1..Len(d)
    <3>1. PICK j \in 1..Len(u) : i = Len(d) + j
      BY <1>7, <2>1
    <3>. QED  BY <1>1, <1>6, <1>9, <3>1
  <2>2. CASE i = Len(d)
    BY <1>8, <2>2
  <2>3. CASE i \in 1..Len(d) /\ i # Len(d)
    <3>1. Answered(d, i, form)
      BY <1>5, <1>9, <2>3 DEF Settled
    <3>. QED  BY <1>1, <1>2, <2>3, <3>1, AnsweredGrows
  <2>. QED  BY <2>1, <2>2, <2>3
<1>10. ASSUME form = "each" PROVE OneResult(e)
  <2>1. \A j \in 1..Len(u) : Len(Results(u[j])) <= 1
    <3>1. \A x : Len(<<x>>) <= 1
      OBVIOUS
    <3>. QED  BY <1>10, <3>1 DEF ResultsOfLast
  <2>2. \A i \in 1..Len(d) : Len(Results(d[i])) <= 1
    BY <1>10 DEF Settled, OneResult
  <2>3. ASSUME NEW i \in 1..Len(e) PROVE Len(Results(e[i])) <= 1
    <3>1. CASE i \in 1..Len(d)
      BY <1>5, <2>2, <3>1
    <3>2. CASE i \notin 1..Len(d)
      <4>1. PICK j \in 1..Len(u) : i = Len(d) + j
        BY <1>7, <3>2
      <4>. QED  BY <1>6, <2>1, <4>1
    <3>. QED  BY <3>1, <3>2
  <2>. QED  BY <2>3 DEF OneResult
<1>11. Len(AllIds(e, {"tool_call"})) = Len(AllIds(e, {"tool_result"})) + 0
  <2>1. {"tool_call"} \in SUBSET Types /\ {"tool_result"} \in SUBSET Types
    BY DEF Types
  <2>2. PICK a, b, r : /\ a = AllIds(d, {"tool_call"}) /\ b = AllIds(d, {"tool_result"})
                       /\ r = AllIds(u, {"tool_result"})
    OBVIOUS
  <2>3. /\ a \in Seq(Nat) /\ b \in Seq(Nat) /\ r \in Seq(Nat)
        /\ Len(a) = Len(b) + Len(c) /\ Len(r) = Len(c)
    BY <1>1, <2>1, <2>2, AllIdsAre DEF Settled, ResultsOfLast
  <2>4. AllIds(u, {"tool_call"}) = << >>
    <3>1. DOMAIN u = 1..Len(u)
      BY <1>1, LenProperties
    <3>2. \A i \in DOMAIN u : Of({"tool_call"}, u[i]) = << >>
      BY <1>1, <3>1 DEF Calls
    <3>. QED  BY <1>1, <3>2, AllIdsNone
  <2>5. AllIds(e, {"tool_call"}) = a \o << >> /\ AllIds(e, {"tool_result"}) = b \o r
    <3>1. \A X \in SUBSET Types : AllIds(e, X) = AllIds(d, X) \o AllIds(u, X)
      BY <1>1, <1>2, AllIdsConcat
    <3>. QED  BY <2>1, <2>2, <2>4, <3>1
  <2>6. a \o << >> = a /\ Len(b \o r) = Len(b) + Len(r) /\ Len(a) \in Nat /\ Len(b) \in Nat
    <3>1. a \o << >> = a
      BY <2>3, ConcatEmptySeq
    <3>2. Len(b \o r) = Len(b) + Len(r)
      BY <2>3, ConcatProperties
    <3>. QED  BY <2>3, <3>1, <3>2, LenProperties
  <2>. QED  BY <1>3, <2>3, <2>5, <2>6
<1>. QED  BY <1>2, <1>9, <1>10, <1>11 DEF Settled

StyleIs == scenario.style \in {"agent", "client"} /\ scenario.results \in {"each", "together"}

\* What a scenario is.
LEMMA ScenarioIs == ASSUME StyleInv PROVE StyleIs
BY ModelCallAssumption DEF StyleInv, Scenario, StyleIs

\* The policy engine decides on the last call that is open.
LEMMA DecideLastAdds ==
  ASSUME StyleInv, TalkInv, OrderInv, AnswerInv, DecideCall, messages' # messages \/ pc' # "policy"
  PROVE  /\ scenario.style = "client" /\ pc = "policy" /\ pc' = "ready"
         /\ \E u : Adds(u) /\ ResultsOfLast(Calls(Last(Dialog)), scenario.results, u)
<1>1. /\ pc = "policy" /\ UNCHANGED <<scenario, turn, fresh, stored, replies>>
      /\ pc' = "ready" /\ messages' = messages \o ResultMessages
  BY DEF DecideCall, past
<1>2. scenario.style = "client" /\ scenario.style # "agent" /\ scenario.results \in {"each", "together"}
  BY <1>1, ScenarioIs DEF StyleInv, StyleIs
<1>3. /\ Dialog # << >>
      /\ calls \in Seq([id : Nat, decided : BOOLEAN]) /\ calls # << >>
      /\ CallIds = Ids(Calls(Last(Dialog)))
  BY <1>1, <1>2 DEF AnswerInv, PolicyInv
<1>4. messages = Prompt(Dialog) /\ Dialog \in Seq(Turn)
  BY <1>2, OpenTurn
<1>5. Last(Dialog) \in Turn
  <2>1. Len(Dialog) \in 1..Len(Dialog)
    <3>1. Len(Dialog) \in Nat \ {0}
      BY <1>3, <1>4, EmptySeq
    <3>. QED  BY <3>1
  <2>. QED  BY <1>4, <2>1, ElementOfSeq DEF Last
<1>6. PICK c \in Seq(Block) : c = Calls(Last(Dialog))
  BY <1>5, TurnsAreSent, CallsType
<1>7. PICK u : u = ResultMessages
  OBVIOUS
<1>8. /\ u \in Seq(Turn) /\ u # << >>
      /\ \A i \in 1..Len(u) : u[i].role = "tool" /\ Calls(u[i]) = << >> /\ Contents(u[i]) = << >>
      /\ IF scenario.results = "each"
         THEN Len(u) = Len(c) /\ \A j \in 1..Len(c) : Results(u[j]) = <<Result(c[j])>>
         ELSE Len(u) = 1 /\ Results(u[1]) = ResultsOf(c)
      /\ Len(AllIds(u, {"tool_result"})) = Len(calls)
  BY <1>2, <1>3, <1>6, <1>7, ResultsFollow
<1>9. Len(calls) = Len(c)
  <2>1. Len(Ids(c)) = Len(c) /\ Len(CallIds) = Len(calls)
    <3>1. Len(Ids(c)) = Len(c)
      BY IdsType
    <3>2. CallIds = [j \in 1..Len(calls) |-> calls[j].id] /\ Len(calls) \in Nat
      BY <1>3, LenProperties DEF CallIds
    <3>. QED  BY <3>1, <3>2
  <2>. QED  BY <1>3, <1>6, <2>1
<1>10. ResultsOfLast(Calls(Last(Dialog)), scenario.results, u)
  <2>1. ASSUME NEW i \in 1..Len(u) PROVE Results(u[i]) # << >>
    <3>1. CASE scenario.results = "each"
      <4>1. \A x : <<x>> # << >>
        OBVIOUS
      <4>2. i \in 1..Len(c) /\ Results(u[i]) = <<Result(c[i])>>
        BY <1>8, <3>1
      <4>. QED  BY <4>1, <4>2
    <3>2. CASE scenario.results # "each"
      <4>1. Len(u) = 1 /\ Results(u[1]) = ResultsOf(c) /\ \A j \in 1..1 : j = 1
        BY <1>8, <3>2
      <4>2. Len(c) # 0 /\ Len(<< >>) = 0
        BY <1>3, <1>9, EmptySeq
      <4>3. Len(ResultsOf(c)) = Len(c)
        BY ResultsOfCalls
      <4>. QED  BY <4>1, <4>2, <4>3
    <3>. QED  BY <3>1, <3>2
  <2>2. Linked(u)
    BY <2>1 DEF Linked
  <2>. QED  BY <1>6, <1>8, <1>9, <2>2 DEF ResultsOfLast
<1>11. Len(u) \in Nat \ {0} /\ 1 \in 1..Len(u) /\ Len(u) \in 1..Len(u) /\ DOMAIN u = 1..Len(u)
  <2>1. Len(u) \in Nat \ {0} /\ DOMAIN u = 1..Len(u)
    BY <1>8, EmptySeq, LenProperties
  <2>. QED  BY <2>1
<1>12. Follows(Dialog, u)
  <2>1. ASSUME NEW i \in 1..(Len(u) - 1) PROVE u[i].role # "assistant"
    <3>1. i \in 1..Len(u)
      BY <1>11
    <3>. QED  BY <1>8, <3>1
  <2>2. u[1].role # "assistant"
    BY <1>8, <1>11
  <2>. QED  BY <1>3, <2>1, <2>2 DEF Follows
<1>13. Dialog \o u # << >> /\ Last(Dialog \o u).role # "assistant"
  <2>1. Dialog \o u # << >> /\ Last(Dialog \o u) = Last(u)
    BY <1>4, <1>8, <1>12, InTurnsGrows DEF TalkInv
  <2>. QED  BY <1>8, <1>11, <2>1 DEF Last
<1>14. messages' = Prompt(Dialog \o u)
  BY <1>1, <1>4, <1>7, <1>8, PromptGrows
<1>15. Given' = Given /\ Given \in Nat /\ Given >= Given
  <2>1. \A n \in Nat : n >= n
    OBVIOUS
  <2>. QED  BY <1>1, <2>1, GivenInNat DEF Given
<1>16. Numbers(AllIds(u, Speech), Given, Given')
  <2>1. AllIds(u, Speech) = << >>
    <3>1. \A i \in DOMAIN u : Of(Speech, u[i]) = << >>
      BY <1>8, <1>11 DEF Contents, Speech
    <3>2. u \in Seq(Sent)
      BY <1>8, PromptHas
    <3>. QED  BY <3>1, <3>2, AllIdsNone
  <2>. QED  BY <1>15, <2>1, NumbersFew
<1>17. ~Early' /\ turn' \in Nat /\ pc' # "asking"
  BY <1>1, <1>2, GivenInNat DEF Early
<1>18. Adds(u)
  BY <1>1, <1>8, <1>12, <1>13, <1>14, <1>15, <1>16, <1>17 DEF Adds
<1>. QED  BY <1>1, <1>2, <1>10, <1>18

\* It decides on another one.
SameCalls ==
  calls' \in Seq([id : Nat, decided : BOOLEAN]) /\ Len(calls') = Len(calls) /\ CallIds' = CallIds

\* A decision before the last changes no message.
LEMMA DecideRests ==
  ASSUME StyleInv, TalkInv, OrderInv, AnswerInv, DecideCall, messages' = messages, pc' = "policy"
  PROVE  Rests /\ scenario.style = "client" /\ pc = "policy" /\ SameCalls
<1>1. pc = "policy" /\ UNCHANGED <<scenario, turn, fresh, stored, replies>>
  BY DEF DecideCall, past
<1>2. scenario.style = "client" /\ scenario.style # "agent"
  BY <1>1, ScenarioIs DEF StyleInv, StyleIs
<1>3. Dialog' = Dialog /\ Given' = Given
  BY <1>1, <1>2 DEF Dialog, Early, Given
<1>4. Given \in Nat /\ Given >= Given
  <2>1. \A n \in Nat : n >= n
    OBVIOUS
  <2>. QED  BY <2>1, GivenInNat
<1>5. Rests
  BY <1>1, <1>3, <1>4 DEF Rests
<1>6. PICK i : calls' = [calls EXCEPT ![i].decided = TRUE]
  BY DEF DecideCall
<1>7. calls \in Seq([id : Nat, decided : BOOLEAN])
  BY <1>1, <1>2 DEF AnswerInv, PolicyInv
<1>8. Len(calls) \in Nat /\ DOMAIN calls = 1..Len(calls)
  BY <1>7, LenProperties
<1>9. ASSUME NEW j \in 1..Len(calls)
      PROVE  calls'[j] \in [id : Nat, decided : BOOLEAN] /\ calls'[j].id = calls[j].id
  <2>1. calls[j] \in [id : Nat, decided : BOOLEAN]
    BY <1>7, ElementOfSeq
  <2>2. calls'[j] = IF j = i THEN [calls[j] EXCEPT !.decided = TRUE] ELSE calls[j]
    BY <1>6, <1>8
  <2>. QED  BY <2>1, <2>2
<1>10. calls' = [j \in 1..Len(calls) |-> calls'[j]]
  BY <1>6, <1>8
<1>11. PICK s : s = calls'
  OBVIOUS
<1>12. [j \in 1..Len(calls) |-> s[j]] \in Seq([id : Nat, decided : BOOLEAN])
  BY <1>8, <1>9, <1>11, IsASeq
<1>13. Len([j \in 1..Len(calls) |-> s[j]]) = Len(calls)
  BY <1>8
<1>14. s \in Seq([id : Nat, decided : BOOLEAN]) /\ Len(s) = Len(calls) /\ DOMAIN s = DOMAIN calls
  <2>1. s = [j \in 1..Len(calls) |-> s[j]]
    BY <1>10, <1>11
  <2>2. DOMAIN s = 1..Len(calls)
    BY <2>1
  <2>. QED  BY <1>8, <1>12, <1>13, <2>1, <2>2
<1>15. CallIds' = CallIds
  BY <1>8, <1>9, <1>11, <1>14 DEF CallIds
<1>. QED  BY <1>1, <1>2, <1>5, <1>11, <1>14, <1>15 DEF SameCalls

-----------------------------------------------------------------------------
(* What becomes of the calls in a step.                                    *)

ConversationInv == TalkInv /\ OrderInv /\ RecallInv /\ AnswerInv

\* An agent's step that adds no calls.
LEMMA AgentAnswers ==
  ASSUME ConversationInv, scenario.style = "agent", NEW u, Adds(u), Mute(u)
  PROVE  ConversationInv'
<1>1. TalkInv' /\ OrderInv' /\ RecallInv' /\ Dialog' = Dialog \o u
  BY AddsKeeps DEF ConversationInv
<1>2. Dialog \in Seq(Turn) /\ u \in Seq(Turn) /\ Mute(stored) /\ Mute(Dialog)
  BY DEF ConversationInv, TalkInv, Dialog, Adds, AnswerInv
<1>3. PICK e : e = Dialog \o u
  OBVIOUS
<1>4. Mute(e)
  BY <1>2, <1>3, MuteGrows
<1>5. stored' = stored /\ scenario' = scenario /\ Dialog' = e
  BY <1>1, <1>3 DEF Adds
<1>6. Mute(stored)' /\ Mute(Dialog)'
  BY <1>2, <1>4, <1>5 DEF Mute, Calls, Results, Of, NoText, Text
<1>. QED  BY <1>1, <1>5, <1>6 DEF ConversationInv, AnswerInv

\* An agent's step that adds nothing.
LEMMA AgentRests ==
  ASSUME ConversationInv, scenario.style = "agent", Rests \/ Loses
  PROVE  ConversationInv'
<1>1. TalkInv' /\ OrderInv' /\ RecallInv'
  BY RestsKeeps, LosesKeeps DEF ConversationInv
<1>2. Mute(stored) /\ Mute(Dialog)
  BY DEF ConversationInv, AnswerInv
<1>3. stored' \in {stored, Dialog} /\ Dialog' \in {stored, Dialog} /\ scenario' = scenario
  BY DEF Rests, Loses
<1>4. Mute(stored)' /\ Mute(Dialog)'
  BY <1>2, <1>3 DEF Mute, Calls, Results, Of, NoText, Text
<1>. QED  BY <1>1, <1>3, <1>4 DEF ConversationInv, AnswerInv

\* A client's step that adds messages.
LEMMA ClientAdds ==
  ASSUME ConversationInv, scenario.style # "agent", pc' # "save", NEW u, Adds(u), Linked(u), NEW n,
         Settled(Dialog \o u, scenario.results, n),
         IF pc' = "policy" THEN PolicyInv' /\ n = Len(calls') ELSE n = 0
  PROVE  ConversationInv'
<1>1. TalkInv' /\ OrderInv' /\ RecallInv' /\ Dialog' = Dialog \o u
  BY AddsKeeps DEF ConversationInv
<1>2. PICK e, f : e = Dialog \o u /\ f = scenario.results
  OBVIOUS
<1>3. Settled(e, f, n) /\ Dialog' = e /\ scenario' = scenario
  BY <1>1, <1>2 DEF Adds
<1>4. ASSUME NEW k, k' = n PROVE Settled(Dialog, scenario.results, k)'
  BY <1>2, <1>3, <1>4 DEF Settled, Answered, OneResult, AllIds, Ids, Calls, Results, Of, NoText,
     Text, Result, ResultsOf
<1>5. Linked(e)
  <2>1. Dialog \in Seq(Turn) /\ u \in Seq(Turn) /\ Linked(Dialog)
    BY DEF ConversationInv, TalkInv, Dialog, Adds, AnswerInv
  <2>. QED  BY <1>2, <2>1, LinkedGrows
<1>6. Linked(Dialog)'
  BY <1>3, <1>5 DEF Linked, Results, Of, NoText, Text
<1>. QED  BY <1>1, <1>3, <1>4, <1>6 DEF ConversationInv, AnswerInv

\* A client's step that adds nothing.
LEMMA ClientRests ==
  ASSUME ConversationInv, scenario.style # "agent", Rests, pc' # "save",
         SamePolicy \/ (pc = "policy" /\ pc' = "policy" /\ SameCalls)
  PROVE  ConversationInv'
<1>1. TalkInv' /\ OrderInv' /\ RecallInv' /\ Dialog' = Dialog /\ scenario' = scenario
  BY RestsKeeps DEF ConversationInv, Rests
<1>2. /\ pc # "policy" => Settled(Dialog, scenario.results, 0)
      /\ pc = "policy" => PolicyInv /\ Settled(Dialog, scenario.results, Len(calls))
  BY DEF ConversationInv, AnswerInv
<1>3. (pc' = "policy") = (pc = "policy")
  BY DEF SamePolicy
<1>4. (pc # "policy" => Settled(Dialog, scenario.results, 0)') /\ Linked(Dialog)'
  <2>1. Linked(Dialog)
    BY DEF ConversationInv, AnswerInv
  <2>. QED  BY <1>1, <1>2, <2>1 DEF Linked
<1>5. ASSUME pc = "policy" PROVE PolicyInv' /\ Settled(Dialog, scenario.results, Len(calls))'
  <2>1. /\ Dialog # << >> /\ calls \in Seq([id : Nat, decided : BOOLEAN]) /\ calls # << >>
        /\ CallIds = Ids(Calls(Last(Dialog))) /\ Settled(Dialog, scenario.results, Len(calls))
    BY <1>2, <1>5 DEF PolicyInv
  <2>2. /\ calls' \in Seq([id : Nat, decided : BOOLEAN]) /\ Len(calls') = Len(calls)
        /\ CallIds' = CallIds
    BY <2>1 DEF SamePolicy, SameCalls, CallIds
  <2>3. calls' # << >>
    <3>1. Len(calls) # 0 /\ Len(<< >>) = 0
      BY <2>1, EmptySeq
    <3>. QED  BY <2>2, <3>1
  <2>4. CallIds' = Ids(Calls(Last(Dialog)))'
    BY <1>1, <2>1, <2>2
  <2>5. PolicyInv'
    BY <1>1, <2>1, <2>2, <2>3, <2>4 DEF PolicyInv
  <2>6. Settled(Dialog, scenario.results, Len(calls))'
    BY <1>1, <2>1, <2>2 DEF Settled
  <2>. QED  BY <2>5, <2>6
<1>. QED  BY <1>1, <1>3, <1>4, <1>5 DEF ConversationInv, AnswerInv

\* One message without calls and results.
LEMMA OneMute ==
  ASSUME NEW m, Calls(m) = << >>, Results(m) = << >>
  PROVE  Mute(<<m>>)
<1>1. Len(<<m>>) = 1 /\ <<m>>[1] = m /\ \A i \in 1..1 : i = 1
  OBVIOUS
<1>. QED  BY <1>1 DEF Mute

\* Two of them.
LEMMA TwoMute ==
  ASSUME NEW m, NEW o,
         Calls(m) = << >>, Results(m) = << >>, Calls(o) = << >>, Results(o) = << >>
  PROVE  Mute(<<m, o>>)
<1>1. PICK u : u = <<m, o>>
  OBVIOUS
<1>2. Len(u) = 2 /\ u[1] = m /\ u[2] = o /\ \A i \in 1..2 : i = 1 \/ i = 2
  BY <1>1
<1>3. Mute(u)
  BY <1>2 DEF Mute
<1>. QED  BY <1>1, <1>3

\* A reply to a client leaves its own calls open and no others.
LEMMA ClientHearsKeeps ==
  ASSUME StyleInv, ConversationInv, ClientHears
  PROVE  ConversationInv'
<1>1. pc = "asking" /\ scenario.style = "client" /\ scenario.style # "agent"
  BY DEF ClientHears
<1>2. PICK m \in Turn :
           /\ Adds(<<m>>) /\ Results(m) = << >> /\ m.role = "assistant"
           /\ calls' = [i \in DOMAIN Calls(m) |-> [id |-> Calls(m)[i].id, decided |-> FALSE]]
           /\ pc' = IF Calls(m) = << >> THEN "idle" ELSE "policy"
  BY ClientHearsAdds DEF ConversationInv
<1>3. PICK c \in Seq(Block) : c = Calls(m)
  BY TurnsAreSent, CallsType
<1>4. Len(c) \in Nat /\ DOMAIN c = 1..Len(c) /\ (c = << >> <=> Len(c) = 0)
  BY EmptySeq, LenProperties
<1>5. Dialog \in Seq(Turn) /\ Settled(Dialog, scenario.results, 0)
  BY <1>1 DEF ConversationInv, TalkInv, Dialog, AnswerInv
<1>6. Settled(Dialog \o <<m>>, scenario.results, Len(c))
  BY <1>2, <1>3, <1>5, MessageSettles
<1>7. pc' # "save" /\ (pc' # "policy" => Len(c) = 0)
  BY <1>2, <1>3, <1>4
<1>8. ASSUME pc' = "policy" PROVE PolicyInv' /\ Len(c) = Len(calls')
  <2>1. c # << >> /\ Len(c) # 0
    BY <1>2, <1>3, <1>4, <1>8
  <2>2. PICK s : s = calls'
    OBVIOUS
  <2>3. s = [i \in 1..Len(c) |-> [id |-> c[i].id, decided |-> FALSE]]
    BY <1>2, <1>3, <1>4, <2>2
  <2>4. ASSUME NEW i \in 1..Len(c) PROVE [id |-> c[i].id, decided |-> FALSE] \in [id : Nat, decided : BOOLEAN]
    <3>1. c[i] \in Block
      BY ElementOfSeq
    <3>. QED  BY <3>1 DEF Block
  <2>5. [i \in 1..Len(c) |-> [id |-> c[i].id, decided |-> FALSE]] \in Seq([id : Nat, decided : BOOLEAN])
    BY <1>4, <2>4, IsASeq
  <2>6. Len([i \in 1..Len(c) |-> [id |-> c[i].id, decided |-> FALSE]]) = Len(c)
    BY <1>4
  <2>7. s \in Seq([id : Nat, decided : BOOLEAN]) /\ Len(s) = Len(c) /\ s # << >>
    <3>1. Len(<< >>) = 0
      OBVIOUS
    <3>. QED  BY <2>1, <2>3, <2>5, <2>6, <3>1
  <2>8. [j \in DOMAIN s |-> s[j].id] = Ids(c)
    BY <1>4, <2>3 DEF Ids
  <2>9. Dialog' # << >> /\ Last(Dialog') = m
    <3>1. Dialog' = Dialog \o <<m>>
      BY <1>2, AddsKeeps DEF ConversationInv
    <3>2. <<m>> # << >> /\ Last(<<m>>) = m /\ <<m>> \in Seq(Turn)
      <4>1. Len(<<m>>) = 1 /\ <<m>>[1] = m /\ <<m>> # << >>
        OBVIOUS
      <4>. QED  BY <4>1 DEF Last
    <3>3. InTurns(Dialog) /\ Follows(Dialog, <<m>>)
      BY <1>2 DEF ConversationInv, TalkInv, Adds
    <3>. QED  BY <1>5, <3>1, <3>2, <3>3, InTurnsGrows
  <2>10. CallIds' = Ids(Calls(Last(Dialog)))'
    <3>1. CallIds' = [j \in DOMAIN s |-> s[j].id]
      BY <2>2 DEF CallIds
    <3>2. Ids(Calls(Last(Dialog)))' = Ids(c)
      BY <1>3, <2>9 DEF Ids, Calls, Of, NoText, Text, Last
    <3>. QED  BY <2>8, <3>1, <3>2
  <2>. QED  BY <2>2, <2>7, <2>9, <2>10 DEF PolicyInv
<1>9. Linked(<<m>>)
  BY <1>2, OneLinked
<1>. QED  BY <1>1, <1>2, <1>6, <1>7, <1>8, <1>9, ClientAdds

\* The user speaks when nothing is open.
LEMMA ClientSaysKeeps ==
  ASSUME StyleInv, ConversationInv, ClientSays
  PROVE  ConversationInv'
<1>1. pc = "idle" /\ scenario.style # "agent" /\ pc' = "ready"
  BY DEF ClientSays
<1>2. PICK m \in Turn : Adds(<<m>>) /\ Calls(m) = << >> /\ Results(m) = << >> /\ m.role = "user"
  BY ClientSaysAdds DEF ConversationInv
<1>3. Dialog \in Seq(Turn) /\ Settled(Dialog, scenario.results, 0)
  BY <1>1 DEF ConversationInv, TalkInv, Dialog, AnswerInv
<1>4. 0 = Len(Calls(m))
  BY <1>2
<1>5. Settled(Dialog \o <<m>>, scenario.results, 0)
  BY <1>2, <1>3, <1>4, MessageSettles
<1>6. Linked(<<m>>)
  BY <1>2, OneLinked
<1>. QED  BY <1>1, <1>2, <1>5, <1>6, ClientAdds

\* A decision on a call, the last or another one.
LEMMA DecideCallKeeps ==
  ASSUME StyleInv, ConversationInv, DecideCall
  PROVE  ConversationInv'
<1>1. CASE messages' # messages \/ pc' # "policy"
  <2>1. scenario.style = "client" /\ scenario.style # "agent" /\ pc = "policy" /\ pc' = "ready"
    BY <1>1, DecideLastAdds DEF ConversationInv
  <2>2. PICK u : Adds(u) /\ ResultsOfLast(Calls(Last(Dialog)), scenario.results, u)
    BY <1>1, DecideLastAdds DEF ConversationInv
  <2>3. /\ Dialog # << >> /\ calls # << >> /\ calls \in Seq([id : Nat, decided : BOOLEAN])
        /\ CallIds = Ids(Calls(Last(Dialog)))
        /\ Settled(Dialog, scenario.results, Len(calls)) /\ Dialog \in Seq(Turn)
    BY <2>1 DEF ConversationInv, AnswerInv, PolicyInv, TalkInv, Dialog
  <2>4. Last(Dialog) \in Turn
    <3>1. Len(Dialog) \in 1..Len(Dialog)
      <4>1. Len(Dialog) \in Nat \ {0}
        BY <2>3, EmptySeq
      <4>. QED  BY <4>1
    <3>. QED  BY <2>3, <3>1, ElementOfSeq DEF Last
  <2>5. PICK c \in Seq(Block) : c = Calls(Last(Dialog))
    BY <2>4, TurnsAreSent, CallsType
  <2>6. Len(calls) = Len(c) /\ c # << >>
    <3>1. Len(Ids(c)) = Len(c)
      BY IdsType
    <3>2. CallIds = [j \in 1..Len(calls) |-> calls[j].id] /\ Len(calls) \in Nat \ {0}
      BY <2>3, EmptySeq, LenProperties DEF CallIds
    <3>3. Len(CallIds) = Len(calls) /\ Len(<< >>) = 0
      BY <3>2
    <3>. QED  BY <2>3, <2>5, <3>1, <3>2, <3>3
  <2>7. Settled(Dialog \o u, scenario.results, 0)
    BY <2>2, <2>3, <2>5, <2>6, ResultsSettle
  <2>8. Linked(u)
    BY <2>2 DEF ResultsOfLast
  <2>. QED  BY <2>1, <2>2, <2>7, <2>8, ClientAdds
<1>2. CASE messages' = messages /\ pc' = "policy"
  <2>1. Rests /\ scenario.style = "client" /\ pc = "policy" /\ SameCalls
    BY <1>2, DecideRests DEF ConversationInv
  <2>2. scenario.style # "agent" /\ pc' # "save"
    BY <1>2, <2>1
  <2>. QED  BY <1>2, <2>1, <2>2, ClientRests
<1>. QED  BY <1>1, <1>2

\* Every step keeps the four parts together.
LEMMA NextTalk ==
  ASSUME StyleInv, ConversationInv, [Next]_vars
  PROVE  ConversationInv'
<1>0. StyleIs /\ TalkInv /\ OrderInv
  BY ScenarioIs DEF ConversationInv
<1>1. CASE Add \/ Consult \/ Over \/ UNCHANGED vars
  <2>1. Rests /\ SamePolicy /\ pc' = pc
    <3>1. pc' = pc
      BY <1>1 DEF Add, Consult, Over, vars
    <3>. QED  BY <1>0, <1>1, <3>1, AddRests
  <2>2. scenario.style # "agent" => pc' # "save"
    BY <2>1 DEF ConversationInv, AnswerInv
  <2>. QED  BY <2>1, <2>2, AgentRests, ClientRests
<1>2. CASE RunAgent
  BY <1>0, <1>2, RunAgentRests, AgentRests
<1>3. CASE InputBlocked
  BY <1>0, <1>3, InputBlockedRests, AgentRests
<1>4. CASE InputPasses
  <2>1. scenario.style = "agent"
    BY <1>4 DEF InputPasses, StyleInv
  <2>2. PICK m : m = User(<<Text(fresh)>>)
    OBVIOUS
  <2>3. Adds(<<m>>) /\ m \in Turn
    BY <1>0, <1>4, <2>2, InputPassesAdds
  <2>4. Calls(m) = << >> /\ Results(m) = << >>
    BY <2>2, <2>3, TurnHas DEF User
  <2>. QED  BY <2>1, <2>3, <2>4, OneMute, AgentAnswers
<1>5. CASE AgentAnswer
  <2>1. scenario.style = "agent"
    BY <1>5 DEF AgentAnswer
  <2>2. PICK m \in Turn : Adds(<<m>>) /\ Calls(m) = << >> /\ Results(m) = << >>
    BY <1>0, <1>5, AgentAnswerAdds
  <2>. QED  BY <2>1, <2>2, OneMute, AgentAnswers
<1>6. CASE AgentAction
  <2>1. scenario.style = "agent"
    BY <1>6 DEF AgentAction
  <2>2. PICK m, o \in Turn :
           /\ Adds(<<m, o>>)
           /\ Calls(m) = << >> /\ Results(m) = << >> /\ Calls(o) = << >> /\ Results(o) = << >>
    BY <1>0, <1>6, AgentActionAdds
  <2>. QED  BY <2>1, <2>2, TwoMute, AgentAnswers
<1>7. CASE Save
  <2>1. scenario.style = "agent"
    BY <1>7 DEF Save, ConversationInv, AnswerInv
  <2>. QED  BY <1>0, <1>7, <2>1, SaveRests, AgentRests
<1>8. CASE Complete
  <2>1. Rests /\ SamePolicy /\ pc' # "save"
    <3>1. pc' = "asking"
      BY <1>8 DEF Complete
    <3>. QED  BY <1>0, <1>8, <3>1, CompleteRests
  <2>. QED  BY <2>1, AgentRests, ClientRests
<1>9. CASE Raise
  <2>1. IF scenario.style = "agent" THEN Loses ELSE Rests /\ SamePolicy
    BY <1>0, <1>9, RaiseLoses
  <2>2. pc' # "save"
    BY <1>9 DEF Raise
  <2>. QED  BY <2>1, <2>2, AgentRests, ClientRests
<1>10. CASE ClientSays
  BY <1>10, ClientSaysKeeps
<1>11. CASE ClientHears
  BY <1>11, ClientHearsKeeps
<1>12. CASE DecideCall
  BY <1>12, DecideCallKeeps
<1>. QED
  BY <1>1, <1>2, <1>3, <1>4, <1>5, <1>6, <1>7, <1>8, <1>9, <1>10, <1>11, <1>12 DEF Next

\* A conversation begins with the system message.
LEMMA InitTalk == ASSUME Init PROVE ConversationInv
<1>1. /\ pc = "idle" /\ turn = 0 /\ fresh = 1 /\ stored = << >> /\ messages = <<SystemMessage>>
      /\ replies = << >> /\ scenario \in Scenarios
  BY DEF Init
<1>2. Prompt(<< >>) = messages /\ Tail(messages) = << >> /\ << >> \in Seq(Turn)
  <2>1. << >> \in Seq(Turn) /\ <<SystemMessage>> \in Seq(Sent)
    BY EmptySeq, SystemText
  <2>2. <<SystemMessage>> \o << >> = <<SystemMessage>>
    BY <2>1, ConcatEmptySeq
  <2>3. Prompt(<< >>) = messages
    BY <1>1, <2>2 DEF Prompt
  <2>. QED  BY <2>1, <2>3, PromptTail
<1>3. Dialog = << >>
  BY <1>1, <1>2 DEF Dialog
<1>4. TalkInv
  <2>1. InTurns(<< >>)
    <3>1. Len(<< >>) = 0 /\ \A i \in 1..(0 - 1) : FALSE
      OBVIOUS
    <3>. QED  BY <3>1 DEF InTurns
  <2>2. << >> \o << >> = << >>
    BY <1>2, ConcatEmptySeq
  <2>. QED  BY <1>1, <1>2, <1>3, <2>1, <2>2 DEF TalkInv
<1>5. OrderInv
  <2>1. Given = 1
    BY <1>1 DEF Given
  <2>2. AllIds(<< >>, Speech) = << >>
    <3>1. Speech \in SUBSET Types /\ SystemMessage \in Sent
      BY SystemText DEF Speech, Types
    <3>. QED  BY <3>1, AllIdsOne
  <2>3. Numbers(<< >>, 1, 1)
    <3>1. 1 \in Nat
      OBVIOUS
    <3>. QED  BY <3>1, NumbersFew
  <2>. QED  BY <1>1, <1>3, <2>1, <2>2, <2>3 DEF OrderInv, Numbered
<1>6. RecallInv
  BY <1>1, EmptySeq DEF RecallInv
<1>7. AnswerInv
  <2>1. Mute(<< >>)
    <3>1. Len(<< >>) = 0 /\ \A i \in 1..0 : FALSE
      OBVIOUS
    <3>. QED  BY <3>1 DEF Mute
  <2>2. Settled(<< >>, scenario.results, 0)
    BY <1>2, <2>1, MuteIsSettled
  <2>3. Linked(<< >>)
    <3>1. Len(<< >>) = 0 /\ \A i \in 1..0 : FALSE
      OBVIOUS
    <3>. QED  BY <3>1 DEF Linked
  <2>. QED  BY <1>1, <1>3, <2>1, <2>2, <2>3 DEF AnswerInv
<1>. QED  BY <1>4, <1>5, <1>6, <1>7 DEF ConversationInv

-----------------------------------------------------------------------------
(* What a provider is asked.                                               *)

\* What a request is made of.
LEMMA Asked ==
  ASSUME StyleInv, ConversationInv, pc = "asking"
  PROVE  /\ Dialog \in Seq(Turn) /\ Dialog # << >> /\ InTurns(Dialog)
         /\ messages = Prompt(Dialog) /\ request = Request(Backend, Prompt(Dialog))
         /\ Backend \in {"openai", "anthropic", "gemini"}
<1>1. messages = Prompt(Dialog) /\ Dialog \in Seq(Turn)
  BY OpenTurn DEF ConversationInv
<1>2. Dialog # << >> /\ InTurns(Dialog) /\ request = Request(Backend, messages)
  BY DEF ConversationInv, TalkInv
<1>3. Backend \in Provider
  BY BackendType DEF StyleInv
<1>. QED  BY <1>1, <1>2, <1>3 DEF Provider

\* A request's numbers, whoever is asked.
LEMMA AllIsHeard ==
  ASSUME NEW d \in Seq(Turn), d # << >>, InTurns(d),
         NEW p \in {"openai", "anthropic", "gemini"}, NEW r, r = Request(p, Prompt(d))
  PROVE  r.to = p /\ HeardBy(r) = AllIds(Prompt(d), Speech)
<1>1. CASE p = "openai"     BY <1>1, AskOpenAI
<1>2. CASE p = "anthropic"  BY <1>2, AskAnthropic
<1>3. CASE p = "gemini"     BY <1>3, AskGemini
<1>. QED  BY <1>1, <1>2, <1>3

\* The first two parts imply that the conversation arrives,
LEMMA ArrivesInOrder ==
  ASSUME StyleInv, ConversationInv
  PROVE  ConversationArrives
<1>. SUFFICES ASSUME pc = "asking" PROVE ConversationArrives
  BY DEF ConversationArrives
<1>1. PICK d \in Seq(Turn) : d = Dialog
  BY Asked
<1>2. PICK p, r : p \in {"openai", "anthropic", "gemini"} /\ p = Backend /\ r = request
  BY Asked
<1>3. d # << >> /\ InTurns(d) /\ messages = Prompt(d) /\ r = Request(p, Prompt(d))
  BY <1>1, <1>2, Asked
<1>4. r.to = p /\ HeardBy(r) = AllIds(Prompt(d), Speech)
  BY <1>2, <1>3, AllIsHeard
<1>5. AllOf(messages, Contents) = AllIds(Prompt(d), Speech)
  BY <1>3, PromptHas, AllOfIs
<1>6. PICK w : w = AllIds(Prompt(d), Speech)
  OBVIOUS
<1>7. w \in Seq(Nat) /\ \A i, j \in DOMAIN w : i < j => w[i] < w[j]
  <2>1. Numbers(AllIds(d, Speech), 1, Given) /\ Given \in Nat /\ 1 <= Given
    <3>1. Given \in Nat /\ Given >= 1
      BY DEF ConversationInv, OrderInv
    <3>. QED  BY <1>1, <3>1 DEF ConversationInv, OrderInv, Numbered
  <2>2. AllIds(d, Speech) \in Seq(Nat) /\ w = <<1>> \o AllIds(d, Speech)
    <3>1. Speech \in SUBSET Types /\ d \in Seq(Sent)
      BY PromptHas DEF Speech, Types
    <3>. QED  BY <1>6, <3>1, AllIdsAre, PromptIds
  <2>3. PICK one \in Seq(Nat) : one = <<1>>
    <3>1. <<1>> \in Seq(Nat)
      OBVIOUS
    <3>. QED  BY <3>1
  <2>4. Numbers(one, 0, 1)
    <3>1. 0 \in Nat /\ 1 \in Nat /\ 0 + 1 <= 1 /\ 0 + 1 = 1
      OBVIOUS
    <3>2. Numbers(<<0 + 1>>, 0, 1)
      BY <3>1, NumbersFew
    <3>. QED  BY <2>3, <3>1, <3>2
  <2>5. Numbers(w, 0, Given)
    <3>1. 0 \in Nat /\ 1 \in Nat /\ 0 <= 1
      OBVIOUS
    <3>. QED  BY <2>1, <2>2, <2>3, <2>4, <3>1, NumbersConcat
  <2>6. w \in Seq(Nat) /\ DOMAIN w = 1..Len(w)
    BY <2>2, <2>3, ConcatProperties, LenProperties
  <2>. QED  BY <2>5, <2>6 DEF Numbers, Rising
<1>8. p = "gemini" =>
        /\ r.contents[1].role = "user"
        /\ \A i \in 1..(Len(r.contents) - 1) : r.contents[i].role # r.contents[i + 1].role
  BY <1>3, AskGemini DEF Alternates
<1>9. HeardBy(r) = w /\ AllOf(messages, Contents) = w
  BY <1>4, <1>5, <1>6
<1>. QED  BY <1>2, <1>4, <1>7, <1>8, <1>9 DEF ConversationArrives, HeardBy

\* A request is settled when the conversation is.
LEMMA SettledRequest ==
  ASSUME NEW c \in Seq(Sent), NEW form, AllAnswered(c, form),
         Len(AllIds(c, {"tool_call"})) = Len(AllIds(c, {"tool_result"}))
  PROVE  /\ \A i \in DOMAIN c : Calls(c[i]) # << >> =>
              AllOf(IF form = "each" THEN SubSeq(c, i + 1, i + Len(Calls(c[i])))
                                     ELSE SubSeq(c, i + 1, i + 1), Results) = Ids(Calls(c[i]))
         /\ Len(AllOf(c, Results)) = Len(AllOf(c, Calls))
<1>1. ASSUME NEW i \in DOMAIN c, Calls(c[i]) # << >>
      PROVE  AllOf(IF form = "each" THEN SubSeq(c, i + 1, i + Len(Calls(c[i])))
                                    ELSE SubSeq(c, i + 1, i + 1), Results) = Ids(Calls(c[i]))
  <2>1. i \in 1..Len(c)
    BY LenProperties
  <2>2. Answered(c, i, form)
    BY <1>1, <2>1 DEF AllAnswered
  <2>. QED  BY <1>1, <2>1, <2>2, AnswerIds
<1>2. Len(AllOf(c, Results)) = Len(AllOf(c, Calls))
  BY AllOfIs
<1>. QED  BY <1>1, <1>2

\* Anthropic has no messages of role tool;
LEMMA NoToolsAnthropic ==
  ASSUME NEW d \in Seq(Turn), NEW r, r = Request("anthropic", Prompt(d))
  PROVE  \A i \in DOMAIN r.contents : r.contents[i].role # "tool"
<1>1. r.contents = [i \in DOMAIN d |-> MessageToAnthropic(d[i])]
  <2>1. Spoken(Prompt(d)) = d
    BY PromptParts
  <2>. QED  BY <2>1 DEF Request
<1>2. ASSUME NEW i \in DOMAIN d PROVE MessageToAnthropic(d[i]).role # "tool"
  <2>1. \E b : MessageToAnthropic(d[i]) \in {Wire("user", b), Wire("assistant", b)}
    BY DEF MessageToAnthropic
  <2>. QED  BY <2>1 DEF Wire
<1>. QED  BY <1>1, <1>2

\* OpenAI's are results if they were.
LEMMA ToolsOpenAI ==
  ASSUME NEW d \in Seq(Turn), Linked(d), OneResult(d), NEW r, r = Request("openai", Prompt(d))
  PROVE  \A i \in DOMAIN r.contents : r.contents[i].role = "tool" => Results(r.contents[i]) # << >>
<1>1. PICK m \in Seq(Turn \cup SystemTurn) : m = Prompt(d)
  BY PromptHas
<1>2. r.contents = [i \in DOMAIN m |-> MessageToOpenAI(m[i])] /\ DOMAIN m = 1..Len(m)
  BY <1>1, LenProperties DEF Request
<1>3. ASSUME NEW i \in 1..Len(m), MessageToOpenAI(m[i]).role = "tool"
      PROVE  Results(MessageToOpenAI(m[i])) # << >>
  <2>1. m[i] \in Turn \cup SystemTurn
    BY ElementOfSeq
  <2>2. /\ MessageToOpenAI(m[i]).role = m[i].role
        /\ Len(Results(m[i])) <= 1 => Results(MessageToOpenAI(m[i])) = Results(m[i])
    BY <2>1, ToOpenAI
  <2>3. i # 1
    BY <1>1, <1>3, <2>2, PromptHas DEF SystemMessage
  <2>4. PICK j : j = i - 1
    OBVIOUS
  <2>5. j \in 1..Len(d) /\ i = j + 1
    BY <1>1, <2>3, <2>4, PromptHas
  <2>6. m[i] = d[j]
    BY <1>1, <2>5, PromptHas
  <2>. QED  BY <1>3, <2>2, <2>5, <2>6 DEF Linked, OneResult
<1>. QED  BY <1>2, <1>3

\* the last that calls are answered,
LEMMA CallsGetAnswers ==
  ASSUME StyleInv, ConversationInv
  PROVE  CallsAreAnswered
<1>. SUFFICES ASSUME pc = "asking" PROVE CallsAreAnswered
  BY DEF CallsAreAnswered
<1>1. PICK d \in Seq(Turn) : d = Dialog
  BY Asked
<1>2. PICK p, r, form :
        p \in {"openai", "anthropic", "gemini"} /\ p = Backend /\ r = request /\ form = scenario.results
  BY Asked
<1>3. d # << >> /\ InTurns(d) /\ r = Request(p, Prompt(d))
  BY <1>1, <1>2, Asked
<1>4. r.to = p
  BY <1>2, <1>3, AllIsHeard
<1>5. Settled(d, form, 0) /\ form \in {"each", "together"}
  <2>1. CASE scenario.style = "agent"
    <3>1. Mute(d)
      BY <1>1, <2>1 DEF ConversationInv, AnswerInv
    <3>. QED  BY <1>2, <3>1, MuteIsSettled, ScenarioIs DEF StyleIs
  <2>2. CASE scenario.style # "agent"
    BY <1>1, <1>2, <2>2, ScenarioIs DEF ConversationInv, AnswerInv, StyleIs
  <2>. QED  BY <2>1, <2>2
<1>6. /\ AllAnswered(d, form)
      /\ form = "each" => OneResult(d)
      /\ Len(AllIds(d, {"tool_call"})) = Len(AllIds(d, {"tool_result"}))
  <2>1. AllIds(d, {"tool_result"}) \in Seq(Nat)
    <3>1. {"tool_result"} \in SUBSET Types /\ d \in Seq(Sent)
      BY PromptHas DEF Types
    <3>. QED  BY <3>1, AllIdsAre
  <2>2. Len(AllIds(d, {"tool_result"})) + 0 = Len(AllIds(d, {"tool_result"}))
    BY <2>1, LenProperties
  <2>. QED  BY <1>5, <2>2 DEF Settled, AllAnswered
<1>7. PICK c : c = r.contents
  OBVIOUS
<1>8. ASSUME p = "anthropic" \/ (p = "openai" /\ form = "each")
      PROVE  /\ c \in Seq(Sent) /\ AllAnswered(c, form)
             /\ Len(AllIds(c, {"tool_call"})) = Len(AllIds(c, {"tool_result"}))
  <2>1. CASE p = "anthropic"
    <3>1. SaysTheSame(c, d) /\ SameResults(c, d) /\ d \in Seq(Sent)
      BY <1>3, <1>7, <2>1, AskAnthropic, PromptHas
    <3>2. /\ AllAnswered(c, form)
          /\ AllIds(c, {"tool_call"}) = AllIds(d, {"tool_call"})
          /\ AllIds(c, {"tool_result"}) = AllIds(d, {"tool_result"})
      BY <1>6, <3>1, AnsweredSame
    <3>. QED  BY <1>6, <3>1, <3>2 DEF SaysTheSame
  <2>2. CASE p = "openai" /\ form = "each"
    <3>1. PICK m \in Seq(Sent) : m = Prompt(d)
      BY PromptHas
    <3>2. OneResult(m)
      <4>1. ASSUME NEW i \in 1..Len(m) PROVE Len(Results(m[i])) <= 1
        <5>1. CASE i = 1
          <6>1. Len(<< >>) <= 1
            OBVIOUS
          <6>. QED  BY <3>1, <5>1, <6>1, PromptHas, SystemText
        <5>2. CASE i # 1
          <6>1. PICK j : j = i - 1
            OBVIOUS
          <6>2. j \in 1..Len(d) /\ i = j + 1
            BY <3>1, <5>2, <6>1, PromptHas
          <6>3. m[i] = d[j]
            BY <3>1, <6>2, PromptHas
          <6>. QED  BY <1>6, <2>2, <6>2, <6>3 DEF OneResult
        <5>. QED  BY <5>1, <5>2
      <4>. QED  BY <4>1 DEF OneResult
    <3>3. SaysTheSame(c, m) /\ SameResults(c, m)
      BY <1>3, <1>7, <2>2, <3>1, <3>2, AskOpenAI
    <3>4. AllAnswered(m, form)
      BY <1>6, <3>1, AnsweredInPrompt
    <3>5. /\ AllAnswered(c, form)
          /\ AllIds(c, {"tool_call"}) = AllIds(m, {"tool_call"})
          /\ AllIds(c, {"tool_result"}) = AllIds(m, {"tool_result"})
      BY <3>3, <3>4, AnsweredSame
    <3>6. /\ AllIds(m, {"tool_call"}) = AllIds(d, {"tool_call"})
          /\ AllIds(m, {"tool_result"}) = AllIds(d, {"tool_result"})
      BY <3>1, PromptIds
    <3>. QED  BY <1>6, <3>3, <3>5, <3>6 DEF SaysTheSame
  <2>. QED  BY <1>8, <2>1, <2>2
<1>9. ASSUME ~(r.to = "gemini"), ~(r.to = "openai" /\ form = "together")
      PROVE  /\ \A i \in DOMAIN c : Calls(c[i]) # << >> =>
                  AllOf(IF form = "each" THEN SubSeq(c, i + 1, i + Len(Calls(c[i])))
                                         ELSE SubSeq(c, i + 1, i + 1), Results) = Ids(Calls(c[i]))
             /\ Len(AllOf(c, Results)) = Len(AllOf(c, Calls))
             /\ scenario.style = "client" =>
                  \A i \in DOMAIN c : c[i].role = "tool" => Results(c[i]) # << >>
  <2>1. p = "anthropic" \/ (p = "openai" /\ form = "each")
    BY <1>2, <1>4, <1>5, <1>9
  <2>2. ASSUME scenario.style = "client"
        PROVE  \A i \in DOMAIN c : c[i].role = "tool" => Results(c[i]) # << >>
    <3>1. Linked(d)
      BY <1>1, <2>2 DEF ConversationInv, AnswerInv
    <3>2. CASE p = "anthropic"
      BY <1>3, <1>7, <3>2, NoToolsAnthropic
    <3>3. CASE p = "openai" /\ form = "each"
      BY <1>3, <1>6, <1>7, <3>1, <3>3, ToolsOpenAI
    <3>. QED  BY <2>1, <3>2, <3>3
  <2>. QED  BY <1>8, <2>1, <2>2, SettledRequest
<1>. QED  BY <1>2, <1>7, <1>9 DEF CallsAreAnswered

\* and the third that replies come back.
LEMMA AllComesBack ==
  ASSUME StyleInv, ConversationInv
  PROVE  RepliesComeBack
<1>. SUFFICES ASSUME pc = "asking", NEW k \in DOMAIN replies
     PROVE  \E i \in DOMAIN request.contents :
              LET said == Assistant(replies[k].content)  m == request.contents[i] IN
              /\ m.role \in {"assistant", "model"}
              /\ Texts(m) = Texts(said)
              /\ request.to # "gemini" => Calls(m) = Calls(said)
  BY DEF RepliesComeBack
<1>1. PICK d \in Seq(Turn) : d = Dialog
  BY Asked
<1>2. PICK p, r : p \in {"openai", "anthropic", "gemini"} /\ p = Backend /\ r = request
  BY Asked
<1>3. d # << >> /\ InTurns(d) /\ r = Request(p, Prompt(d))
  BY <1>1, <1>2, Asked
<1>4. PICK said : said = Assistant(replies[k].content)
  OBVIOUS
<1>5. PICK i \in 1..Len(d) :
        d[i].role = "assistant" /\ Texts(d[i]) = Texts(said) /\ Calls(d[i]) = Calls(said)
  <2>1. replies \in Seq(Kept(d, Earlier, turn)) /\ k \in 1..Len(replies)
    BY <1>1, LenProperties DEF ConversationInv, RecallInv
  <2>2. replies[k] \in Kept(d, Earlier, turn)
    BY <2>1, ElementOfSeq
  <2>. QED  BY <1>4, <2>2 DEF Kept, Recalled
<1>6. PICK c : c = r.contents
  OBVIOUS
<1>7. CASE p = "gemini"
  <2>1. /\ r.to = "gemini" /\ c \in Seq(Part)
        /\ \A j \in 1..Len(d) : d[j].role = "assistant" =>
              \E l \in 1..Len(c) : c[l].role = "model" /\ Texts(c[l]) = Texts(d[j])
    BY <1>3, <1>6, <1>7, AskGemini
  <2>2. PICK l \in 1..Len(c) : c[l].role = "model" /\ Texts(c[l]) = Texts(said)
    BY <1>5, <2>1
  <2>3. l \in DOMAIN c
    BY <2>1, <2>2, LenProperties
  <2>. QED  BY <1>2, <1>4, <1>6, <2>1, <2>2, <2>3
<1>8. CASE p = "anthropic"
  <2>1. SaysTheSame(c, d)
    BY <1>3, <1>6, <1>8, AskAnthropic
  <2>2. c[i].role = "assistant" /\ Texts(c[i]) = Texts(said) /\ Calls(c[i]) = Calls(said)
    BY <1>5, <2>1 DEF SaysTheSame
  <2>3. i \in DOMAIN c
    BY <2>1, LenProperties DEF SaysTheSame
  <2>. QED  BY <1>2, <1>4, <1>6, <2>2, <2>3
<1>9. CASE p = "openai"
  <2>1. PICK m : m = Prompt(d)
    OBVIOUS
  <2>2. SaysTheSame(c, m) /\ Len(m) = Len(d) + 1 /\ m[i + 1] = d[i] /\ Len(d) \in Nat
    BY <1>3, <1>6, <1>9, <2>1, AskOpenAI, PromptHas
  <2>3. i + 1 \in 1..Len(m)
    BY <2>2
  <2>4. c[i + 1].role = "assistant" /\ Texts(c[i + 1]) = Texts(said) /\ Calls(c[i + 1]) = Calls(said)
    BY <1>5, <2>2, <2>3 DEF SaysTheSame
  <2>5. i + 1 \in DOMAIN c
    BY <2>2, <2>3, LenProperties DEF SaysTheSame
  <2>. QED  BY <1>2, <1>4, <1>6, <2>4, <2>5
<1>. QED  BY <1>2, <1>7, <1>8, <1>9

-----------------------------------------------------------------------------
CallInv == StyleInv /\ ConversationInv

\* The inductive invariant of all three.
LEMMA CallInvHolds == Spec => []CallInv
<1>1. Init => CallInv
  BY InitAsked, InitTalk DEF AskedInv, CallInv
<1>2. CallInv /\ [Next]_vars => CallInv'
  BY NextStyle, NextTalk DEF CallInv
<1>. QED  BY <1>1, <1>2, PTL DEF Spec

\* Every request has the texts and images of the system prompt, of the stored
\* turns and of the open one, once each and in order; Gemini gets them with a
\* user's content first and roles that alternate.
THEOREM WhatIsSentIsTheConversation == Spec => []ConversationArrives
<1>1. CallInv => ConversationArrives
  BY ArrivesInOrder DEF CallInv
<1>. QED  BY <1>1, CallInvHolds, PTL

\* In every request, each tool_call block is answered at once by the tool_result
\* block with its number, there are no other such blocks, and no message of role
\* tool in a client's request is without one (OpenAI's results put together
\* excepted).  It is about calls made through a provider's interface; of what
\* SuluvAgent's tools return, which it sends as texts, it says only that these are
\* no tool_result blocks.
THEOREM NoCallIsLeftOpen == Spec => []CallsAreAnswered
<1>1. CallInv => CallsAreAnswered
  BY CallsGetAnswers DEF CallInv
<1>. QED  BY <1>1, CallInvHolds, PTL

\* Every reply that was not lost to an exception is in every later request, as one
\* message with its texts and calls.
THEOREM ModelsAreReminded == Spec => []RepliesComeBack
<1>1. CallInv => RepliesComeBack
  BY AllComesBack DEF CallInv
<1>. QED  BY <1>1, CallInvHolds, PTL
=============================================================================
