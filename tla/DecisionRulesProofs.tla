-------------------------- MODULE DecisionRulesProofs --------------------------
(***************************************************************************)
(* What holds of DecisionRules for every set of tables and inputs, numbers *)
(* and strings, truth values and None: a decision that is given is the one *)
(* the hit policy names, unless a condition is of the kind that the parser *)
(* misreads.                                                               *)
(***************************************************************************)
EXTENDS DecisionRules, WellFoundedInduction, TLAPS

-----------------------------------------------------------------------------
(* Least elements, and the rules that an evaluation has seen.              *)

LEMMA LeastIsLeast ==
  ASSUME NEW S \in SUBSET Nat, S # {}
  PROVE  Least(S) \in S /\ \A j \in S : Least(S) <= j
<1>. DEFINE below == {ss \in Nat \X Nat : ss[1] < ss[2]}
<1>1. PICK x \in S : \A y \in S : <<y, x>> \notin OpToRel(<, Nat)
  BY NatLessThanWellFounded, WFMin, Zenon
<1>2. OpToRel(<, Nat) = below
  BY DEF OpToRel
<1>3. \A y \in S : x <= y
  <2>. SUFFICES ASSUME NEW y \in S, y < x PROVE FALSE
    OBVIOUS
  <2>1. <<y, x>> \in Nat \X Nat /\ <<y, x>>[1] < <<y, x>>[2]
    OBVIOUS
  <2>2. <<y, x>> \in below
    BY <2>1, Zenon
  <2>. QED  BY <1>1, <1>2, <2>2, Zenon
<1>. QED  BY <1>3 DEF Least

LEMMA LeastIsUnique ==
  ASSUME NEW S \in SUBSET Nat, NEW x \in S, \A j \in S : x <= j
  PROVE  Least(S) = x
<1>1. Least(S) \in S /\ \A j \in S : Least(S) <= j
  BY LeastIsLeast
<1>2. Least(S) \in Nat /\ x \in Nat /\ Least(S) <= x /\ x <= Least(S)
  BY <1>1
<1>. HIDE DEF Least
<1>. QED  BY <1>2

\* Only '>=' and '<=' are taken for a shorter operator.
LEMMA TakenOps ==
  /\ \A op \in {">", "<", "==", "!="} : TakenOp(op) = op
  /\ TakenOp(">=") = ">" /\ TakenOp("<=") = "<"
<1>. DEFINE found(op) == {i \in DOMAIN OpOrder : StartsWith(op, OpOrder[i])}
            first(op) == CHOOSE i \in found(op) : \A j \in found(op) : i <= j
<1>1. /\ DOMAIN OpOrder = 1..6
      /\ OpOrder[1] = ">" /\ OpOrder[2] = ">=" /\ OpOrder[3] = "<" /\ OpOrder[4] = "<="
      /\ OpOrder[5] = "==" /\ OpOrder[6] = "!="
  BY DEF OpOrder
<1>2. \A i : i \in 1..6 <=> i \in {1, 2, 3, 4, 5, 6}
  OBVIOUS
<1>3. /\ found(">") = {1} /\ found(">=") = {1, 2} /\ found("<") = {3} /\ found("<=") = {3, 4}
      /\ found("==") = {5} /\ found("!=") = {6}
  BY <1>1, <1>2 DEF StartsWith
<1>4. \A op : found(op) # {} => TakenOp(op) = OpOrder[first(op)]
  BY DEF TakenOp
<1>. HIDE DEF found
<1>5. \A n \in Nat : (CHOOSE i \in {n} : \A j \in {n} : i <= j) = n
  OBVIOUS
<1>6. \A n \in Nat : (CHOOSE i \in {n, n + 1} : \A j \in {n, n + 1} : i <= j) = n
  <2>. SUFFICES ASSUME NEW n \in Nat
                PROVE  (CHOOSE i \in {n, n + 1} : \A j \in {n, n + 1} : i <= j) = n
    OBVIOUS
  <2>1. \A i \in {n, n + 1} : (\A j \in {n, n + 1} : i <= j) <=> i = n
    OBVIOUS
  <2>. QED  BY <2>1
<1>7. /\ first(">") = 1 /\ first(">=") = 1 /\ first("<") = 3 /\ first("<=") = 3
      /\ first("==") = 5 /\ first("!=") = 6
  <2>1. {1, 2} = {1, 1 + 1} /\ {3, 4} = {3, 3 + 1}
    OBVIOUS
  <2>. QED  BY <1>3, <1>5, <1>6, <2>1
<1>. QED  BY <1>1, <1>3, <1>4, <1>7

\* What the parser says of a condition that is read as it is written.
LEMMA ConditionIsSound ==
  ASSUME NEW v \in Values, NEW c, c.op \in Operators, c.bound \in Bounds, ~Misread(c, v)
  PROVE  /\ ParseCondition(c, v) = "yes" => Meets(v, c)
         /\ ParseCondition(c, v) = "no" => ~Meets(v, c)
<1>1. CASE c.op \in {"is", "object"}
  BY <1>1 DEF ParseCondition, Meets
<1>2. CASE c.op \in {">=", "<="}
  <2>1. TakenOp(c.op) # c.op /\ Threshold(c) = Equals[c.bound]
    BY <1>2, TakenOps DEF Threshold
  <2>2. v.type \in {"int", "float", "none"}
    <3>1. v.type \in {"int", "float", "bool", "str", "none"}
      BY RulesAssumption
    <3>. QED  BY <1>2, <3>1 DEF Misread
  <2>3. Equals[c.bound] \notin DOMAIN Numbers /\ Equals[c.bound] \notin Integral
    BY RulesAssumption DEF TextAssumption
  <2>4. ~Converts(v.type, Threshold(c))
    BY <2>1, <2>2, <2>3 DEF Converts
  <2>. QED  BY <1>2, <2>4 DEF ParseCondition
<1>3. CASE c.op \in {">", "<", "==", "!="}
  <2>1. TakenOp(c.op) = c.op /\ Threshold(c) = c.bound
    BY <1>3, TakenOps DEF Threshold
  <2>2. CASE ~Converts(v.type, c.bound)
    BY <1>3, <2>1, <2>2 DEF ParseCondition
  <2>3. CASE Converts(v.type, c.bound)
    <3>1. Readable(v, c.bound)
      BY <2>3, RulesAssumption DEF Converts, Readable, TextAssumption
    <3>2. Converted(v.type, c.bound) = Written(v, c.bound)
      <4>1. v.type = "bool" => c.bound = TrueText /\ TrueText # Empty
        BY <1>3, RulesAssumption DEF Misread, TextAssumption
      <4>. QED  BY <4>1 DEF Converted, Written
    <3>. QED  BY <1>3, <2>1, <3>1, <3>2 DEF ParseCondition, Meets
  <2>. QED  BY <2>2, <2>3
<1>. QED  BY <1>1, <1>2, <1>3 DEF Operators

\* "yes" and "no" of MeetsWhen mean what they say; "raises" says nothing.
LEMMA WhenIsSound ==
  ASSUME NEW r \in Rules, NEW x \in Inputs, LegibleRule(r, x)
  PROVE  /\ MeetsWhen(r, x) = "yes" => Fits(r, x)
         /\ MeetsWhen(r, x) = "no" => ~Fits(r, x)
<1>. DEFINE says(j) == IF r.when[j].field \in DOMAIN x
                         THEN ParseCondition(r.when[j], x[r.when[j].field])
                         ELSE "no"
            stops == {j \in DOMAIN r.when : says(j) # "yes"}
            first == CHOOSE j \in stops : \A i \in stops : j <= i
<1>1. MeetsWhen(r, x) = IF stops = {} THEN "yes" ELSE says(first)
  BY DEF MeetsWhen
<1>2. ASSUME NEW j \in DOMAIN r.when
      PROVE  /\ says(j) = "yes" => Holds(r.when[j], x)
             /\ says(j) = "no" => ~Holds(r.when[j], x)
  <2>1. CASE r.when[j].field \notin DOMAIN x
    BY <2>1 DEF Holds
  <2>2. CASE r.when[j].field \in DOMAIN x
    <3>1. PICK c, v : c = r.when[j] /\ v = x[r.when[j].field]
      OBVIOUS
    <3>2. v \in Values /\ ~Misread(c, v)
      BY <2>2, <3>1, RulesAssumption DEF LegibleRule
    <3>3. c \in Conditions
      BY <3>1 DEF Rules
    <3>4. c.op \in Operators /\ c.bound \in Bounds
      BY <3>3 DEF Conditions
    <3>5. (ParseCondition(c, v) = "yes" => Meets(v, c)) /\ (ParseCondition(c, v) = "no" => ~Meets(v, c))
      BY <3>2, <3>4, ConditionIsSound
    <3>. QED  BY <2>2, <3>1, <3>5 DEF Holds
  <2>. QED  BY <2>1, <2>2
<1>3. stops # {} => first \in stops
  <2>1. stops \in SUBSET Nat
    BY DEF Rules
  <2>2. first = Least(stops) \/ stops = {}
    BY DEF Least
  <2>. HIDE DEF stops, first
  <2>. QED  BY <2>1, <2>2, LeastIsLeast
<1>. HIDE DEF says, first
<1>. QED  BY <1>1, <1>2, <1>3 DEF Fits

-----------------------------------------------------------------------------
(* Types.                                                                  *)

LEMMA TableKind ==
  ASSUME table \in Tables
  PROVE  /\ table.table_type = "decision" => table \in DecisionTables
         /\ table.table_type = "scoring" => table \in ScoringMatrices
         /\ table.table_type \in {"decision", "scoring"}
  BY RulesAssumption DEF DecisionTables, ScoringMatrices

\* What the loop is working on.
KindInv ==
  /\ pc = "decision" => table \in DecisionTables
  /\ pc = "scoring" => table \in ScoringMatrices

LEMMA NextKindInv == TypeOK /\ KindInv /\ [Next]_vars => KindInv'
<1> SUFFICES ASSUME TypeOK, KindInv, [Next]_vars PROVE KindInv'
  OBVIOUS
<1>1. CASE \E x \in Inputs : Evaluate(x)
  BY <1>1, TableKind DEF Evaluate, KindInv, TypeOK
<1>2. CASE Loop
  BY <1>2 DEF Loop, RuleMatches, RuleFails, RuleRaises, RulesEnd,
              FactorCounts, FactorRaises, FactorsEnd, Reply, KindInv
<1>3. CASE (\E t \in Tables : RegisterTable(t)) \/ Clear \/ TakeReply \/ UNCHANGED vars
  BY <1>3 DEF RegisterTable, Clear, TakeReply, vars, KindInv
<1>. QED  BY <1>1, <1>2, <1>3 DEF Next

\* Decisive names a range of the factor, or none.
LEMMA DecisiveInRange ==
  ASSUME NEW f \in Factors, NEW v
  PROVE  Decisive(f, v) \in {0} \cup DOMAIN f.ranges
<1>. DEFINE stops == {j \in DOMAIN f.ranges : ParseCondition(f.ranges[j], v) # "no"}
<1>1. stops \in SUBSET Nat /\ stops \subseteq DOMAIN f.ranges
  BY DEF Factors
<1>2. Decisive(f, v) = Least(stops)
  BY DEF Decisive, Least
<1>3. stops # {} => Least(stops) \in stops
  <2>. HIDE DEF stops
  <2>. QED  BY <1>1, LeastIsLeast
<1>4. stops = {} => Least(stops) = 0
  BY DEF Least
<1>. HIDE DEF stops
<1>. QED  BY <1>1, <1>2, <1>3, <1>4

LEMMA NextTypeOK == TypeOK /\ KindInv /\ [Next]_vars => TypeOK'
<1> SUFFICES ASSUME TypeOK, KindInv, [Next]_vars PROVE TypeOK'
  OBVIOUS
<1>. USE DEF TypeOK
<1>1. CASE \E t \in Tables : RegisterTable(t)
  BY <1>1 DEF RegisterTable
<1>2. CASE Clear
  BY <1>2 DEF Clear
<1>3. CASE \E x \in Inputs : Evaluate(x)
  BY <1>3, TableKind DEF Evaluate, Raised, NoReply
<1>4. CASE RuleMatches
  BY <1>4 DEF RuleMatches, Reply, OneOf
<1>5. CASE RuleFails \/ RuleRaises \/ FactorRaises
  BY <1>5 DEF RuleFails, RuleRaises, FactorRaises, Reply, Raised
<1>6. CASE RulesEnd
  <2>1. Outcome.kind \in {"one", "all"}
    BY DEF Outcome, OneOf, AllOf
  <2>. QED  BY <1>6, <2>1 DEF RulesEnd, Reply
<1>7. CASE FactorCounts
  <2>. DEFINE j == IF Given(Factor) THEN Decisive(Factor, inputs[Factor.name]) ELSE 0
  <2>1. Factor \in Factors
    BY <1>7 DEF FactorCounts, Factor, KindInv, ScoringMatrices
  <2>2. j \in {0} \cup DOMAIN Factor.ranges
    BY <2>1, DecisiveInRange
  <2>3. j # 0 => Factor.ranges[j].points * Factor.weight \in Int
    <3>. HIDE DEF j
    <3>1. Factor.weight \in Int /\ (j # 0 => Factor.ranges[j] \in Ranges)
      BY <2>1, <2>2 DEF Factors
    <3>2. j # 0 => Factor.ranges[j].points \in Int
      BY <3>1 DEF Ranges
    <3>3. \A m, n \in Int : m * n \in Int
      OBVIOUS
    <3>. QED  BY <3>1, <3>2, <3>3, Zenon
  <2>4. total' = total + (IF j = 0 THEN 0 ELSE Factor.ranges[j].points * Factor.weight)
    BY <1>7 DEF FactorCounts
  <2>5. total' \in Int
    <3>. HIDE DEF j
    <3>. QED  BY <2>3, <2>4
  <2>. QED  BY <1>7, <2>5 DEF FactorCounts
<1>8. CASE FactorsEnd
  BY <1>8 DEF FactorsEnd, Reply, ScoreOf
<1>9. CASE TakeReply
  BY <1>9, RulesAssumption DEF TakeReply, NoReply
<1>10. CASE UNCHANGED vars
  BY <1>10 DEF vars
<1>. QED  BY <1>1, <1>2, <1>3, <1>4, <1>5, <1>6, <1>7, <1>8, <1>9, <1>10 DEF Next, Loop

LEMMA InitTypeOK == Init => TypeOK /\ KindInv
  BY RulesAssumption DEF Init, TypeOK, KindInv, NoReply

(* The registry and the local variables of an evaluation keep their types, *)
(* whatever tables are registered.                                         *)
THEOREM RulesTypeCorrect == Spec => []TypeOK
<1>1. Spec => [](TypeOK /\ KindInv)
  BY InitTypeOK, NextTypeOK, NextKindInv, PTL DEF Spec
<1>. QED  BY <1>1, PTL

-----------------------------------------------------------------------------
(* Decisions.                                                              *)

\* What the loop over the rules has done before rule k: it has collected the
\* matches among them, and under FIRST it would have ended at a fitting one.
LoopInv ==
  pc = "decision" /\ LegibleRules =>
    /\ k <= Len(table.rules) + 1
    /\ Ascending(matched)
    /\ Range(matched) = {i \in Hits : i < k}
    /\ table.hit_policy = "FIRST" => \A i \in Fitting : k <= i

LEMMA RulesAreIndexed ==
  ASSUME TypeOK, KindInv, pc = "decision"
  PROVE  /\ table.rules \in Seq(Rules)
         /\ DOMAIN table.rules = 1..Len(table.rules)
         /\ Hits \subseteq 1..Len(table.rules)
         /\ Fitting \subseteq Hits /\ Defaults \subseteq Hits
  BY DEF KindInv, DecisionTables, Hits, Fitting, Defaults

LEMMA AppendExtends ==
  ASSUME NEW s \in Seq(Nat), NEW n \in Nat
  PROVE  /\ Range(Append(s, n)) = Range(s) \cup {n}
         /\ Ascending(s) /\ (\A i \in Range(s) : i < n) => Ascending(Append(s, n))
<1>1. /\ DOMAIN Append(s, n) = DOMAIN s \cup {Len(s) + 1}
      /\ \A i \in DOMAIN s : Append(s, n)[i] = s[i] /\ i < Len(s) + 1
      /\ Append(s, n)[Len(s) + 1] = n
  OBVIOUS
<1>2. Range(Append(s, n)) = Range(s) \cup {n}
  BY <1>1 DEF Range
<1>3. ASSUME Ascending(s), \A i \in Range(s) : i < n
      PROVE  Ascending(Append(s, n))
  <2>. SUFFICES ASSUME NEW i \in DOMAIN Append(s, n), NEW j \in DOMAIN Append(s, n), i < j
                PROVE  Append(s, n)[i] < Append(s, n)[j]
    BY DEF Ascending
  <2>1. i \in DOMAIN s
    OBVIOUS
  <2>2. CASE j \in DOMAIN s
    BY <1>1, <1>3, <2>1, <2>2 DEF Ascending
  <2>3. CASE j = Len(s) + 1
    BY <1>1, <1>3, <2>1, <2>3 DEF Range
  <2>. QED  BY <1>1, <2>2, <2>3
<1>. QED  BY <1>2, <1>3

LEMMA MatchedIsIndexed ==
  ASSUME TypeOK, matched # <<>>
  PROVE  DOMAIN matched \in SUBSET Nat /\ DOMAIN matched # {}
<1>1. matched \in Seq(Nat)
  BY DEF TypeOK
<1>2. Len(matched) \in Nat /\ DOMAIN matched = 1..Len(matched) /\ Len(matched) # 0
  BY <1>1
<1>3. 1 \in DOMAIN matched
  BY <1>2
<1>. QED  BY <1>2, <1>3

\* The first of the matches with the least priority.
LEMMA ForemostIsUrgent ==
  ASSUME TypeOK, KindInv, pc = "decision",
         Ascending(matched), Range(matched) = Hits, matched # <<>>
  PROVE  Foremost = Least(Urgent) /\ Foremost \in Range(matched)
<1>. DEFINE prio(i) == table.rules[matched[i]].priority
            before(i, j) == prio(i) < prio(j) \/ (prio(i) = prio(j) /\ i <= j)
            P == {prio(i) : i \in DOMAIN matched}
            lowest == {i \in DOMAIN matched : prio(i) = Least(P)}
            first == Least(lowest)
            best == CHOOSE i \in DOMAIN matched : \A j \in DOMAIN matched : before(i, j)
<1>1. DOMAIN matched \in SUBSET Nat /\ DOMAIN matched # {}
  BY MatchedIsIndexed
<1>2. \A i \in DOMAIN matched : prio(i) \in Nat /\ matched[i] \in Hits /\ matched[i] \in Nat
  <2>1. \A i \in DOMAIN matched : matched[i] \in Hits /\ matched[i] \in DOMAIN table.rules /\ matched[i] \in Nat
    <3>1. \A i \in DOMAIN matched : matched[i] \in Range(matched)
      BY DEF Range
    <3>2. \A m \in Hits : m \in DOMAIN table.rules /\ m \in Nat
      BY RulesAreIndexed
    <3>. QED  BY <3>1, <3>2
  <2>2. \A m \in DOMAIN table.rules : table.rules[m].priority \in Nat
    <3>1. \A m \in DOMAIN table.rules : table.rules[m] \in Rules
      BY RulesAreIndexed
    <3>2. \A r \in Rules : r.priority \in Nat
      BY DEF Rules
    <3>. QED  BY <3>1, <3>2
  <2>. QED  BY <2>1, <2>2
<1>. HIDE DEF prio
<1>3. Least(P) \in P /\ \A p \in P : Least(P) <= p
  <2>1. P \in SUBSET Nat /\ P # {}
    BY <1>1, <1>2
  <2>. QED  BY <2>1, LeastIsLeast
<1>4. first \in lowest /\ \A i \in lowest : first <= i
  <2>1. lowest \in SUBSET Nat /\ lowest # {}
    BY <1>1, <1>3
  <2>. QED  BY <2>1, LeastIsLeast
<1>. HIDE DEF first
<1>5. \A j \in DOMAIN matched : before(first, j)
  <2>. SUFFICES ASSUME NEW j \in DOMAIN matched PROVE before(first, j)
    OBVIOUS
  <2>1. prio(first) = Least(P) /\ Least(P) <= prio(j) /\ Least(P) \in Nat /\ prio(j) \in Nat
    BY <1>2, <1>3, <1>4
  <2>2. CASE prio(j) = Least(P)
    BY <1>4, <2>1, <2>2
  <2>3. CASE prio(j) # Least(P)
    BY <2>1, <2>3
  <2>. QED  BY <2>2, <2>3
<1>6. best \in DOMAIN matched /\ \A j \in DOMAIN matched : before(best, j)
  BY <1>4, <1>5
<1>7. Foremost = matched[best]
  BY DEF Foremost, prio
<1>. HIDE DEF best
<1>8. matched[best] \in Urgent
  <2>1. \A m \in Hits : \E j \in DOMAIN matched : m = matched[j]
    BY DEF Range
  <2>2. \A m \in Hits : table.rules[matched[best]].priority <= table.rules[m].priority
    <3>. SUFFICES ASSUME NEW j \in DOMAIN matched PROVE prio(best) <= prio(j)
      BY <2>1 DEF prio
    <3>. QED  BY <1>2, <1>6
  <2>. QED  BY <1>2, <1>6, <2>2 DEF Urgent
<1>9. \A m \in Urgent : matched[best] <= m
  <2>. SUFFICES ASSUME NEW m \in Urgent PROVE matched[best] <= m
    OBVIOUS
  <2>1. PICK j \in DOMAIN matched : m = matched[j]
    BY DEF Range, Urgent
  <2>2. prio(j) <= prio(best)
    BY <1>2, <1>6, <2>1 DEF Urgent, prio
  <2>3. best <= j
    BY <1>2, <1>6, <2>2
  <2>. QED  BY <1>1, <1>2, <1>6, <2>1, <2>3 DEF Ascending
<1>10. Urgent \in SUBSET Nat
  BY RulesAreIndexed DEF Urgent
<1>. QED  BY <1>6, <1>7, <1>8, <1>9, <1>10, LeastIsUnique DEF Range

\* What the answer of MeetsWhen for rule k says of Fitting and Hits.
LEMMA RuleIsJudged ==
  ASSUME TypeOK, KindInv, pc = "decision", k <= Len(table.rules), LegibleRules
  PROVE  /\ k \in Nat /\ k \in DOMAIN table.rules
         /\ Rule.default => k \in Hits /\ k \notin Fitting
         /\ ~Rule.default /\ MeetsWhen(Rule, inputs) = "yes" => k \in Hits /\ k \in Fitting
         /\ ~Rule.default /\ MeetsWhen(Rule, inputs) = "no" => k \notin Hits
<1>1. k \in Nat /\ k \in DOMAIN table.rules
  BY RulesAreIndexed DEF TypeOK
<1>2. Rule \in Rules
  BY <1>1, RulesAreIndexed DEF Rule
<1>3. /\ MeetsWhen(Rule, inputs) = "yes" => Fits(Rule, inputs)
      /\ MeetsWhen(Rule, inputs) = "no" => ~Fits(Rule, inputs)
  <2>1. LegibleRule(Rule, inputs) /\ inputs \in Inputs
    BY <1>1 DEF LegibleRules, Rule, TypeOK
  <2>. QED  BY <1>2, <2>1, WhenIsSound
<1>. QED  BY <1>1, <1>3 DEF Hits, Fitting, Defaults, Rule

LEMMA NextLoopInv == TypeOK /\ KindInv /\ LoopInv /\ [Next]_vars => LoopInv'
<1> SUFFICES ASSUME TypeOK, KindInv, LoopInv, [Next]_vars, pc' = "decision", LegibleRules'
             PROVE  LoopInv'
  BY DEF LoopInv
<1>1. CASE \E x \in Inputs : Evaluate(x)
  <2>1. table' = table /\ k' = 1 /\ matched' = <<>> /\ table \in DecisionTables
    BY <1>1, TableKind DEF Evaluate, TypeOK
  <2>2. Len(table.rules) \in Nat /\ DOMAIN table.rules = 1..Len(table.rules)
    BY <2>1 DEF DecisionTables
  <2>3. \A i \in Hits' \cup Fitting' : 1 <= i /\ ~(i < 1)
    BY <2>1, <2>2 DEF Hits, Fitting, Defaults
  <2>4. Range(matched') = {} /\ Ascending(matched')
    BY <2>1 DEF Range, Ascending
  <2>. QED  BY <2>1, <2>2, <2>3, <2>4 DEF LoopInv, Range, Ascending
<1>2. CASE RuleMatches \/ RuleFails
  <2>1. /\ pc = "decision" /\ k <= Len(table.rules) /\ LegibleRules
        /\ k' = k + 1 /\ table' = table /\ inputs' = inputs
    BY <1>2 DEF RuleMatches, RuleFails, Reply, LegibleRules
  <2>2. Hits' = Hits /\ Fitting' = Fitting
    BY <2>1 DEF Hits, Fitting, Defaults
  <2>3. Ascending(matched) /\ Range(matched) = {i \in Hits : i < k}
    BY <2>1 DEF LoopInv
  <2>4. Hits \subseteq 1..Len(table.rules) /\ Fitting \subseteq Hits /\ Len(table.rules) \in Nat
    BY <2>1, RulesAreIndexed
  <2>5. k \in Nat /\ k' <= Len(table'.rules) + 1
    BY <2>1, <2>4 DEF TypeOK
  <2>6. {i \in Hits : i < k'} = {i \in Hits : i < k} \cup (Hits \cap {k})
    <3>1. \A i \in Hits : i < k' <=> i < k \/ i = k
      BY <2>1, <2>4, <2>5
    <3>. QED  BY <3>1, Zenon
  <2>7. Ascending(matched') /\ Range(matched') = {i \in Hits : i < k'}
    <3>1. CASE RuleMatches
      <4>1. matched' = Append(matched, k) /\ k \in Hits
        BY <2>1, <3>1, RuleIsJudged DEF RuleMatches
      <4>2. \A i \in Range(matched) : i < k
        BY <2>3
      <4>3. Range(matched') = Range(matched) \cup {k} /\ Ascending(matched')
        BY <2>3, <2>5, <4>1, <4>2, AppendExtends DEF TypeOK
      <4>. QED  BY <2>3, <2>6, <4>1, <4>3
    <3>2. CASE RuleFails
      <4>1. matched' = matched /\ k \notin Hits
        BY <2>1, <3>2, RuleIsJudged DEF RuleFails
      <4>. QED  BY <2>3, <2>6, <4>1
    <3>. QED  BY <1>2, <3>1, <3>2
  <2>8. table.hit_policy = "FIRST" => \A i \in Fitting : k' <= i
    <3>. SUFFICES ASSUME table.hit_policy = "FIRST", NEW i \in Fitting PROVE k' <= i
      OBVIOUS
    <3>1. k <= i /\ i \in Nat
      BY <2>1, <2>4 DEF LoopInv
    <3>2. k \notin Fitting
      BY <1>2, <2>1, <2>4, RuleIsJudged DEF RuleMatches, RuleFails, Reply
    <3>. QED  BY <2>1, <2>5, <3>1, <3>2
  <2>. QED  BY <2>1, <2>2, <2>5, <2>7, <2>8 DEF LoopInv
<1>3. CASE UNCHANGED vars
  BY <1>3 DEF vars, LoopInv, LegibleRules, Range, Ascending, Hits, Fitting, Defaults
<1>. QED
  <2>1. ~(\E t \in Tables : RegisterTable(t)) /\ ~Clear /\ ~TakeReply /\ ~RuleRaises /\ ~RulesEnd
        /\ ~FactorCounts /\ ~FactorRaises /\ ~FactorsEnd
    BY DEF RegisterTable, Clear, TakeReply, RuleRaises, RulesEnd, FactorCounts, FactorRaises,
           FactorsEnd, Reply
  <2>. QED  BY <1>1, <1>2, <1>3, <2>1 DEF Next, Loop

\* The answer given after the last rule.
LEMMA OutcomeIsRight ==
  ASSUME TypeOK, KindInv, LoopInv, LegibleRules, pc = "decision", k > Len(table.rules)
  PROVE  /\ table.hit_policy = "FIRST" =>
              Outcome.outcome = IF Fitting # {} THEN Least(Fitting) ELSE Least(Defaults)
         /\ table.hit_policy = "PRIORITY" => Outcome.outcome = Least(Urgent)
         /\ Outcome.kind = "all" =>
              Outcome.outcome = matched /\ Ascending(matched) /\ Range(matched) = Hits
         /\ Outcome.kind = "one" => Outcome.outcome \in {0} \cup Range(matched)
<1>1. Hits \subseteq 1..Len(table.rules) /\ Len(table.rules) \in Nat /\ k \in Nat
  BY RulesAreIndexed DEF TypeOK
<1>2. \A i \in Hits : i < k /\ i \in Nat
  BY <1>1
<1>3. Ascending(matched) /\ Range(matched) = Hits
  BY <1>2 DEF LoopInv
<1>4. CASE matched = <<>>
  <2>1. Hits = {}
    BY <1>3, <1>4 DEF Range
  <2>2. Fitting = {} /\ Defaults = {} /\ Urgent = {}
    BY <2>1 DEF Hits, Urgent
  <2>3. Least({}) = 0
    BY DEF Least
  <2>. QED  BY <1>4, <2>2, <2>3 DEF Outcome, OneOf
<1>5. CASE matched # <<>>
  <2>1. matched \in Seq(Nat) /\ DOMAIN matched \in SUBSET Nat /\ DOMAIN matched # {}
    BY <1>5, MatchedIsIndexed DEF TypeOK
  <2>2. 1 \in DOMAIN matched /\ \A i \in DOMAIN matched : 1 <= i
    BY <2>1
  <2>3. matched[1] \in Hits /\ \A i \in DOMAIN matched : matched[1] <= matched[i]
    <3>1. matched[1] \in Range(matched)
      BY <2>2 DEF Range
    <3>2. \A i \in DOMAIN matched : matched[i] \in Nat
      BY <2>1
    <3>. QED  BY <1>3, <2>1, <2>2, <3>1, <3>2 DEF Ascending
  <2>4. \A m \in Hits : matched[1] <= m
    BY <1>3, <2>3 DEF Range
  <2>5. CASE table.hit_policy = "FIRST"
    <3>1. Fitting = {}
      <4>1. \A i \in Fitting : k <= i /\ i < k /\ i \in Nat
        BY <1>2, <2>5 DEF LoopInv, Hits
      <4>. QED  BY <1>1, <4>1
    <3>2. Defaults = Hits
      BY <3>1 DEF Hits
    <3>3. Defaults \in SUBSET Nat
      BY <1>2, <3>2
    <3>4. Least(Defaults) = matched[1]
      BY <2>3, <2>4, <3>2, <3>3, LeastIsUnique
    <3>. QED  BY <1>3, <1>5, <2>3, <2>5, <3>1, <3>4 DEF Outcome, OneOf
  <2>6. CASE table.hit_policy = "PRIORITY"
    <3>1. Foremost = Least(Urgent) /\ Foremost \in Range(matched)
      BY <1>3, <1>5, ForemostIsUrgent
    <3>. QED  BY <1>5, <2>6, <3>1 DEF Outcome, OneOf
  <2>7. CASE table.hit_policy \notin {"FIRST", "PRIORITY"}
    BY <1>3, <1>5, <2>3, <2>7 DEF Outcome, OneOf, AllOf
  <2>. QED  BY <2>5, <2>6, <2>7
<1>. QED  BY <1>4, <1>5

LEMMA NextDecision ==
  TypeOK /\ KindInv /\ LoopInv /\ DecisionIsRight /\ [Next]_vars => DecisionIsRight'
<1> SUFFICES ASSUME TypeOK, KindInv, LoopInv, DecisionIsRight, [Next]_vars,
                    pc' = "replied", reply'.kind \in {"one", "all"}, LegibleRules'
             PROVE  RightDecision'
  BY DEF DecisionIsRight, Decided
<1>1. CASE RuleMatches
  <2>1. /\ pc = "decision" /\ k <= Len(table.rules) /\ LegibleRules
        /\ table' = table /\ inputs' = inputs /\ matched' = Append(matched, k)
        /\ table.hit_policy = "FIRST" /\ ~Rule.default /\ MeetsWhen(Rule, inputs) = "yes"
        /\ reply' = OneOf(k)
    BY <1>1 DEF RuleMatches, Reply, LegibleRules
  <2>2. k \in Fitting /\ k \in Nat
    BY <2>1, RuleIsJudged
  <2>3. Fitting \in SUBSET Nat /\ \A i \in Fitting : k <= i
    BY <2>1, RulesAreIndexed DEF LoopInv
  <2>4. Least(Fitting) = k
    BY <2>2, <2>3, LeastIsUnique
  <2>5. Least(Fitting)' = k /\ Fitting' # {}
    <3>1. Fitting' = Fitting
      BY <2>1 DEF Fitting
    <3>2. Least(Fitting)' = Least(Fitting)
      BY <3>1 DEF Least
    <3>. QED  BY <2>2, <2>4, <3>1, <3>2
  <2>6. k \in Range(matched')
    BY <2>1, <2>2, AppendExtends DEF TypeOK
  <2>. QED  BY <2>1, <2>5, <2>6 DEF RightDecision, OneOf
<1>2. CASE RulesEnd
  <2>1. /\ pc = "decision" /\ k > Len(table.rules) /\ LegibleRules
        /\ table' = table /\ inputs' = inputs /\ matched' = matched
        /\ reply' = Outcome
    BY <1>2 DEF RulesEnd, Reply, LegibleRules
  <2>2. /\ Fitting' = Fitting /\ Defaults' = Defaults /\ Hits' = Hits /\ Urgent' = Urgent
    BY <2>1 DEF Fitting, Defaults, Hits, Urgent
  <2>3. /\ Least(Fitting)' = Least(Fitting) /\ Least(Defaults)' = Least(Defaults)
        /\ Least(Urgent)' = Least(Urgent)
        /\ Range(matched)' = Range(matched) /\ Ascending(matched)' = Ascending(matched)
    BY <2>1, <2>2 DEF Least, Range, Ascending
  <2>. HIDE DEF Least
  <2>. QED  BY <2>1, <2>2, <2>3, OutcomeIsRight DEF RightDecision
<1>3. CASE UNCHANGED vars
  <2>1. UNCHANGED <<table, inputs, matched, reply, pc>> /\ LegibleRules
    BY <1>3 DEF vars, LegibleRules
  <2>2. /\ Fitting' = Fitting /\ Defaults' = Defaults /\ Hits' = Hits /\ Urgent' = Urgent
    BY <2>1 DEF Fitting, Defaults, Hits, Urgent
  <2>3. /\ Least(Fitting)' = Least(Fitting) /\ Least(Defaults)' = Least(Defaults)
        /\ Least(Urgent)' = Least(Urgent)
        /\ Range(matched)' = Range(matched) /\ Ascending(matched)' = Ascending(matched)
    BY <2>1, <2>2 DEF Least, Range, Ascending
  <2>. HIDE DEF Least, Range, Ascending, Fitting, Defaults, Hits, Urgent
  <2>. QED  BY <2>1, <2>2, <2>3 DEF DecisionIsRight, Decided, RightDecision
<1>. QED
  <2>1. ~(\E t \in Tables : RegisterTable(t)) /\ ~Clear /\ ~TakeReply /\ ~RuleRaises /\ ~RuleFails
        /\ ~(\E x \in Inputs : Evaluate(x))
        /\ ~FactorCounts /\ ~FactorRaises /\ ~FactorsEnd
    BY TableKind DEF RegisterTable, Clear, Evaluate, TakeReply, RuleRaises, RuleFails,
           FactorCounts, FactorRaises, FactorsEnd, Reply, Raised, ScoreOf, TypeOK
  <2>. QED  BY <1>1, <1>2, <1>3, <2>1 DEF Next, Loop

(* A decision is the one the hit policy names, for every table and every   *)
(* input of numbers, strings, truth values and None: FIRST, PRIORITY, ALL  *)
(* and COLLECT, defaults wherever they stand.  It can be wrong only where  *)
(* a string is compared by '>=' or '<=', or a truth value by anything but  *)
(* 'True' (_evaluate_decision, _parse_condition).                          *)
THEOREM DecisionsAreRight == Spec => []DecisionIsRight
<1>1. Init => LoopInv /\ DecisionIsRight
  BY DEF Init, LoopInv, DecisionIsRight, Decided
<1>2. Spec => [](TypeOK /\ KindInv /\ LoopInv /\ DecisionIsRight)
  BY <1>1, InitTypeOK, NextTypeOK, NextKindInv, NextLoopInv, NextDecision, PTL DEF Spec
<1>. QED  BY <1>2, PTL

-----------------------------------------------------------------------------
(* Scores.                                                                 *)

\* A sum over the natural numbers, as ScoreUpTo is one, is well defined.
LEMMA SumIsDefined ==
  ASSUME NEW p
  PROVE  \E f : f = [n \in Nat |-> IF n = 0 THEN 0 ELSE f[n - 1] + p[n]]
<1>. DEFINE IsSum(g, n) == g = [i \in 0..n |-> IF i = 0 THEN 0 ELSE g[i - 1] + p[i]]
            sum(n) == CHOOSE g : IsSum(g, n)
            f == [n \in Nat |-> sum(n)[n]]
<1>1. ASSUME NEW n \in Nat PROVE \E g : IsSum(g, n)
  <2>. DEFINE none == {m \in Nat : ~\E g : IsSum(g, m)}
              m == Least(none)
  <2>. SUFFICES ASSUME none # {} PROVE FALSE
    OBVIOUS
  <2>1. m \in none /\ \A j \in none : m <= j
    <3>1. none \in SUBSET Nat
      OBVIOUS
    <3>. HIDE DEF none
    <3>. QED  BY <3>1, LeastIsLeast
  <2>2. m \in Nat /\ m # 0
    <3>1. IsSum([i \in 0..0 |-> 0], 0)
      <4>1. \A i \in 0..0 : i = 0
        OBVIOUS
      <4>. QED  BY <4>1
    <3>. HIDE DEF IsSum, m
    <3>. QED  BY <2>1, <3>1
  <2>3. PICK g : IsSum(g, m - 1)
    <3>. HIDE DEF IsSum, m
    <3>1. m - 1 \in Nat /\ ~(m <= m - 1)
      BY <2>2
    <3>. QED  BY <2>1, <3>1
  <2>. HIDE DEF m
  <2>. DEFINE h == [i \in 0..m |-> IF i = m THEN g[m - 1] + p[m] ELSE g[i]]
  <2>4. ASSUME NEW i \in 0..m PROVE h[i] = IF i = 0 THEN 0 ELSE h[i - 1] + p[i]
    <3>1. CASE i = m
      BY <2>2, <3>1
    <3>2. CASE i # m
      <4>1. i \in 0..(m - 1) /\ (i # 0 => i - 1 \in 0..m /\ i - 1 # m)
        BY <2>2, <3>2
      <4>2. g[i] = IF i = 0 THEN 0 ELSE g[i - 1] + p[i]
        BY <2>3, <4>1
      <4>. QED  BY <3>2, <4>1, <4>2
    <3>. QED  BY <3>1, <3>2
  <2>5. h = [i \in 0..m |-> IF i = 0 THEN 0 ELSE h[i - 1] + p[i]]
    <3>1. h = [i \in 0..m |-> h[i]]
      OBVIOUS
    <3>. HIDE DEF h
    <3>. QED  BY <2>4, <3>1
  <2>. QED  BY <2>1, <2>5
<1>2. ASSUME NEW n \in Nat PROVE IsSum(sum(n), n)
  <2>. HIDE DEF IsSum
  <2>. QED  BY <1>1
<1>3. ASSUME NEW n \in Nat, NEW m \in 0..n PROVE sum(m)[m] = sum(n)[m]
  <2>. DEFINE g == sum(m)
              h == sum(n)
              apart == {i \in 0..m : g[i] # h[i]}
              i == Least(apart)
  <2>1. /\ \A j \in 0..m : g[j] = IF j = 0 THEN 0 ELSE g[j - 1] + p[j]
        /\ \A j \in 0..m : h[j] = IF j = 0 THEN 0 ELSE h[j - 1] + p[j]
    <3>1. IsSum(g, m) /\ IsSum(h, n)
      <4>1. m \in Nat
        OBVIOUS
      <4>. HIDE DEF IsSum, sum
      <4>. QED  BY <1>2, <4>1
    <3>2. \A j \in 0..m : j \in 0..n
      OBVIOUS
    <3>. HIDE DEF g, h
    <3>. QED  BY <3>1, <3>2
  <2>. HIDE DEF g, h
  <2>2. CASE apart = {}
    BY <2>2 DEF g, h
  <2>3. CASE apart # {}
    <3>1. i \in apart /\ \A j \in apart : i <= j
      <4>1. apart \in SUBSET Nat
        OBVIOUS
      <4>. HIDE DEF apart
      <4>. QED  BY <2>3, <4>1, LeastIsLeast
    <3>. HIDE DEF i
    <3>2. i \in 0..m /\ i # 0
      BY <2>1, <3>1
    <3>3. i - 1 \in 0..m /\ ~(i <= i - 1)
      BY <3>2
    <3>4. g[i - 1] = h[i - 1]
      BY <3>1, <3>3
    <3>. QED  BY <2>1, <3>1, <3>2, <3>4
  <2>. QED  BY <2>2, <2>3
<1>4. ASSUME NEW n \in Nat PROVE f[n] = IF n = 0 THEN 0 ELSE f[n - 1] + p[n]
  <2>1. sum(n)[n] = IF n = 0 THEN 0 ELSE sum(n)[n - 1] + p[n]
    <3>1. n \in 0..n
      OBVIOUS
    <3>2. IsSum(sum(n), n)
      BY <1>2
    <3>. HIDE DEF sum
    <3>. QED  BY <3>1, <3>2
  <2>2. ASSUME n # 0 PROVE n - 1 \in Nat /\ sum(n - 1)[n - 1] = sum(n)[n - 1]
    <3>1. n - 1 \in 0..n
      BY <2>2
    <3>. HIDE DEF sum
    <3>. QED  BY <1>3, <3>1
  <2>. HIDE DEF sum
  <2>. QED  BY <2>1, <2>2
<1>5. f = [n \in Nat |-> f[n]]
  OBVIOUS
<1>. HIDE DEF f
<1>. QED  BY <1>4, <1>5

LEMMA ScoreSteps ==
  /\ ScoreUpTo[0] = 0
  /\ \A n \in Nat \ {0} : ScoreUpTo[n] = ScoreUpTo[n - 1] + Points(table.factors[n])
<1>. DEFINE p == [n \in Nat |-> Points(table.factors[n])]
            Sums(f) == f = [n \in Nat |-> IF n = 0 THEN 0 ELSE f[n - 1] + Points(table.factors[n])]
<1>1. \E f : Sums(f)
  <2>1. PICK f : f = [n \in Nat |-> IF n = 0 THEN 0 ELSE f[n - 1] + p[n]]
    <3>. HIDE DEF p
    <3>. QED  BY SumIsDefined
  <2>2. Sums(f)
    BY <2>1
  <2>. QED  BY <2>2
<1>2. ScoreUpTo = CHOOSE f : Sums(f)
  BY DEF ScoreUpTo
<1>. HIDE DEF Sums
<1>3. Sums(ScoreUpTo)
  BY <1>1, <1>2
<1>. QED  BY <1>3 DEF Sums

\* The first range that does not say no is the first that holds, unless it raises.
LEMMA DecisiveEarnsThePoints ==
  ASSUME NEW f \in Factors, inputs \in Inputs, LegibleFactor(f),
         NEW j, j = IF Given(f) THEN Decisive(f, inputs[f.name]) ELSE 0,
         j # 0 => ParseCondition(f.ranges[j], inputs[f.name]) = "yes"
  PROVE  Points(f) = IF j = 0 THEN 0 ELSE f.ranges[j].points * f.weight
<1>. DEFINE v == inputs[f.name]
            hold == {i \in DOMAIN f.ranges : Given(f) /\ Meets(v, f.ranges[i])}
            stops == {i \in DOMAIN f.ranges : ParseCondition(f.ranges[i], v) # "no"}
<1>1. Points(f) = IF hold = {} THEN 0 ELSE f.ranges[Least(hold)].points * f.weight
  BY DEF Points
<1>2. ASSUME Given(f), NEW i \in DOMAIN f.ranges
      PROVE  /\ ParseCondition(f.ranges[i], v) = "yes" => Meets(v, f.ranges[i])
             /\ ParseCondition(f.ranges[i], v) = "no" => ~Meets(v, f.ranges[i])
  <2>1. f.ranges[i] \in Ranges
    BY DEF Factors
  <2>2. f.ranges[i].op \in Operators /\ f.ranges[i].bound \in Bounds
    BY <2>1 DEF Ranges
  <2>3. v \in Values
    BY <1>2, RulesAssumption DEF Given
  <2>4. ~Misread(f.ranges[i], v)
    BY <1>2 DEF LegibleFactor
  <2>. HIDE DEF v
  <2>. QED  BY <2>2, <2>3, <2>4, ConditionIsSound
<1>3. hold \subseteq stops /\ stops \in SUBSET Nat
  BY <1>2 DEF Factors
<1>4. Given(f) => j = Least(stops)
  BY DEF Decisive, Least
<1>5. \A i \in stops : Given(f) /\ ParseCondition(f.ranges[i], v) = "yes" => i \in hold
  BY <1>2
<1>6. ~Given(f) => hold = {}
  OBVIOUS
<1>7. stops = {} => Least(stops) = 0
  BY DEF Least
<1>8. stops # {} => Least(stops) \in stops /\ \A i \in stops : Least(stops) <= i
  <2>. HIDE DEF stops
  <2>. QED  BY <1>3, LeastIsLeast
<1>9. \A i \in stops : i # 0
  BY DEF Factors
<1>. HIDE DEF hold, stops
<1>10. CASE ~Given(f) \/ stops = {}
  BY <1>1, <1>3, <1>4, <1>6, <1>7, <1>10
<1>11. CASE Given(f) /\ stops # {}
  <2>1. j \in hold /\ j # 0
    BY <1>4, <1>5, <1>8, <1>9, <1>11
  <2>2. hold \in SUBSET Nat /\ \A i \in hold : j <= i
    BY <1>3, <1>4, <1>8, <1>11
  <2>3. Least(hold) = j
    BY <2>1, <2>2, LeastIsUnique
  <2>. QED  BY <1>1, <2>1, <2>3
<1>. QED  BY <1>10, <1>11

\* What the loop over the factors has added up before factor k.
SumInv ==
  pc = "scoring" /\ LegibleFactors => k <= Len(table.factors) + 1 /\ total = ScoreUpTo[k - 1]

LEMMA ScoreIsOfTheCall ==
  ASSUME table' = table, inputs' = inputs
  PROVE  ScoreUpTo' = ScoreUpTo
  BY DEF ScoreUpTo, Points, Given

LEMMA FactorsAreCounted ==
  ASSUME TypeOK, KindInv, pc = "scoring"
  PROVE  table.factors \in Seq(Factors) /\ Len(table.factors) \in Nat
  BY DEF KindInv, ScoringMatrices

LEMMA NextSumInv == TypeOK /\ KindInv /\ SumInv /\ [Next]_vars => SumInv'
<1> SUFFICES ASSUME TypeOK, KindInv, SumInv, [Next]_vars, pc' = "scoring", LegibleFactors'
             PROVE  SumInv'
  BY DEF SumInv
<1>1. CASE \E x \in Inputs : Evaluate(x)
  <2>1. table' = table /\ k' = 1 /\ total' = 0 /\ table \in ScoringMatrices
    BY <1>1, TableKind DEF Evaluate, TypeOK
  <2>2. (ScoreUpTo[0] = 0)'
    BY ScoreSteps, PTL
  <2>3. Len(table.factors) \in Nat
    BY <2>1 DEF ScoringMatrices
  <2>4. k' <= Len(table'.factors) + 1 /\ total' = ScoreUpTo'[k' - 1]
    BY <2>1, <2>2, <2>3
  <2>. QED  BY <2>4 DEF SumInv
<1>2. CASE FactorCounts
  <2>. DEFINE j == IF Given(Factor) THEN Decisive(Factor, inputs[Factor.name]) ELSE 0
  <2>1. /\ pc = "scoring" /\ k <= Len(table.factors) /\ LegibleFactors
        /\ j # 0 => ParseCondition(Factor.ranges[j], inputs[Factor.name]) = "yes"
        /\ total' = total + (IF j = 0 THEN 0 ELSE Factor.ranges[j].points * Factor.weight)
        /\ k' = k + 1 /\ table' = table /\ inputs' = inputs
    BY <1>2 DEF FactorCounts, LegibleFactors, LegibleFactor, Given
  <2>2. k \in Nat \ {0} /\ Len(table.factors) \in Nat /\ Factor \in Factors
    BY <2>1, FactorsAreCounted DEF TypeOK, Factor
  <2>3. Points(Factor) = IF j = 0 THEN 0 ELSE Factor.ranges[j].points * Factor.weight
    <3>1. LegibleFactor(Factor) /\ inputs \in Inputs
      BY <2>1, <2>2 DEF LegibleFactors, Factor, TypeOK
    <3>. QED  BY <2>1, <2>2, <3>1, DecisiveEarnsThePoints
  <2>4. total = ScoreUpTo[k - 1] /\ ScoreUpTo' = ScoreUpTo
    BY <2>1, ScoreIsOfTheCall DEF SumInv
  <2>5. ScoreUpTo[k] = ScoreUpTo[k - 1] + Points(Factor)
    BY <2>2, ScoreSteps DEF Factor
  <2>6. k' <= Len(table'.factors) + 1 /\ k' - 1 = k
    BY <2>1, <2>2
  <2>. HIDE DEF j
  <2>7. total' = ScoreUpTo'[k' - 1]
    BY <2>1, <2>3, <2>4, <2>5, <2>6
  <2>. QED  BY <2>6, <2>7 DEF SumInv
<1>3. CASE UNCHANGED vars
  BY <1>3, ScoreIsOfTheCall DEF vars, SumInv, LegibleFactors, LegibleFactor, Given
<1>. QED
  <2>1. ~(\E t \in Tables : RegisterTable(t)) /\ ~Clear /\ ~TakeReply /\ ~RuleMatches /\ ~RuleFails
        /\ ~RuleRaises /\ ~RulesEnd /\ ~FactorRaises /\ ~FactorsEnd
    BY DEF RegisterTable, Clear, TakeReply, RuleMatches, RuleFails, RuleRaises, RulesEnd,
           FactorRaises, FactorsEnd, Reply
  <2>. QED  BY <1>1, <1>2, <1>3, <2>1 DEF Next, Loop

LEMMA NextScore == TypeOK /\ KindInv /\ SumInv /\ ScoreIsRight /\ [Next]_vars => ScoreIsRight'
<1> SUFFICES ASSUME TypeOK, KindInv, SumInv, ScoreIsRight, [Next]_vars,
                    pc' = "replied", reply'.kind = "score", LegibleFactors'
             PROVE  ScoreIsRight'
  BY DEF ScoreIsRight
<1>1. CASE FactorsEnd
  <2>1. /\ pc = "scoring" /\ k > Len(table.factors) /\ LegibleFactors
        /\ table' = table /\ inputs' = inputs /\ reply' = ScoreOf(total)
    BY <1>1 DEF FactorsEnd, Reply, LegibleFactors, LegibleFactor, Given
  <2>2. k \in Nat /\ Len(table.factors) \in Nat
    BY <2>1, FactorsAreCounted DEF TypeOK
  <2>3. k - 1 = Len(table.factors)
    BY <2>1, <2>2 DEF SumInv
  <2>4. reply'.outcome = ScoreUpTo[Len(table.factors)]
    BY <2>1, <2>3 DEF SumInv, ScoreOf
  <2>5. ScoreUpTo' = ScoreUpTo
    BY <2>1, ScoreIsOfTheCall
  <2>. QED  BY <2>1, <2>4, <2>5 DEF ScoreIsRight
<1>2. CASE UNCHANGED vars
  BY <1>2, ScoreIsOfTheCall DEF vars, ScoreIsRight, LegibleFactors, LegibleFactor, Given
<1>. QED
  <2>1. Outcome.kind \in {"one", "all"}
    BY DEF Outcome, OneOf, AllOf
  <2>2. ~(\E t \in Tables : RegisterTable(t)) /\ ~Clear /\ ~TakeReply /\ ~RuleMatches /\ ~RuleFails
        /\ ~RuleRaises /\ ~RulesEnd /\ ~(\E x \in Inputs : Evaluate(x))
        /\ ~FactorCounts /\ ~FactorRaises
    BY <2>1, TableKind DEF RegisterTable, Clear, Evaluate, TakeReply, RuleMatches, RuleRaises,
           RuleFails, RulesEnd, FactorCounts, FactorRaises, Reply, Raised, OneOf, TypeOK
  <2>. QED  BY <1>1, <1>2, <2>2 DEF Next, Loop

(* A score is the weighted sum over the factors, for every matrix and      *)
(* every input of numbers, strings, truth values and None, with the same   *)
(* exception as for decisions: the running total is the sum of the points  *)
(* so far (_evaluate_scoring, _parse_condition).                           *)
THEOREM ScoresAreRight == Spec => []ScoreIsRight
<1>1. Init => SumInv /\ ScoreIsRight
  BY DEF Init, SumInv, ScoreIsRight
<1>2. Spec => [](TypeOK /\ KindInv /\ SumInv /\ ScoreIsRight)
  BY <1>1, InitTypeOK, NextTypeOK, NextKindInv, NextSumInv, NextScore, PTL DEF Spec
<1>. QED  BY <1>2, PTL

=============================================================================
