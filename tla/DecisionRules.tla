----------------------------- MODULE DecisionRules -----------------------------
(***************************************************************************)
(* InMemoryRulesEngine: decision tables with a hit policy, and scoring     *)
(* matrices.  evaluate() awaits nothing, so no other call comes between    *)
(* its steps: a step is one pass of its loop over rules or factors.        *)
(*                                                                         *)
(* A condition such as ">500" is the record of its operator and of the     *)
(* text of its bound; one that starts with no operator is compared as it   *)
(* is ("is"), and one that is no string at all is an "object".  Texts are  *)
(* ordered as strings by Rank, and Numbers gives those that are numerals.  *)
(* An input is a function from the fields that are present to values, each *)
(* with its Python type.                                                   *)
(***************************************************************************)
EXTENDS Integers, Sequences, FiniteSets

CONSTANTS
  Fields,
  Texts, Bounds,
  Rank,
  Equals,            \* of a bound: the text of '=' and that bound
  Numbers,           \* the number that float() makes of a text
  Integral,          \* the texts that int() accepts
  Empty, TrueText,   \* '' and 'True'
  Values,
  Str,               \* str(value)
  Tables,            \* the tables that may be registered
  Inputs,            \* the inputs that evaluate() is called with
  NoTable

Operators == {">", ">=", "<", "<=", "==", "!=", "is", "object"}

Conditions == [field : Fields, op : Operators, bound : Bounds]
Ranges == [op : Operators, bound : Bounds, points : Int]

\* The priority of a rule that gives none is 999.
Rules == [default : BOOLEAN, when : Seq(Conditions), priority : Nat]
Factors == [name : Fields, weight : Int, ranges : Seq(Ranges)]

HitPolicies == {"FIRST", "ALL", "COLLECT", "PRIORITY"}

DecisionTables ==
  [table_type : {"decision"}, hit_policy : HitPolicies, rules : Seq(Rules)]
ScoringMatrices == [table_type : {"scoring"}, factors : Seq(Factors)]

TextAssumption ==
  /\ Bounds \subseteq Texts
  /\ Rank \in [Texts -> Int] /\ Equals \in [Bounds -> Texts]
  /\ DOMAIN Numbers \subseteq Texts /\ \A t \in DOMAIN Numbers : Numbers[t] \in Int
  /\ Integral \subseteq DOMAIN Numbers
  /\ Empty \notin DOMAIN Numbers /\ TrueText # Empty
  /\ \A b \in Bounds : Equals[b] # Empty /\ Equals[b] \notin DOMAIN Numbers

ASSUME RulesAssumption ==
  /\ TextAssumption
  /\ Values \subseteq [type : {"int", "float"}, val : Int] \cup [type : {"bool"}, val : {0, 1}]
                        \cup [type : {"str"}, val : Texts] \cup {[type |-> "none", val |-> 0]}
  /\ Str \in [Values -> Texts]
  /\ Tables \subseteq DecisionTables \cup ScoringMatrices
  /\ NoTable \notin Tables
  /\ <<>> \in Inputs
  /\ \A x \in Inputs : DOMAIN x \subseteq Fields /\ \A f \in DOMAIN x : x[f] \in Values

VARIABLES
  table,    \* what is registered under the name (self._tables[table_name])
  pc,
  inputs,   \* arguments and local variables of evaluate()
  k,
  matched,  \* positions of the rules in the list of the same name
  total,
  reply     \* what evaluate() returned or raised

vars == <<table, pc, inputs, k, matched, total, reply>>

(* The types of the engine's registry and of a call's local variables.     *)
TypeOK ==
  /\ table \in Tables \cup {NoTable}
  /\ pc \in {"idle", "decision", "scoring", "replied"}
  /\ inputs \in Inputs
  /\ k \in Nat \ {0}
  /\ matched \in Seq(Nat)
  /\ total \in Int
  /\ reply.kind \in {"none", "raised", "one", "all", "score"}

NoReply == [kind |-> "none"]
Raised == [kind |-> "raised"]
\* A Decision: a rule stands for its own outcome, 0 for None.
OneOf(rule) == [kind |-> "one", outcome |-> rule]
AllOf(rules) == [kind |-> "all", outcome |-> rules]
ScoreOf(n) == [kind |-> "score", outcome |-> n]

Init ==
  /\ table = NoTable /\ pc = "idle" /\ inputs = <<>>
  /\ k = 1 /\ matched = <<>> /\ total = 0 /\ reply = NoReply

-----------------------------------------------------------------------------
(* _parse_condition.                                                       *)

OpOrder == <<">", ">=", "<", "<=", "==", "!=">>

StartsWith(op, prefix) ==
  \/ op = prefix
  \/ op = ">=" /\ prefix = ">"
  \/ op = "<=" /\ prefix = "<"

Compare(op, value, bound) ==
  CASE op = ">"  -> value > bound
    [] op = ">=" -> value >= bound
    [] op = "<"  -> value < bound
    [] op = "<=" -> value <= bound
    [] op = "!=" -> value # bound
    [] OTHER     -> value = bound

TakenOp(op) ==
  LET found == {i \in DOMAIN OpOrder : StartsWith(op, OpOrder[i])}
  IN  IF found = {} THEN op ELSE OpOrder[CHOOSE i \in found : \A j \in found : i <= j]

\* type(value)(text), and whether that raises.
Converts(type, text) ==
  \/ type = "int" /\ text \in Integral
  \/ type = "float" /\ text \in DOMAIN Numbers
  \/ type \in {"bool", "str"}

Converted(type, text) ==
  CASE type = "str" -> Rank[text]
    [] type = "bool" -> IF text = Empty THEN 0 ELSE 1
    [] OTHER -> Numbers[text]

\* Where a value stands among the values of its type.
Place(value) == IF value.type = "str" THEN Rank[value.val] ELSE value.val

\* What follows the operator that is taken.
Threshold(c) == IF TakenOp(c.op) = c.op THEN c.bound ELSE Equals[c.bound]

ParseCondition(c, value) ==
  LET yes == IF c.op = "is" THEN Str[value] = c.bound
             ELSE Compare(TakenOp(c.op), Place(value), Converted(value.type, Threshold(c)))
  IN  IF c.op = "object" \/ (c.op # "is" /\ ~Converts(value.type, Threshold(c))) THEN "raises"
      ELSE IF yes THEN "yes" ELSE "no"

\* The conditions of a rule, in order, up to the first that does not hold.
MeetsWhen(rule, x) ==
  LET says(j) == IF rule.when[j].field \in DOMAIN x
                   THEN ParseCondition(rule.when[j], x[rule.when[j].field])
                   ELSE "no"
      stops == {j \in DOMAIN rule.when : says(j) # "yes"}
  IN  IF stops = {} THEN "yes" ELSE says(CHOOSE j \in stops : \A i \in stops : j <= i)

-----------------------------------------------------------------------------
(* The registry.                                                           *)

RegisterTable(t) ==
  /\ pc = "idle"
  /\ table' = t
  /\ UNCHANGED <<pc, inputs, k, matched, total, reply>>

Clear ==
  /\ pc = "idle"
  /\ table' = NoTable
  /\ UNCHANGED <<pc, inputs, k, matched, total, reply>>

-----------------------------------------------------------------------------
(* evaluate().                                                             *)

Evaluate(x) ==
  /\ pc = "idle"
  /\ inputs' = x
  /\ k' = 1 /\ matched' = <<>> /\ total' = 0
  /\ IF table = NoTable
       THEN pc' = "replied" /\ reply' = Raised
       ELSE pc' = table.table_type /\ reply' = NoReply
  /\ UNCHANGED table

Reply(r) == pc' = "replied" /\ reply' = r

Rule == table.rules[k]

\* _evaluate_decision: one rule.
\* Wrong on purpose: a default ends the loop under FIRST, like any other match.
DefaultEndsTheLoop ==
  /\ pc = "decision" /\ k <= Len(table.rules)
  /\ Rule.default \/ MeetsWhen(Rule, inputs) = "yes"
  /\ matched' = Append(matched, k)
  /\ IF table.hit_policy = "FIRST"
       THEN Reply(OneOf(k)) /\ UNCHANGED k
       ELSE k' = k + 1 /\ UNCHANGED <<pc, reply>>
  /\ UNCHANGED <<table, inputs, total>>

RuleMatches ==
  /\ pc = "decision" /\ k <= Len(table.rules)
  /\ Rule.default \/ MeetsWhen(Rule, inputs) = "yes"
  /\ matched' = Append(matched, k)
  /\ IF ~Rule.default /\ table.hit_policy = "FIRST"
       THEN Reply(OneOf(k)) /\ UNCHANGED k
       ELSE k' = k + 1 /\ UNCHANGED <<pc, reply>>
  /\ UNCHANGED <<table, inputs, total>>

RuleFails ==
  /\ pc = "decision" /\ k <= Len(table.rules)
  /\ ~Rule.default /\ MeetsWhen(Rule, inputs) = "no"
  /\ k' = k + 1
  /\ UNCHANGED <<table, pc, inputs, matched, total, reply>>

RuleRaises ==
  /\ pc = "decision" /\ k <= Len(table.rules)
  /\ ~Rule.default /\ MeetsWhen(Rule, inputs) = "raises"
  /\ Reply(Raised)
  /\ UNCHANGED <<table, inputs, k, matched, total>>

\* matched.sort(key=priority)[0]: the sort is stable.
Foremost ==
  LET prio(i) == table.rules[matched[i]].priority
      before(i, j) == prio(i) < prio(j) \/ (prio(i) = prio(j) /\ i <= j)
  IN  matched[CHOOSE i \in DOMAIN matched : \A j \in DOMAIN matched : before(i, j)]

Outcome ==
  IF matched = <<>> THEN OneOf(0)
  ELSE IF table.hit_policy = "PRIORITY" THEN OneOf(Foremost)
  ELSE IF table.hit_policy \in {"ALL", "COLLECT"} THEN AllOf(matched)
  ELSE OneOf(matched[1])

RulesEnd ==
  /\ pc = "decision" /\ k > Len(table.rules)
  /\ Reply(Outcome)
  /\ UNCHANGED <<table, inputs, k, matched, total>>

Factor == table.factors[k]

\* inputs.get(name) is not None.
Given(f) == f.name \in DOMAIN inputs /\ inputs[f.name].type # "none"

\* Wrong on purpose: the last range that holds decides.
LastDecisive(f, value) ==
  LET stops == {j \in DOMAIN f.ranges : ParseCondition(f.ranges[j], value) # "no"}
  IN  IF stops = {} THEN 0 ELSE CHOOSE j \in stops : \A i \in stops : i <= j

\* The first range that does not say no, if there is one.
Decisive(f, value) ==
  LET says(j) == ParseCondition(f.ranges[j], value)
      stops == {j \in DOMAIN f.ranges : says(j) # "no"}
  IN  IF stops = {} THEN 0 ELSE CHOOSE j \in stops : \A i \in stops : j <= i

\* _evaluate_scoring: one factor.
FactorCounts ==
  /\ pc = "scoring" /\ k <= Len(table.factors)
  /\ LET j == IF Given(Factor) THEN Decisive(Factor, inputs[Factor.name]) ELSE 0
     IN  /\ j # 0 => ParseCondition(Factor.ranges[j], inputs[Factor.name]) = "yes"
         /\ total' = total + (IF j = 0 THEN 0 ELSE Factor.ranges[j].points * Factor.weight)
  /\ k' = k + 1
  /\ UNCHANGED <<table, pc, inputs, matched, reply>>

FactorRaises ==
  /\ pc = "scoring" /\ k <= Len(table.factors)
  /\ Given(Factor)
  /\ LET j == Decisive(Factor, inputs[Factor.name])
     IN  j # 0 /\ ParseCondition(Factor.ranges[j], inputs[Factor.name]) = "raises"
  /\ Reply(Raised)
  /\ UNCHANGED <<table, inputs, k, matched, total>>

FactorsEnd ==
  /\ pc = "scoring" /\ k > Len(table.factors)
  /\ Reply(ScoreOf(total))
  /\ UNCHANGED <<table, inputs, k, matched, total>>

\* The caller takes the reply; the locals of the call are gone.
TakeReply ==
  /\ pc = "replied"
  /\ pc' = "idle" /\ inputs' = <<>> /\ k' = 1 /\ matched' = <<>> /\ total' = 0 /\ reply' = NoReply
  /\ UNCHANGED table

Loop ==
  \/ RuleMatches \/ RuleFails \/ RuleRaises \/ RulesEnd
  \/ FactorCounts \/ FactorRaises \/ FactorsEnd

Next ==
  \/ \E t \in Tables : RegisterTable(t)
  \/ Clear
  \/ \E x \in Inputs : Evaluate(x)
  \/ Loop
  \/ TakeReply

Spec == Init /\ [][Next]_vars

-----------------------------------------------------------------------------
(* The reference: what the table says, without a loop.                     *)

\* The bound as it is written, beside a value.
Written(value, text) ==
  CASE value.type = "str" -> Rank[text]
    [] value.type = "bool" -> IF text = TrueText THEN 1 ELSE 0
    [] OTHER -> Numbers[text]

Readable(value, text) ==
  \/ value.type \in {"str", "bool"}
  \/ value.type \in {"int", "float"} /\ text \in DOMAIN Numbers

\* A value meets a condition as it is written.
Meets(value, c) ==
  \/ c.op = "is" /\ Str[value] = c.bound
  \/ /\ c.op \notin {"is", "object"} /\ Readable(value, c.bound)
     /\ Compare(c.op, Place(value), Written(value, c.bound))

\* Conditions that are read as something else without an exception: '>=b' of
\* a string is '>' and '=b', and every bound of a truth value but '' is true.
Misread(c, value) ==
  \/ c.op \in {">=", "<="} /\ value.type \in {"str", "bool"}
  \/ c.op \notin {"is", "object"} /\ value.type = "bool" /\ c.bound # TrueText

Holds(c, x) == c.field \in DOMAIN x /\ Meets(x[c.field], c)

Fits(rule, x) == \A j \in DOMAIN rule.when : Holds(rule.when[j], x)

Fitting == {i \in DOMAIN table.rules : ~table.rules[i].default /\ Fits(table.rules[i], inputs)}
Defaults == {i \in DOMAIN table.rules : table.rules[i].default}
Hits == Fitting \cup Defaults

Least(S) == IF S = {} THEN 0 ELSE CHOOSE i \in S : \A j \in S : i <= j

Urgent == {i \in Hits : \A j \in Hits : table.rules[i].priority <= table.rules[j].priority}

Range(s) == {s[i] : i \in DOMAIN s}
Ascending(s) == \A i, j \in DOMAIN s : i < j => s[i] < s[j]

RightDecision ==
  /\ table.hit_policy = "FIRST" =>
       reply.outcome = IF Fitting # {} THEN Least(Fitting) ELSE Least(Defaults)
  /\ table.hit_policy = "PRIORITY" => reply.outcome = Least(Urgent)
  /\ reply.kind = "all" =>
       reply.outcome = matched /\ Ascending(matched) /\ Range(matched) = Hits
  /\ reply.kind = "one" => reply.outcome \in {0} \cup Range(matched)

Decided == pc = "replied" /\ reply.kind \in {"one", "all"}

LegibleRule(rule, x) ==
  \A j \in DOMAIN rule.when :
    rule.when[j].field \in DOMAIN x => ~Misread(rule.when[j], x[rule.when[j].field])

LegibleRules == \A i \in DOMAIN table.rules : LegibleRule(table.rules[i], inputs)

(* The outcome of a decision table is the one its hit policy names:        *)
(* FIRST - the first rule whose conditions hold, and the first default     *)
(* only when there is none, wherever the defaults stand; PRIORITY - the    *)
(* first of those with the least priority, defaults included; ALL and      *)
(* COLLECT - every match in the order of the table.  matched_rules         *)
(* contains the rule that decided.  Conditions hold as they are written,   *)
(* for numbers and strings, and None; an answer can be wrong only if one   *)
(* compares a string by '>=' or '<=', or a truth value by anything but     *)
(* 'True' (_evaluate_decision, _parse_condition).                          *)
DecisionIsRight == Decided /\ LegibleRules => RightDecision

(* Every decision is right by what its table says, as "Parse a condition   *)
(* string like '>500000' and test against a value" has it                  *)
(* (_parse_condition).                                                     *)
NoConditionIsMisread == Decided => RightDecision

Points(f) ==
  LET hold == {j \in DOMAIN f.ranges : Given(f) /\ Meets(inputs[f.name], f.ranges[j])}
  IN  IF hold = {} THEN 0 ELSE f.ranges[Least(hold)].points * f.weight

LegibleFactor(f) ==
  Given(f) => \A j \in DOMAIN f.ranges : ~Misread(f.ranges[j], inputs[f.name])

LegibleFactors == \A i \in DOMAIN table.factors : LegibleFactor(table.factors[i])

ScoreUpTo[n \in Nat] == IF n = 0 THEN 0 ELSE ScoreUpTo[n - 1] + Points(table.factors[n])

(* The score is the weighted sum, over the factors that the inputs give,   *)
(* of the points of the first range that holds as it is written, unless a  *)
(* range is one of those that DecisionIsRight leaves out                   *)
(* (_evaluate_scoring, _parse_condition).                                  *)
ScoreIsRight ==
  pc = "replied" /\ reply.kind = "score" /\ LegibleFactors =>
    reply.outcome = ScoreUpTo[Len(table.factors)]

(* An evaluation of a registered table answers; the table of operators     *)
(* lists >= and <=, and the scoring matrix of the documentation uses <=.   *)
EveryTableAnswers == pc = "replied" /\ table # NoTable => reply # Raised

=============================================================================
