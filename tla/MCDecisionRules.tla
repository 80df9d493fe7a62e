---------------------------- MODULE MCDecisionRules ----------------------------
(***************************************************************************)
(* Decision tables of up to three rules out of seven, under each hit       *)
(* policy, and scoring matrices of up to two factors; one field of numbers *)
(* and one of a string, a truth value or None, either of which may be      *)
(* missing from the inputs.  Numbers are counted in halves.                *)
(***************************************************************************)
EXTENDS DecisionRules, TLC

MCBounds == {"empty", "0", "1", "1.5", "a", "False", "True"}

\* The order of the strings, with '=' between the digits and the letters.
InOrder == <<"empty", "0", "1", "1.5", "2", "=", "=0", "=1", "=1.5", "=False", "=True", "=a",
             "False", "None", "True", "a", "b">>
MCTexts == Range(InOrder)
MCRank == [t \in MCTexts |-> CHOOSE i \in DOMAIN InOrder : InOrder[i] = t]
MCEquals == ("empty" :> "=") @@ ("0" :> "=0") @@ ("1" :> "=1") @@ ("1.5" :> "=1.5")
              @@ ("a" :> "=a") @@ ("False" :> "=False") @@ ("True" :> "=True")
MCNumbers == ("0" :> 0) @@ ("1" :> 2) @@ ("1.5" :> 3) @@ ("2" :> 4)
MCIntegral == {"0", "1", "2"}

Value(type, val) == [type |-> type, val |-> val]
MCStr == (Value("int", 0) :> "0") @@ (Value("int", 2) :> "1") @@ (Value("int", 4) :> "2")
           @@ (Value("float", 3) :> "1.5") @@ (Value("bool", 0) :> "False")
           @@ (Value("bool", 1) :> "True") @@ (Value("str", "a") :> "a")
           @@ (Value("str", "b") :> "b") @@ (Value("none", 0) :> "None")
MCValues == DOMAIN MCStr

MCFields == {"f", "g"}
Of(field) == IF field = "f" THEN {v \in MCValues : v.type \in {"int", "float"}}
             ELSE {v \in MCValues : v.type \notin {"int", "float"}}
MCInputs ==
  {x \in UNION {[D -> MCValues] : D \in SUBSET MCFields} : \A f \in DOMAIN x : x[f] \in Of(f)}

Cond(f, op, b) == [field |-> f, op |-> op, bound |-> b]
When(conds, n) == [default |-> FALSE, when |-> conds, priority |-> n]
Default(n) == [default |-> TRUE, when |-> <<>>, priority |-> n]

MCRules ==
  {Default(999), Default(1),
   When(<<Cond("f", ">", "1")>>, 2),
   When(<<Cond("f", ">", "1.5")>>, 1),
   When(<<Cond("f", "<", "1"), Cond("g", "!=", "a")>>, 1),
   When(<<Cond("g", "is", "a")>>, 2),
   When(<<Cond("f", "==", "0"), Cond("g", ">=", "a")>>, 999)}

UpTo(n, S) == UNION {[1..m -> S] : m \in 0..n}

\* The second last one is the shape of the matrix in the documentation.
In(op, b, points) == [op |-> op, bound |-> b, points |-> points]
MCRanges ==
  {<<>>,
   <<In(">", "1", 7), In(">", "0", 4)>>,
   <<In("!=", "1", 5), In("is", "1", 3)>>,
   <<In(">", "1", 7), In("<=", "1", 1)>>,
   <<In("==", "True", 2), In("object", "empty", 6)>>}

MCFactors == {[name |-> f, weight |-> IF f = "f" THEN 1 ELSE 3, ranges |-> r] :
                f \in MCFields, r \in MCRanges}

MCTables ==
  {[table_type |-> "decision", hit_policy |-> p, rules |-> r] : p \in HitPolicies, r \in UpTo(3, MCRules)}
    \cup {[table_type |-> "scoring", factors |-> s] : s \in UpTo(2, MCFactors)}
=============================================================================
