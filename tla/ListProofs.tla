------------------------------- MODULE ListProofs -------------------------------
(***************************************************************************)
(* Induction over numbers and sequences, for a set instead of a property,  *)
(* and what filtering a list does, one element after the other.            *)
(***************************************************************************)
EXTENDS Lists, SequencesExt, SequenceTheorems, WellFoundedInduction, TLAPS

\* Induction over the natural numbers, for a set of them.
LEMMA SetInduction ==
  ASSUME NEW S \in SUBSET Nat, 0 \in S, \A n \in S : n + 1 \in S
  PROVE  S = Nat
<1>. SUFFICES ASSUME Nat \ S # {} PROVE FALSE
  OBVIOUS
<1>. DEFINE below == {ss \in Nat \X Nat : ss[1] < ss[2]}
<1>1. PICK x \in Nat \ S : \A y \in Nat \ S : <<y, x>> \notin OpToRel(<, Nat)
  BY NatLessThanWellFounded, WFMin, Zenon
<1>2. OpToRel(<, Nat) = below
  BY DEF OpToRel
<1>3. x - 1 \in Nat /\ x - 1 < x /\ x = (x - 1) + 1
  <2>1. x # 0
    OBVIOUS
  <2>. QED  BY <2>1
<1>4. x - 1 \notin S
  BY <1>3
<1>5. <<x - 1, x>> \in below
  <2>1. <<x - 1, x>> \in Nat \X Nat /\ <<x - 1, x>>[1] < <<x - 1, x>>[2]
    BY <1>3
  <2>. QED  BY <2>1, Zenon
<1>. QED  BY <1>1, <1>2, <1>3, <1>4, <1>5, Zenon

\* g has filtered the first n elements of s.
Filters(g, s, S, n) ==
  g = [i \in 0..n |-> IF i = 0 THEN << >>
                      ELSE IF s[i] \in S THEN Append(g[i - 1], s[i]) ELSE g[i - 1]]

LEMMA FilterGrows ==
  ASSUME NEW s, NEW S, NEW n \in Nat, NEW g, Filters(g, s, S, n)
  PROVE  \E h : Filters(h, s, S, n + 1)
<1>. DEFINE step(f, i) == IF s[i] \in S THEN Append(f[i - 1], s[i]) ELSE f[i - 1]
            h == [i \in 0..(n + 1) |-> IF i = n + 1 THEN step(g, n + 1) ELSE g[i]]
<1>1. ASSUME NEW i \in 0..(n + 1) PROVE h[i] = IF i = 0 THEN << >> ELSE step(h, i)
  <2>1. CASE i = n + 1
    <3>1. h[n] = g[n] /\ i # 0 /\ i - 1 = n
      BY <2>1
    <3>. QED  BY <2>1, <3>1
  <2>2. CASE i # n + 1
    <3>1. i \in 0..n /\ (i # 0 => i - 1 \in 0..n /\ i - 1 # n + 1 /\ i - 1 \in 0..(n + 1))
      BY <2>2
    <3>2. g[i] = IF i = 0 THEN << >> ELSE step(g, i)
      BY <3>1 DEF Filters
    <3>. QED  BY <2>2, <3>1, <3>2
  <2>. QED  BY <2>1, <2>2
<1>2. h = [i \in 0..(n + 1) |-> IF i = 0 THEN << >> ELSE step(h, i)]
  <2>1. h = [i \in 0..(n + 1) |-> h[i]]
    OBVIOUS
  <2>. HIDE DEF h
  <2>. QED  BY <1>1, <2>1
<1>3. Filters(h, s, S, n + 1)
  <2>. HIDE DEF h
  <2>. QED  BY <1>2 DEF Filters
<1>. QED  BY <1>3

LEMMA KeepFilters ==
  ASSUME NEW s, NEW S, Len(s) \in Nat
  PROVE  \E g : Filters(g, s, S, Len(s)) /\ Keep(s, S) = g[Len(s)]
<1>. DEFINE fine == {n \in Nat : \E g : Filters(g, s, S, n)}
<1>1. 0 \in fine
  <2>1. Filters([i \in 0..0 |-> << >>], s, S, 0)
    <3>1. \A i \in 0..0 : i = 0
      OBVIOUS
    <3>. QED  BY <3>1 DEF Filters
  <2>. QED  BY <2>1
<1>2. \A n \in fine : n + 1 \in fine
  BY FilterGrows
<1>3. fine = Nat
  <2>. HIDE DEF fine
  <2>1. fine \in SUBSET Nat
    BY DEF fine
  <2>. QED  BY <1>1, <1>2, <2>1, SetInduction
<1>4. Keep(s, S) = (CHOOSE g : Filters(g, s, S, Len(s)))[Len(s)]
  BY DEF Keep, Filters
<1>. QED  BY <1>3, <1>4

\* Induction over sequences by their last element.
LEMMA SeqInduction ==
  ASSUME NEW T, NEW P \in SUBSET Seq(T), << >> \in P,
         \A s \in P, e \in T : Append(s, e) \in P
  PROVE  P = Seq(T)
<1>. DEFINE fine == {n \in Nat : \A s \in Seq(T) : Len(s) = n => s \in P}
<1>1. 0 \in fine
  <2>1. \A s \in Seq(T) : Len(s) = 0 => s = << >>
    OBVIOUS
  <2>. QED  BY <2>1
<1>2. ASSUME NEW n \in fine PROVE n + 1 \in fine
  <2>. SUFFICES ASSUME NEW s \in Seq(T), Len(s) = n + 1 PROVE s \in P
    OBVIOUS
  <2>1. PICK t : t = [i \in 1..n |-> s[i]]
    OBVIOUS
  <2>2. t \in Seq(T) /\ Len(t) = n
    BY <2>1
  <2>3. s = Append(t, s[n + 1]) /\ s[n + 1] \in T
    BY <2>1, <2>2
  <2>4. t \in P
    BY <2>2
  <2>. QED  BY <2>3, <2>4
<1>3. fine = Nat
  <2>. HIDE DEF fine
  <2>1. fine \in SUBSET Nat
    BY DEF fine
  <2>. QED  BY <1>1, <1>2, <2>1, SetInduction
<1>. QED
  <2>1. ASSUME NEW s \in Seq(T) PROVE s \in P
    <3>1. Len(s) \in fine
      BY <1>3
    <3>. QED  BY <3>1
  <2>. QED  BY <2>1

-----------------------------------------------------------------------------
\* What a filter has kept up to some element is determined.
Filtered(g, s, S, n) ==
  \A i \in 0..n :
    g[i] = IF i = 0 THEN << >> ELSE IF s[i] \in S THEN Append(g[i - 1], s[i]) ELSE g[i - 1]

LEMMA FilterIsUnique ==
  ASSUME NEW s, NEW S, NEW n \in Nat, NEW g, NEW h,
         Filtered(g, s, S, n), Filtered(h, s, S, n)
  PROVE  g[n] = h[n]
<1>. DEFINE fine == {k \in Nat : k <= n => g[k] = h[k]}
<1>1. 0 \in fine
  BY DEF Filtered
<1>2. ASSUME NEW k \in fine, k + 1 <= n PROVE g[k + 1] = h[k + 1]
  <2>1. k + 1 \in 0..n /\ k + 1 # 0 /\ (k + 1) - 1 = k /\ g[k] = h[k]
    BY <1>2
  <2>. QED  BY <2>1 DEF Filtered
<1>3. fine = Nat
  <2>1. fine \in SUBSET Nat /\ \A k \in fine : k + 1 \in fine
    BY <1>2
  <2>. HIDE DEF fine
  <2>. QED  BY <1>1, <2>1, SetInduction
<1>. QED  BY <1>3

LEMMA KeepEmpty ==
  ASSUME NEW S
  PROVE  Keep(<< >>, S) = << >>
<1>1. Len(<< >>) = 0
  OBVIOUS
<1>2. PICK g : Filters(g, << >>, S, 0) /\ Keep(<< >>, S) = g[0]
  BY <1>1, KeepFilters
<1>. QED  BY <1>2 DEF Filters

LEMMA KeepAppend ==
  ASSUME NEW T, NEW s \in Seq(T), NEW e \in T, NEW S
  PROVE  Keep(Append(s, e), S) = IF e \in S THEN Append(Keep(s, S), e) ELSE Keep(s, S)
<1>1. PICK u : u = Append(s, e)
  OBVIOUS
<1>2. PICK n \in Nat : n = Len(s)
  OBVIOUS
<1>3. Len(u) = n + 1 /\ u[n + 1] = e /\ \A i \in 1..n : u[i] = s[i]
  BY <1>1, <1>2
<1>4. PICK g : Filters(g, s, S, n) /\ Keep(s, S) = g[n]
  BY <1>2, KeepFilters
<1>5. PICK h : Filters(h, u, S, n + 1) /\ Keep(u, S) = h[n + 1]
  BY <1>3, KeepFilters
<1>6. \A i \in 0..(n + 1) :
        h[i] = IF i = 0 THEN << >> ELSE IF u[i] \in S THEN Append(h[i - 1], u[i]) ELSE h[i - 1]
  BY <1>5 DEF Filters
<1>7. g[n] = h[n]
  <2>1. Filtered(g, s, S, n)
    BY <1>4 DEF Filters, Filtered
  <2>2. Filtered(h, s, S, n)
    <3>. SUFFICES ASSUME NEW i \in 0..n
                  PROVE  h[i] = IF i = 0 THEN << >>
                                ELSE IF s[i] \in S THEN Append(h[i - 1], s[i]) ELSE h[i - 1]
      BY DEF Filtered
    <3>1. i \in 0..(n + 1) /\ (i # 0 => i \in 1..n)
      OBVIOUS
    <3>2. i # 0 => u[i] = s[i]
      BY <1>3, <3>1
    <3>. QED  BY <1>6, <3>1, <3>2
  <2>. QED  BY <2>1, <2>2, FilterIsUnique
<1>8. h[n + 1] = IF e \in S THEN Append(h[n], e) ELSE h[n]
  <2>1. n + 1 \in 0..(n + 1) /\ n + 1 # 0 /\ (n + 1) - 1 = n
    OBVIOUS
  <2>. QED  BY <1>3, <1>6, <2>1
<1>. QED  BY <1>1, <1>4, <1>5, <1>7, <1>8

LEMMA KeepType ==
  ASSUME NEW T, NEW s \in Seq(T), NEW S
  PROVE  Keep(s, S) \in Seq(T \cap S)
<1>. DEFINE P == {t \in Seq(T) : Keep(t, S) \in Seq(T \cap S)}
<1>1. << >> \in P
  BY KeepEmpty, EmptySeq
<1>2. ASSUME NEW t \in P, NEW e \in T PROVE Append(t, e) \in P
  <2>1. Keep(Append(t, e), S) = IF e \in S THEN Append(Keep(t, S), e) ELSE Keep(t, S)
    BY KeepAppend
  <2>2. e \in S => Append(Keep(t, S), e) \in Seq(T \cap S)
    OBVIOUS
  <2>3. Append(t, e) \in Seq(T)
    OBVIOUS
  <2>. QED  BY <2>1, <2>2, <2>3
<1>3. P = Seq(T)
  <2>. HIDE DEF P
  <2>1. P \in SUBSET Seq(T)
    BY DEF P
  <2>. QED  BY <1>1, <1>2, <2>1, SeqInduction
<1>. QED  BY <1>3

LEMMA KeepIsSeq ==
  ASSUME NEW T, NEW s \in Seq(T), NEW S
  PROVE  Keep(s, S) \in Seq(T)
<1>1. Keep(s, S) \in Seq(T \cap S) /\ (T \cap S) \subseteq T
  BY KeepType
<1>. QED  BY <1>1, SeqMonotonic

LEMMA KeepConcat ==
  ASSUME NEW T, NEW s \in Seq(T), NEW u \in Seq(T), NEW S
  PROVE  Keep(s \o u, S) = Keep(s, S) \o Keep(u, S)
<1>. DEFINE P == {t \in Seq(T) : Keep(s \o t, S) = Keep(s, S) \o Keep(t, S)}
<1>1. << >> \in P
  <2>1. s \o << >> = s /\ Keep(s, S) \in Seq(T)
    BY KeepIsSeq
  <2>2. Keep(s, S) \o << >> = Keep(s, S)
    BY <2>1
  <2>. QED  BY <2>1, <2>2, KeepEmpty
<1>2. ASSUME NEW t \in P, NEW e \in T PROVE Append(t, e) \in P
  <2>1. /\ Append(t, e) \in Seq(T) /\ s \o t \in Seq(T)
        /\ s \o Append(t, e) = Append(s \o t, e)
    OBVIOUS
  <2>2. /\ Keep(Append(t, e), S) = IF e \in S THEN Append(Keep(t, S), e) ELSE Keep(t, S)
        /\ Keep(Append(s \o t, e), S) =
             IF e \in S THEN Append(Keep(s \o t, S), e) ELSE Keep(s \o t, S)
    <3>1. PICK v \in Seq(T) : v = s \o t
      BY <2>1
    <3>2. Keep(Append(v, e), S) = IF e \in S THEN Append(Keep(v, S), e) ELSE Keep(v, S)
      BY KeepAppend
    <3>3. Keep(Append(t, e), S) = IF e \in S THEN Append(Keep(t, S), e) ELSE Keep(t, S)
      BY KeepAppend
    <3>. QED  BY <3>1, <3>2, <3>3
  <2>3. /\ Keep(s, S) \in Seq(T) /\ Keep(t, S) \in Seq(T)
    BY KeepIsSeq
  <2>4. Keep(s, S) \o Append(Keep(t, S), e) = Append(Keep(s, S) \o Keep(t, S), e)
    BY <2>3
  <2>. QED  BY <2>1, <2>2, <2>4
<1>3. P = Seq(T)
  <2>. HIDE DEF P
  <2>1. P \in SUBSET Seq(T)
    BY DEF P
  <2>. QED  BY <1>1, <1>2, <2>1, SeqInduction
<1>. QED  BY <1>3

\* Filtering twice is filtering by both.
LEMMA KeepKeep ==
  ASSUME NEW T, NEW s \in Seq(T), NEW R, NEW S
  PROVE  Keep(Keep(s, R), S) = Keep(s, R \cap S)
<1>. DEFINE P == {t \in Seq(T) : Keep(Keep(t, R), S) = Keep(t, R \cap S)}
<1>1. << >> \in P
  BY KeepEmpty
<1>2. ASSUME NEW t \in P, NEW e \in T PROVE Append(t, e) \in P
  <2>1. Append(t, e) \in Seq(T)
    OBVIOUS
  <2>2. PICK w \in Seq(T) : w = Keep(t, R)
    BY KeepIsSeq
  <2>3. Keep(Append(t, e), R) = IF e \in R THEN Append(w, e) ELSE w
    BY <2>2, KeepAppend
  <2>4. Keep(Append(w, e), S) = IF e \in S THEN Append(Keep(w, S), e) ELSE Keep(w, S)
    BY KeepAppend
  <2>5. Keep(Append(t, e), R \cap S) =
          IF e \in R \cap S THEN Append(Keep(t, R \cap S), e) ELSE Keep(t, R \cap S)
    <3>1. PICK Q : Q = R \cap S
      OBVIOUS
    <3>2. Keep(Append(t, e), Q) = IF e \in Q THEN Append(Keep(t, Q), e) ELSE Keep(t, Q)
      BY KeepAppend
    <3>. QED  BY <3>1, <3>2
  <2>6. Keep(w, S) = Keep(t, R \cap S)
    BY <2>2
  <2>7. Keep(Keep(Append(t, e), R), S) = Keep(Append(t, e), R \cap S)
    <3>1. CASE e \in R
      <4>1. Keep(Append(t, e), R) = Append(w, e)
        BY <2>3, <3>1, Zenon
      <4>2. e \in R \cap S <=> e \in S
        BY <3>1
      <4>. QED  BY <2>4, <2>5, <2>6, <4>1, <4>2, Zenon
    <3>2. CASE e \notin R
      BY <2>3, <2>5, <2>6, <3>2, Zenon
    <3>. QED  BY <3>1, <3>2
  <2>. QED  BY <2>1, <2>7
<1>3. P = Seq(T)
  <2>. HIDE DEF P
  <2>1. P \in SUBSET Seq(T)
    BY DEF P
  <2>. QED  BY <1>1, <1>2, <2>1, SeqInduction
<1>. QED  BY <1>3

\* What is filtered out makes no difference.
LEMMA KeepSame ==
  ASSUME NEW T, NEW s \in Seq(T), NEW R, NEW S, T \cap R = T \cap S
  PROVE  Keep(s, R) = Keep(s, S)
<1>. DEFINE P == {t \in Seq(T) : Keep(t, R) = Keep(t, S)}
<1>1. << >> \in P
  BY KeepEmpty
<1>2. ASSUME NEW t \in P, NEW e \in T PROVE Append(t, e) \in P
  <2>1. /\ Keep(Append(t, e), R) = IF e \in R THEN Append(Keep(t, R), e) ELSE Keep(t, R)
        /\ Keep(Append(t, e), S) = IF e \in S THEN Append(Keep(t, S), e) ELSE Keep(t, S)
    BY KeepAppend
  <2>2. e \in R <=> e \in S
    OBVIOUS
  <2>. QED  BY <2>1, <2>2
<1>3. P = Seq(T)
  <2>. HIDE DEF P
  <2>1. P \in SUBSET Seq(T)
    BY DEF P
  <2>. QED  BY <1>1, <1>2, <2>1, SeqInduction
<1>. QED  BY <1>3

LEMMA KeepAll ==
  ASSUME NEW S, NEW s \in Seq(S)
  PROVE  Keep(s, S) = s
<1>. DEFINE P == {t \in Seq(S) : Keep(t, S) = t}
<1>1. << >> \in P
  BY KeepEmpty
<1>2. ASSUME NEW t \in P, NEW e \in S PROVE Append(t, e) \in P
  BY KeepAppend
<1>3. P = Seq(S)
  <2>. HIDE DEF P
  <2>1. P \in SUBSET Seq(S)
    BY DEF P
  <2>. QED  BY <1>1, <1>2, <2>1, SeqInduction
<1>. QED  BY <1>3

LEMMA KeepNone ==
  ASSUME NEW T, NEW s \in Seq(T), NEW S, T \cap S = {}
  PROVE  Keep(s, S) = << >>
<1>1. Keep(s, S) \in Seq({})
  BY KeepType
<1>2. \A t \in Seq({}) : t = << >>
  BY EmptySeq, LenProperties, ElementOfSeq
<1>. QED  BY <1>1, <1>2

LEMMA KeepOne ==
  ASSUME NEW e, NEW S
  PROVE  Keep(<<e>>, S) = IF e \in S THEN <<e>> ELSE << >>
<1>1. << >> \in Seq({e}) /\ Append(<< >>, e) = <<e>> /\ e \in {e}
  BY EmptySeq
<1>2. Keep(Append(<< >>, e), S) = IF e \in S THEN Append(Keep(<< >>, S), e) ELSE Keep(<< >>, S)
  BY <1>1, KeepAppend, Zenon
<1>. QED  BY <1>1, <1>2, KeepEmpty, Zenon

-----------------------------------------------------------------------------
(* FlattenSeq, of the community modules.                                   *)

\* g has joined the first n sequences of ss.
Flattens(g, ss, n) ==
  g = [i \in 1..n |-> IF i = 1 THEN ss[i] ELSE g[i - 1] \o ss[i]]

Flattened(g, ss, n) ==
  \A i \in 1..n : g[i] = IF i = 1 THEN ss[i] ELSE g[i - 1] \o ss[i]

LEMMA FlattenGrows ==
  ASSUME NEW ss, NEW n \in Nat, NEW g, Flattens(g, ss, n)
  PROVE  \E h : Flattens(h, ss, n + 1)
<1>. DEFINE step(f, i) == IF i = 1 THEN ss[i] ELSE f[i - 1] \o ss[i]
            h == [i \in 1..(n + 1) |-> IF i = n + 1 THEN step(g, n + 1) ELSE g[i]]
<1>1. ASSUME NEW i \in 1..(n + 1) PROVE h[i] = step(h, i)
  <2>1. CASE i = n + 1
    <3>1. i = 1 \/ (h[n] = g[n] /\ i - 1 = n)
      BY <2>1
    <3>. QED  BY <2>1, <3>1
  <2>2. CASE i # n + 1
    <3>1. i \in 1..n /\ (i # 1 => i - 1 \in 1..n /\ i - 1 # n + 1 /\ i - 1 \in 1..(n + 1))
      BY <2>2
    <3>2. g[i] = step(g, i)
      BY <3>1 DEF Flattens
    <3>. QED  BY <2>2, <3>1, <3>2
  <2>. QED  BY <2>1, <2>2
<1>2. h = [i \in 1..(n + 1) |-> step(h, i)]
  <2>1. h = [i \in 1..(n + 1) |-> h[i]]
    OBVIOUS
  <2>. HIDE DEF h
  <2>. QED  BY <1>1, <2>1
<1>3. Flattens(h, ss, n + 1)
  <2>. HIDE DEF h
  <2>. QED  BY <1>2 DEF Flattens
<1>. QED  BY <1>3

LEMMA SeqFlattens ==
  ASSUME NEW ss, Len(ss) \in Nat, Len(ss) # 0
  PROVE  \E g : Flattens(g, ss, Len(ss)) /\ FlattenSeq(ss) = g[Len(ss)]
<1>. DEFINE fine == {n \in Nat : \E g : Flattens(g, ss, n)}
<1>1. 0 \in fine
  <2>1. Flattens([i \in 1..0 |-> << >>], ss, 0)
    <3>1. 1..0 = {}
      OBVIOUS
    <3>. QED  BY <3>1 DEF Flattens
  <2>. QED  BY <2>1
<1>2. \A n \in fine : n + 1 \in fine
  BY FlattenGrows
<1>3. fine = Nat
  <2>. HIDE DEF fine
  <2>1. fine \in SUBSET Nat
    BY DEF fine
  <2>. QED  BY <1>1, <1>2, <2>1, SetInduction
<1>4. FlattenSeq(ss) = (CHOOSE g : Flattens(g, ss, Len(ss)))[Len(ss)]
  BY DEF FlattenSeq, Flattens
<1>. QED  BY <1>3, <1>4

LEMMA FlattenIsUnique ==
  ASSUME NEW ss, NEW n \in Nat \ {0}, NEW g, NEW h, Flattened(g, ss, n), Flattened(h, ss, n)
  PROVE  g[n] = h[n]
<1>. DEFINE fine == {k \in Nat : k + 1 <= n => g[k + 1] = h[k + 1]}
<1>1. 0 \in fine
  BY DEF Flattened
<1>2. ASSUME NEW k \in fine, (k + 1) + 1 <= n PROVE g[(k + 1) + 1] = h[(k + 1) + 1]
  <2>1. /\ (k + 1) + 1 \in 1..n /\ (k + 1) + 1 # 1 /\ ((k + 1) + 1) - 1 = k + 1
        /\ g[k + 1] = h[k + 1]
    BY <1>2
  <2>. QED  BY <2>1 DEF Flattened
<1>3. fine = Nat
  <2>1. fine \in SUBSET Nat /\ \A k \in fine : k + 1 \in fine
    BY <1>2
  <2>. HIDE DEF fine
  <2>. QED  BY <1>1, <2>1, SetInduction
<1>4. PICK k \in Nat : n = k + 1
  <2>1. n - 1 \in Nat /\ n = (n - 1) + 1
    OBVIOUS
  <2>. QED  BY <2>1
<1>5. k \in fine
  BY <1>3
<1>. QED  BY <1>4, <1>5

LEMMA FlattenEmpty == FlattenSeq(<< >>) = << >>
BY DEF FlattenSeq

LEMMA FlattenAppend ==
  ASSUME NEW T, NEW ss \in Seq(Seq(T)), NEW e \in Seq(T), FlattenSeq(ss) \in Seq(T)
  PROVE  FlattenSeq(Append(ss, e)) = FlattenSeq(ss) \o e
<1>1. PICK u : u = Append(ss, e)
  OBVIOUS
<1>2. PICK n \in Nat : n = Len(ss)
  OBVIOUS
<1>3. Len(u) = n + 1 /\ u[n + 1] = e /\ \A i \in 1..n : u[i] = ss[i]
  BY <1>1, <1>2
<1>4. PICK h : Flattens(h, u, n + 1) /\ FlattenSeq(u) = h[n + 1]
  BY <1>3, SeqFlattens
<1>5. Flattened(h, u, n + 1)
  BY <1>4 DEF Flattens, Flattened
<1>6. CASE n = 0
  <2>1. FlattenSeq(ss) = << >>
    <3>1. ss = << >>
      BY <1>2, <1>6, EmptySeq
    <3>. QED  BY <3>1, FlattenEmpty
  <2>2. h[1] = e
    BY <1>3, <1>5, <1>6 DEF Flattened
  <2>. QED  BY <1>1, <1>4, <1>6, <2>1, <2>2
<1>7. CASE n # 0
  <2>1. PICK g : Flattens(g, ss, n) /\ FlattenSeq(ss) = g[n]
    BY <1>2, <1>7, SeqFlattens
  <2>2. Flattened(g, ss, n)
    BY <2>1 DEF Flattens, Flattened
  <2>3. Flattened(h, ss, n)
    <3>. SUFFICES ASSUME NEW i \in 1..n
                  PROVE  h[i] = IF i = 1 THEN ss[i] ELSE h[i - 1] \o ss[i]
      BY DEF Flattened
    <3>1. i \in 1..(n + 1) /\ u[i] = ss[i]
      BY <1>3
    <3>. QED  BY <1>5, <3>1 DEF Flattened
  <2>4. g[n] = h[n]
    BY <1>7, <2>2, <2>3, FlattenIsUnique
  <2>5. h[n + 1] = h[n] \o e
    <3>1. n + 1 \in 1..(n + 1) /\ n + 1 # 1 /\ (n + 1) - 1 = n
      BY <1>7
    <3>. QED  BY <1>3, <1>5, <3>1 DEF Flattened
  <2>. QED  BY <1>1, <1>4, <2>1, <2>4, <2>5
<1>. QED  BY <1>6, <1>7

LEMMA FlattenType ==
  ASSUME NEW T, NEW ss \in Seq(Seq(T))
  PROVE  FlattenSeq(ss) \in Seq(T)
<1>. DEFINE P == {tt \in Seq(Seq(T)) : FlattenSeq(tt) \in Seq(T)}
<1>1. << >> \in P
  BY FlattenEmpty, EmptySeq
<1>2. ASSUME NEW tt \in P, NEW e \in Seq(T) PROVE Append(tt, e) \in P
  <2>1. FlattenSeq(Append(tt, e)) = FlattenSeq(tt) \o e
    BY FlattenAppend
  <2>2. FlattenSeq(tt) \o e \in Seq(T) /\ Append(tt, e) \in Seq(Seq(T))
    OBVIOUS
  <2>. QED  BY <2>1, <2>2
<1>3. P = Seq(Seq(T))
  <2>. HIDE DEF P
  <2>1. P \in SUBSET Seq(Seq(T))
    BY DEF P
  <2>. QED  BY <1>1, <1>2, <2>1, SeqInduction
<1>. QED  BY <1>3

LEMMA FlattenConcat ==
  ASSUME NEW T, NEW ss \in Seq(Seq(T)), NEW uu \in Seq(Seq(T))
  PROVE  FlattenSeq(ss \o uu) = FlattenSeq(ss) \o FlattenSeq(uu)
<1>. DEFINE P == {tt \in Seq(Seq(T)) : FlattenSeq(ss \o tt) = FlattenSeq(ss) \o FlattenSeq(tt)}
<1>0. PICK U : U = Seq(T)
  OBVIOUS
<1>1. << >> \in P
  <2>1. << >> \in Seq(U) /\ ss \o << >> = ss
    BY <1>0, EmptySeq, ConcatEmptySeq
  <2>2. FlattenSeq(ss) \o << >> = FlattenSeq(ss)
    BY FlattenType, ConcatEmptySeq
  <2>. QED  BY <1>0, <2>1, <2>2, FlattenEmpty
<1>2. ASSUME NEW tt \in P, NEW e \in Seq(T) PROVE Append(tt, e) \in P
  <2>1. Append(tt, e) \in Seq(U) /\ ss \o Append(tt, e) = Append(ss \o tt, e)
    BY <1>0
  <2>2. PICK v \in Seq(Seq(T)) : v = ss \o tt
    <3>1. ss \in Seq(U) /\ tt \in Seq(U)
      BY <1>0
    <3>2. ss \o tt \in Seq(U)
      BY <3>1
    <3>. QED  BY <1>0, <3>2
  <2>3. /\ FlattenSeq(Append(tt, e)) = FlattenSeq(tt) \o e
        /\ FlattenSeq(Append(v, e)) = FlattenSeq(v) \o e
    BY FlattenAppend, FlattenType
  <2>4. /\ FlattenSeq(ss) \in Seq(T) /\ FlattenSeq(tt) \in Seq(T)
    BY FlattenType
  <2>5. (FlattenSeq(ss) \o FlattenSeq(tt)) \o e = FlattenSeq(ss) \o (FlattenSeq(tt) \o e)
    BY <2>4, ConcatAssociative
  <2>. QED  BY <1>0, <2>1, <2>2, <2>3, <2>5
<1>3. P = Seq(Seq(T))
  <2>. HIDE DEF P
  <2>1. P \in SUBSET Seq(Seq(T))
    BY DEF P
  <2>. QED  BY <1>1, <1>2, <2>1, SeqInduction
<1>. QED  BY <1>3

LEMMA FlattenOne ==
  ASSUME NEW T, NEW s \in Seq(T)
  PROVE  FlattenSeq(<<s>>) = s
<1>1. PICK none : none = << >> /\ none \in Seq(Seq(T)) /\ Append(none, s) = <<s>>
  <2>1. << >> \in Seq(Seq(T)) /\ Append(<< >>, s) = <<s>>
    BY EmptySeq
  <2>. QED  BY <2>1
<1>2. FlattenSeq(none) = << >> /\ << >> \in Seq(T) /\ << >> \o s = s
  BY <1>1, FlattenEmpty, EmptySeq, ConcatEmptySeq
<1>3. FlattenSeq(Append(none, s)) = FlattenSeq(none) \o s
  BY <1>1, <1>2, FlattenAppend
<1>. QED  BY <1>1, <1>2, <1>3

\* One of each is the list itself.
LEMMA FlattenSingles ==
  ASSUME NEW T, NEW s \in Seq(T)
  PROVE  FlattenSeq([i \in DOMAIN s |-> <<s[i]>>]) = s
<1>. DEFINE each(t) == [i \in DOMAIN t |-> <<t[i]>>]
            P == {t \in Seq(T) : FlattenSeq(each(t)) = t /\ each(t) \in Seq(Seq(T))}
<1>1. << >> \in P
  <2>1. each(<< >>) = << >> /\ << >> \in Seq(T)
    BY EmptySeq
  <2>2. << >> \in Seq(Seq(T))
    BY EmptySeq
  <2>. QED  BY <2>1, <2>2, FlattenEmpty
<1>2. ASSUME NEW t \in P, NEW e \in T PROVE Append(t, e) \in P
  <2>1. PICK tt \in Seq(Seq(T)) : tt = each(t)
    OBVIOUS
  <2>2. PICK u \in Seq(T) : u = Append(t, e)
    <3>1. Append(t, e) \in Seq(T)
      OBVIOUS
    <3>. QED  BY <3>1
  <2>3. PICK one \in Seq(T) : one = <<e>>
    <3>1. <<e>> \in Seq(T)
      OBVIOUS
    <3>. QED  BY <3>1
  <2>4. each(u) = Append(tt, one)
    BY <2>1, <2>2, <2>3
  <2>5. FlattenSeq(tt) = t /\ t \in Seq(T)
    BY <2>1
  <2>6. FlattenSeq(Append(tt, one)) = t \o one
    BY <2>5, FlattenAppend
  <2>7. t \o one = u
    BY <2>2, <2>3
  <2>8. Append(tt, one) \in Seq(Seq(T))
    OBVIOUS
  <2>. QED  BY <2>2, <2>4, <2>6, <2>7, <2>8
<1>3. P = Seq(T)
  <2>. HIDE DEF P
  <2>1. P \in SUBSET Seq(T)
    BY DEF P
  <2>. QED  BY <1>1, <1>2, <2>1, SeqInduction
<1>. QED  BY <1>3
=============================================================================
