-------------------------------- MODULE Lists --------------------------------
(***************************************************************************)
(* What the adapters do with their lists in a comprehension.  It is        *)
(* SelectSeq as a function over the positions, which can be proved about.  *)
(***************************************************************************)
EXTENDS Naturals, Sequences

\* [x for x in s if x in S]
Keep(s, S) ==
  LET kept[i \in 0..Len(s)] ==
        IF i = 0 THEN << >>
        ELSE IF s[i] \in S THEN Append(kept[i - 1], s[i]) ELSE kept[i - 1]
  IN  kept[Len(s)]
=============================================================================
