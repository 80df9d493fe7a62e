------------------------------ MODULE MCEventBus ------------------------------
(***************************************************************************)
(* Two of each kind that can race with its like, and one listener that     *)
(* comes and goes; two ids, so that a later request may get a used one.    *)
(***************************************************************************)
EXTENDS EventBus, TLC

CONSTANTS s1, s2, c1, c2, q1, q2, l, i1, i2

MCCasts == {{s1, s2, c1, c2}, {s1, c2, q1}, {q1, q2}}
=============================================================================
