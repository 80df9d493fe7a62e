----------------------------- MODULE MCMemoryTiers -----------------------------
(***************************************************************************)
(* Three runs of one user: two alike on one thread, and one that has only  *)
(* a session, whose id is the thread's with something after a colon.  With *)
(* one entry to load, the entry of the first run that saves hides that of  *)
(* the second from the third, also when it is deleted before it is read.   *)
(***************************************************************************)
EXTENDS MemoryTiers

CONSTANTS r1, r2, r3, t, s, s2, u1

MCRuns == {r1, r2, r3}
MCThreadOf == (r1 :> t) @@ (r2 :> t) @@ (r3 :> None)
MCSessionOf == (r1 :> s) @@ (r2 :> s) @@ (r3 :> s2)
MCUserOf == [r \in MCRuns |-> u1]
MCWithin == {<<s2, t>>}
MCSymmetry == Permutations({r1, r2})
=============================================================================
