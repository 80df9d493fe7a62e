-------------------------- MODULE MCHumanTaskQueue --------------------------
(***************************************************************************)
(* Two people who compete for a critical task and for a low one; a list    *)
(* has one line, so the first can hide the second.                         *)
(***************************************************************************)
EXTENDS HumanTaskQueue, TLC

CONSTANTS ann, bob, t1, t2

MCTask   == {t1, t2}
MCUser   == {ann, bob}
MCRank   == (t1 :> 0) @@ (t2 :> 3)
MCServes == (ann :> {t1, t2}) @@ (bob :> {t1, t2})
=============================================================================
