----------------------------- MODULE MCToolRunner -----------------------------
(***************************************************************************)
(* Two calls that need the only thread of the executor, and one that does  *)
(* not.                                                                    *)
(***************************************************************************)
EXTENDS ToolRunner, TLC

CONSTANTS k1, k2, k3
=============================================================================
