---------------------------- MODULE MCAgentThread ----------------------------
(***************************************************************************)
(* Two runs, which meet on a stored thread, meet on a thread that does not *)
(* exist yet, or do not meet.                                              *)
(***************************************************************************)
EXTENDS AgentThread, TLC

CONSTANTS r1, r2, old, young

MCRun    == {r1, r2}
MCThread == {old, young}

MCContexts ==
  {(r1 :> old) @@ (r2 :> old), (r1 :> young) @@ (r2 :> young), (r1 :> old) @@ (r2 :> None)}
=============================================================================
