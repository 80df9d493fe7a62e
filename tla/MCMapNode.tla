------------------------------ MODULE MCMapNode ------------------------------
(***************************************************************************)
(* Three items for two slots, so that one waits while others run and       *)
(* raise; one retry, which may run beside what is left of the first        *)
(* attempt, and a second one after it.                                     *)
(***************************************************************************)
EXTENDS MapNode
=============================================================================
