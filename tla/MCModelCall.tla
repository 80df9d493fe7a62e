---------------------------- MODULE MCModelCall -----------------------------
(* A thread of three turns, with the second one given to any provider, and *)
(* a client's conversation of two turns with any two.                      *)
EXTENDS ModelCall

Threads ==
  {[style |-> "agent", backends |-> <<p, q, p>>, results |-> "each"] : p, q \in Provider}

Clients ==
  {[style |-> "client", backends |-> <<p, q>>, results |-> form] :
     p, q \in Provider, form \in {"each", "together"}}

AllTalks == Threads \cup Clients
=============================================================================
