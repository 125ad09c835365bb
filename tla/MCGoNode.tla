------------------------------ MODULE MCGoNode ------------------------------
(* A small instance of GoNode for TLC, whose times are as tight as they may be.*)
EXTENDS GoNode

\* An agent and a tool, registered in two calls.
MCOffers ==
  {[x \in Category |-> IF x = "agents" THEN Cap ELSE {}],
   [x \in Category |-> IF x = "tools" THEN Cap ELSE {}]}
=============================================================================
