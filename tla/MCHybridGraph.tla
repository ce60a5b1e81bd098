---------------------------- MODULE MCHybridGraph ----------------------------
(* HybridGraph on small instances. *)
EXTENDS HybridGraph

\* The failures the agents' code lets through to the nodes.
FaultsAsWritten ==
    [planner |-> {"error"}, coder |-> {"error", "guardrail"},
     reviewer |-> {"error"}, qa |-> {"error"}]
=============================================================================
