-------------------------- MODULE MCSupervisorGraph --------------------------
(* SupervisorGraph on small instances. *)
EXTENDS SupervisorGraph

\* The failures the agents' code lets through to the nodes.
FaultsAsWritten ==
    [planner |-> {"error"}, coder |-> {"error", "guardrail"},
     reviewer |-> {"error"}, qa |-> {"error"}]

\* The failures the nodes have handlers for.
FaultsHandled == [a \in Agents |-> IF a = "planner" THEN {"error", "validation"}
                                   ELSE FaultKinds]
=============================================================================
