------------------------- MODULE AgentGraph_proofs -------------------------
(* What the two topologies with checkpoints share: the nodes of AgentGraph     *)
(* leave well-typed values, for every value of its constants.                  *)
EXTENDS AgentGraph, TLAPS

\* A route_after_* function names a node, whatever the state.
LEMMA RouteIsANode ==
    ASSUME NEW out, NEW st, NEW onward \in Nodes
    PROVE  Route(out, st, onward) \in Nodes
BY DEF Route, HaltOf, Nodes, AgentNodes, HaltNodes, HitlNodes, EscalationNodes

LEMMA SharedRoutesAreNodes ==
    ASSUME NEW out, NEW st, NEW x
    PROVE  /\ RouteAfterPlanner(out, st) \in Nodes
           /\ RouteAfterQa(out, st, x) \in Nodes
           /\ RouteAfterCommitAndPush(out, st) \in Nodes
BY RouteIsANode
   DEF RouteAfterPlanner, RouteAfterQa, RouteAfterCommitAndPush, Nodes, AgentNodes,
       HaltNodes, HitlNodes

\* A table of counts stays one when one of its counts goes up.
LEMMA CountUpType ==
    ASSUME NEW S, NEW f \in [S -> Nat], NEW k
    PROVE  [f EXCEPT ![k] = @ + 1] \in [S -> Nat]
<1>1. CASE k \in S
  <2>1. f[k] + 1 \in Nat
    BY <1>1
  <2> QED BY <2>1
<1>2. CASE k \notin S
  BY <1>2
<1> QED BY <1>1, <1>2

LEMMA InsertOutcomeType ==
    ASSUME rows \in [RowKinds -> Nat], NEW k, InsertOutcome(k)
    PROVE  rows' \in [RowKinds -> Nat]
BY CountUpType DEF InsertOutcome

\* What an agent turn leaves behind, but for the next node.
Turn == /\ outcome \in Outcomes /\ status \in Statuses
        /\ ProductType /\ TrackerType /\ DatabaseType
        /\ {retries, cost, spent} \subseteq Nat

\* Every way in which the call of an agent can fail leaves well-typed values.
LEMMA FailedTurnTypes ==
    ASSUME Turn, NEW a \in Agents, NEW c \in Nat,
           Failed(a, c) \/ Blocked(a, c) \/ Invalid(a, c) \/ OverBudget(c)
    PROVE  Turn'
<1> USE DEF Turn
<1>1. CASE Failed(a, c)
  <2>1. outcome' \in Outcomes /\ status' \in Statuses /\ ProductType'
    BY <1>1 DEF Failed, ProductType, Statuses, Outcomes, products
  <2>2. TrackerType' /\ DatabaseType'
    BY <1>1 DEF Failed, TrackerType, DatabaseType, tracker, database
  <2>3. {retries, cost, spent}' \subseteq Nat
    BY <1>1 DEF Failed
  <2> QED BY <2>1, <2>2, <2>3
<1>2. CASE Blocked(a, c)
  <2>1. outcome' \in Outcomes /\ status' \in Statuses /\ ProductType'
    BY <1>2 DEF Blocked, ProductType, Statuses, Outcomes, products,
                Escalations
  <2>2. TrackerType' /\ DatabaseType'
    BY <1>2, InsertOutcomeType DEF Blocked, TrackerType, DatabaseType, tracker
  <2>3. {retries, cost, spent}' \subseteq Nat
    BY <1>2 DEF Blocked
  <2> QED BY <2>1, <2>2, <2>3
<1>3. CASE Invalid(a, c)
  <2>1. outcome' \in Outcomes /\ status' \in Statuses /\ ProductType'
    BY <1>3 DEF Invalid, ProductType, Statuses, Outcomes, products,
                Escalations
  <2>2. TrackerType' /\ DatabaseType'
    BY <1>3, CountUpType DEF Invalid, TrackerType, DatabaseType, database
  <2>3. {retries, cost, spent}' \subseteq Nat
    BY <1>3 DEF Invalid
  <2> QED BY <2>1, <2>2, <2>3
<1>4. CASE OverBudget(c)
  <2>1. outcome' \in Outcomes /\ status' \in Statuses /\ ProductType'
    BY <1>4 DEF OverBudget, ProductType, Statuses, Outcomes, products
  <2>2. TrackerType' /\ DatabaseType'
    BY <1>4 DEF OverBudget, TrackerType, DatabaseType, tracker, database
  <2>3. {retries, cost, spent}' \subseteq Nat
    BY <1>4 DEF OverBudget
  <2> QED BY <2>1, <2>2, <2>3
<1> QED BY <1>1, <1>2, <1>3, <1>4

\* So does a turn whose tool calls escalate; the caller's part is assumed.
LEMMA ToolsEscalateTypes ==
    ASSUME TypeOK, NEW c \in Nat, NEW tools, WithinBudget(c), ToolsEscalate(tools),
           pydFails' \in [Agents -> Nat], rejected' \in [DiffHashes -> Nat],
           rejects' \in [DiffHashes -> Nat]
    PROVE  Turn'
<1> USE DEF TypeOK, Turn
<1>1. outcome' \in Outcomes /\ status' \in Statuses /\ ProductType'
  BY DEF ToolsEscalate, ProductType, Statuses, Outcomes, products, Escalations
<1>2. TrackerType'
  BY DEF ToolsEscalate, TrackerType
<1>3. DatabaseType'
  BY InsertOutcomeType DEF ToolsEscalate, DatabaseType
<1>4. {retries, cost, spent}' \subseteq Nat
  BY DEF ToolsEscalate, WithinBudget, CounterType
<1> QED BY <1>1, <1>2, <1>3, <1>4

LEMMA ResetTypes ==
    ASSUME TypeOK, NEW a \in Agents
    PROVE  /\ Resets(a) \in [Agents -> Nat]
           /\ \A tools : ResetUnlessChanged(a, tools) => pydFails' \in [Agents -> Nat]
<1>1. Resets(a) \in [Agents -> Nat]
  BY DEF TypeOK, TrackerType, Resets
<1> QED BY <1>1 DEF TypeOK, TrackerType, ResetUnlessChanged

LEMMA PlannerTurnTypes ==
    ASSUME TypeOK, NEW c \in Nat, PlannerInvalid(c) \/ PlannerDone(c)
    PROVE  Turn'
<1> USE DEF TypeOK, Turn
<1>1. CASE PlannerInvalid(c)
  <2>1. outcome' \in Outcomes /\ status' \in Statuses /\ ProductType'
    BY <1>1 DEF PlannerInvalid, ProductType, Statuses, Outcomes, products,
                Escalations
  <2>2. TrackerType' /\ DatabaseType'
    <3>1. [pydFails EXCEPT !["planner"] = @ + 1] \in [Agents -> Nat]
      BY CountUpType DEF TrackerType
    <3> QED BY <1>1, <3>1 DEF PlannerInvalid, TrackerType, DatabaseType, database
  <2>3. {retries, cost, spent}' \subseteq Nat
    BY <1>1 DEF PlannerInvalid, CounterType
  <2> QED BY <2>1, <2>2, <2>3
<1>2. CASE PlannerDone(c)
  <2>1. outcome' \in Outcomes /\ status' \in Statuses /\ ProductType'
    BY <1>2 DEF PlannerDone, ControlType, ProductType, control
  <2>2. TrackerType' /\ DatabaseType'
    BY <1>2, ResetTypes DEF PlannerDone, TrackerType, DatabaseType, database, Agents
  <2>3. {retries, cost, spent}' \subseteq Nat
    BY <1>2 DEF PlannerDone, WithinBudget, CounterType
  <2> QED BY <2>1, <2>2, <2>3
<1> QED BY <1>1, <1>2

LEMMA QaTurnTypes ==
    ASSUME TypeOK, NEW rep \in {"none", "pass", "fail"}, NEW c \in Nat, NEW tools,
           QaTurn(rep, c, tools)
    PROVE  Turn'
<1> USE DEF TypeOK, Turn
<1>1. WithinBudget(c) /\ rejects' = rejects
  BY DEF QaTurn
<1>2. CASE ToolsEscalate(tools) /\ pydFails' = Resets("qa") /\ UNCHANGED rejected
  BY <1>1, <1>2, ResetTypes, ToolsEscalateTypes DEF Agents, TrackerType
<1>3. CASE /\ report' = rep
           /\ cost' = cost + c
           /\ ResetUnlessChanged("qa", tools)
           /\ fresh' = fresh \cup {"report"}
           /\ UNCHANGED <<control, plan, edit, review, retries, rejected,
                          testFails, fired, database>>
  <2>1. outcome' \in Outcomes /\ status' \in Statuses /\ ProductType'
    BY <1>3 DEF ControlType, ProductType, control
  <2>2. TrackerType' /\ DatabaseType'
    BY <1>1, <1>3, ResetTypes DEF TrackerType, DatabaseType, database, Agents
  <2>3. {retries, cost, spent}' \subseteq Nat
    BY <1>1, <1>3 DEF WithinBudget, CounterType
  <2> QED BY <2>1, <2>2, <2>3
<1> QED BY <1>2, <1>3 DEF QaTurn

LEMMA TypedTurn == TypeOK => Turn
<1> SUFFICES ASSUME TypeOK PROVE Turn
  OBVIOUS
<1>1. {retries, cost, spent} \subseteq Nat
  BY DEF TypeOK, CounterType
<1> QED BY <1>1 DEF TypeOK, ControlType, Turn

\* The agents that both topologies have.
LEMMA SharedAgentTypes ==
    ASSUME TypeOK, RunPlanner \/ RunQa
    PROVE  TypeOK'
<1>1. CallCosts \cup {0} \subseteq Nat /\ CostsOnEdit \subseteq Nat
  BY GraphAssumption DEF GraphAssumption, CostsOnEdit
<1>2. CASE RunPlanner
  <2>1. Turn'
    BY <1>1, <1>2, TypedTurn, FailedTurnTypes, PlannerTurnTypes DEF RunPlanner, Agents
  <2>2. node' \in Nodes /\ UNCHANGED <<paused, github, turns>>
    BY <1>2, SharedRoutesAreNodes DEF RunPlanner
  <2> QED BY <2>1, <2>2 DEF Turn, TypeOK, ControlType, CounterType, github
<1>3. CASE RunQa
  <2>1. Turn'
    BY <1>1, <1>3, TypedTurn, FailedTurnTypes, QaTurnTypes DEF RunQa, Agents
  <2>2. node' \in Nodes /\ UNCHANGED <<paused, github, turns>>
    BY <1>3, SharedRoutesAreNodes DEF RunQa
  <2> QED BY <2>1, <2>2 DEF Turn, TypeOK, ControlType, CounterType, github
<1> QED BY <1>2, <1>3

LEMMA OtherStepTypes ==
    ASSUME TypeOK,
           \/ RunSupervisor \/ IndexRepo \/ HaltTestFailure
           \/ RunSupervisorFinalize \/ Interrupt \/ RunCommitAndPush
           \/ RunOpenPr \/ Halt
    PROVE  TypeOK'
<1> USE DEF TypeOK
<1>1. CASE RunSupervisor
  <2>1. ControlType' /\ ProductType'
    BY <1>1 DEF RunSupervisor, ControlType, ProductType, control, products, history, Nodes,
                Statuses, Outcomes
  <2>2. TrackerType' /\ CounterType'
    BY <1>1 DEF RunSupervisor, TrackerType, CounterType, tracker, github, history
  <2>3. DatabaseType'
    BY <1>1 DEF RunSupervisor, DatabaseType, database
  <2> QED BY <2>1, <2>2, <2>3
<1>2. CASE IndexRepo
  <2>1. ControlType' /\ ProductType'
    BY <1>2 DEF IndexRepo, ControlType, ProductType, control, products, history, Nodes, AgentNodes,
                Statuses, Outcomes
  <2>2. TrackerType' /\ CounterType'
    BY <1>2 DEF IndexRepo, TrackerType, CounterType, tracker, github, history
  <2>3. DatabaseType'
    BY <1>2 DEF IndexRepo, DatabaseType, database
  <2> QED BY <2>1, <2>2, <2>3
<1>3. CASE HaltTestFailure
  <2>1. ControlType' /\ ProductType'
    BY <1>3 DEF HaltTestFailure, ControlType, ProductType, control, products, history, Nodes,
                Statuses, Outcomes, Escalations
  <2>2. TrackerType' /\ CounterType'
    <3>1. /\ testFails' = testFails + 1
          /\ fired' = TRUE \/ fired' = fired
          /\ UNCHANGED <<pydFails, rejected, retries, cost, github, history>>
      BY <1>3 DEF HaltTestFailure
    <3>2. fired' \in BOOLEAN
      BY <3>1 DEF TrackerType
    <3>3. CounterType' /\ testFails' \in Nat
      BY <3>1 DEF TrackerType, CounterType, github, history
    <3> QED BY <3>1, <3>2, <3>3 DEF TrackerType, history
  <2>3. DatabaseType'
    BY <1>3, InsertOutcomeType DEF HaltTestFailure, DatabaseType, database
  <2> QED BY <2>1, <2>2, <2>3
<1>4. CASE RunSupervisorFinalize
  <2>1. ControlType' /\ ProductType'
    BY <1>4 DEF RunSupervisorFinalize, ControlType, ProductType, control, products, history, Nodes,
                Statuses, Outcomes, AfterFinalize, HitlNodes
  <2>2. TrackerType' /\ CounterType'
    BY <1>4 DEF RunSupervisorFinalize, TrackerType, CounterType, tracker, github, history
  <2>3. DatabaseType'
    BY <1>4 DEF RunSupervisorFinalize, DatabaseType, database
  <2> QED BY <2>1, <2>2, <2>3
<1>5. CASE Interrupt
  <2>1. ControlType' /\ ProductType'
    BY <1>5 DEF Interrupt, ControlType, ProductType, control, products, history, Nodes,
                Statuses, Outcomes
  <2>2. TrackerType' /\ CounterType'
    BY <1>5 DEF Interrupt, TrackerType, CounterType, tracker, github, history
  <2>3. DatabaseType'
    BY <1>5, InsertOutcomeType DEF Interrupt, DatabaseType, database
  <2> QED BY <2>1, <2>2, <2>3
<1>6. CASE RunCommitAndPush
  <2>1. ControlType' /\ ProductType'
    BY <1>6, SharedRoutesAreNodes DEF RunCommitAndPush, ControlType, ProductType, control, products, history, Nodes,
                Statuses, Outcomes, DeliveryFailed
  <2>2. TrackerType' /\ CounterType'
    BY <1>6 DEF RunCommitAndPush, TrackerType, CounterType, tracker, github, history
  <2>3. DatabaseType'
    BY <1>6 DEF RunCommitAndPush, DatabaseType, database
  <2> QED BY <2>1, <2>2, <2>3
<1>7. CASE RunOpenPr
  <2>1. ControlType' /\ ProductType'
    BY <1>7 DEF RunOpenPr, ControlType, ProductType, control, products, history, Nodes,
                Statuses, Outcomes, DeliveryFailed
  <2>2. TrackerType' /\ CounterType'
    BY <1>7 DEF RunOpenPr, TrackerType, CounterType, tracker, github, history
  <2>3. DatabaseType'
    BY <1>7 DEF RunOpenPr, DatabaseType, database
  <2> QED BY <2>1, <2>2, <2>3
<1>8. CASE Halt
  <2>1. ControlType' /\ ProductType'
    BY <1>8 DEF Halt, ControlType, ProductType, control, products, history, Nodes,
                Statuses, Outcomes
  <2>2. TrackerType' /\ CounterType'
    BY <1>8 DEF Halt, TrackerType, CounterType, tracker, github, history
  <2>3. DatabaseType'
    BY <1>8 DEF Halt, DatabaseType, database
  <2> QED BY <2>1, <2>2, <2>3
<1> QED BY <1>1, <1>2, <1>3, <1>4, <1>5, <1>6, <1>7, <1>8

LEMMA HumanStepTypes ==
    ASSUME TypeOK, HumanStep
    PROVE  TypeOK'
<1> USE DEF TypeOK
<1>1. CASE ResumePreCommitPush
  <2>1. ControlType' /\ ProductType'
    BY <1>1 DEF ResumePreCommitPush, ControlType, ProductType, control, products, history, Nodes,
                Statuses, Outcomes, Resumed, HitlNodes
  <2>2. TrackerType' /\ CounterType'
    BY <1>1 DEF ResumePreCommitPush, TrackerType, CounterType, tracker, github, history
  <2>3. DatabaseType'
    BY <1>1, InsertOutcomeType DEF ResumePreCommitPush, DatabaseType, database, FinishRejected
  <2> QED BY <2>1, <2>2, <2>3
<1>2. CASE ResumePrePr
  <2>1. ControlType' /\ ProductType'
    BY <1>2 DEF ResumePrePr, ControlType, ProductType, control, products, history, Nodes,
                Statuses, Outcomes, Resumed
  <2>2. TrackerType' /\ CounterType'
    BY <1>2 DEF ResumePrePr, TrackerType, CounterType, tracker, github, history
  <2>3. DatabaseType'
    BY <1>2, InsertOutcomeType DEF ResumePrePr, DatabaseType, database, FinishRejected
  <2> QED BY <2>1, <2>2, <2>3
<1>3. CASE ResumeEscalation
  <2>1. ControlType' /\ ProductType'
    BY <1>3 DEF ResumeEscalation, ControlType, ProductType, control, products, history, Nodes,
                Statuses, Outcomes, Resumed
  <2>2. TrackerType' /\ CounterType'
    BY <1>3 DEF ResumeEscalation, TrackerType, CounterType, tracker, github, history
  <2>3. DatabaseType'
    <3>1. FinishRejected \/ task' = [task EXCEPT !.status = "running"]
      BY <1>3 DEF ResumeEscalation
    <3>2. rows' = rows \/ \E k : InsertOutcome(k)
      BY <1>3 DEF ResumeEscalation
    <3>3. rows' \in [RowKinds -> Nat]
      BY <3>2, InsertOutcomeType DEF DatabaseType
    <3> QED BY <3>1, <3>3 DEF DatabaseType, FinishRejected
  <2> QED BY <2>1, <2>2, <2>3
<1>4. CASE ResumeRetryExhausted
  <2>1. ControlType' /\ ProductType'
    BY <1>4 DEF ResumeRetryExhausted, ControlType, ProductType, control, products, history, Nodes,
                Statuses, Outcomes, Resumed
  <2>2. TrackerType' /\ CounterType'
    <3>1. /\ retries' = 0 \/ retries' = retries
          /\ UNCHANGED <<cost, tracker, github, history>>
      BY <1>4 DEF ResumeRetryExhausted
    <3> QED BY <3>1 DEF TrackerType, CounterType, tracker, github, history
  <2>3. DatabaseType'
    <3>1. FinishRejected \/ task' = [task EXCEPT !.status = "running"]
      BY <1>4 DEF ResumeRetryExhausted
    <3>2. rows' = rows \/ \E k : InsertOutcome(k)
      BY <1>4 DEF ResumeRetryExhausted
    <3>3. rows' \in [RowKinds -> Nat]
      BY <3>2, InsertOutcomeType DEF DatabaseType
    <3> QED BY <3>1, <3>3 DEF DatabaseType, FinishRejected
  <2> QED BY <2>1, <2>2, <2>3
<1> QED BY <1>1, <1>2, <1>3, <1>4 DEF HumanStep

LEMMA SharedStepTypes == TypeOK /\ SharedStep => TypeOK'
BY SharedAgentTypes, OtherStepTypes DEF SharedStep

LEMMA InitTypes == Init => TypeOK
<1> SUFFICES ASSUME Init PROVE TypeOK
  OBVIOUS
<1>1. ControlType /\ ProductType
  BY DEF Init, ControlType, ProductType, Nodes, Statuses, Outcomes
<1>2. TrackerType /\ CounterType
  BY DEF Init, TrackerType, CounterType
<1>3. DatabaseType
  BY DEF Init, DatabaseType
<1> QED BY <1>1, <1>2, <1>3 DEF TypeOK

\* A step that changes nothing.
LEMMA StutterTypes == TypeOK /\ UNCHANGED vars => TypeOK'
BY DEF vars, control, products, tracker, database, github, history,
       TypeOK, ControlType, ProductType, TrackerType, DatabaseType, CounterType
=============================================================================
