----------------------- MODULE SupervisorGraph_proofs -----------------------
(* Theorems about SupervisorGraph, for every value of its constants. *)
EXTENDS SupervisorGraph, AgentGraph_proofs

LEMMA RoutesAreNodes ==
    ASSUME NEW out, NEW st, NEW x, NEW n
    PROVE  /\ RouteAfterCoder(out, st) \in Nodes
           /\ RouteAfterReview(out, st, x, n) \in Nodes
BY RouteIsANode DEF RouteAfterCoder, RouteAfterReview, Nodes, AgentNodes, HitlNodes

LEMMA CoderTurnTypes ==
    ASSUME TypeOK, NEW h \in DiffHashes \cup {NoEdit}, NEW c \in Nat, NEW tools,
           CoderTurn(h, c, tools)
    PROVE  Turn'
<1> USE DEF TypeOK, Turn
<1>1. WithinBudget(c) /\ rejects' = rejects
  BY DEF CoderTurn
<1>2. CASE ToolsEscalate(tools) /\ pydFails' = Resets("coder") /\ UNCHANGED rejected
  BY <1>1, <1>2, ResetTypes, ToolsEscalateTypes DEF Agents, TrackerType
<1>3. CASE /\ edit' = h
           /\ retries' = retries + 1
           /\ cost' = cost + c
           /\ ResetUnlessChanged("coder", tools)
           /\ fresh' = {}
           /\ UNCHANGED <<control, plan, review, report, rejected, testFails,
                          fired, database>>
  <2>1. outcome' \in Outcomes /\ status' \in Statuses /\ ProductType'
    BY <1>3 DEF ControlType, ProductType, control
  <2>2. TrackerType' /\ DatabaseType'
    BY <1>1, <1>3, ResetTypes DEF TrackerType, DatabaseType, database, Agents
  <2>3. {retries, cost, spent}' \subseteq Nat
    BY <1>1, <1>3 DEF WithinBudget, CounterType
  <2> QED BY <2>1, <2>2, <2>3
<1> QED BY <1>2, <1>3 DEF CoderTurn

LEMMA ReviewerTurnTypes ==
    ASSUME TypeOK, NEW verdict \in Verdicts \cup {"none"}, NEW c \in Nat, NEW tools,
           ReviewerTurn(verdict, c, tools)
    PROVE  Turn'
<1> USE DEF TypeOK, Turn
<1>1. WithinBudget(c)
  BY DEF ReviewerTurn
<1>2. rejects' \in [DiffHashes -> Nat]
  BY CountUpType DEF ReviewerTurn, TrackerType
<1>3. Counted \in [DiffHashes -> Nat]
  BY CountUpType DEF Counted, TrackerType
<1>4. CASE SameFixEscalates(verdict)
  <2>1. outcome' \in Outcomes /\ status' \in Statuses /\ ProductType'
    BY <1>4 DEF SameFixEscalates, ProductType, Statuses, Outcomes, products,
                Escalations
  <2>2. TrackerType' /\ DatabaseType'
    BY <1>2, <1>3, <1>4 DEF SameFixEscalates, TrackerType, DatabaseType, database
  <2>3. {retries, cost, spent}' \subseteq Nat
    BY <1>1, <1>4 DEF SameFixEscalates, WithinBudget, CounterType
  <2> QED BY <2>1, <2>2, <2>3
<1>5. CASE ReviewToolsEscalate(verdict, tools)
  BY <1>1, <1>2, <1>3, <1>5, ResetTypes, ToolsEscalateTypes
     DEF ReviewToolsEscalate, Agents, TrackerType
<1>6. CASE ReviewStored(verdict, c, tools)
  <2>1. outcome' \in Outcomes /\ status' \in Statuses /\ ProductType'
    BY <1>6 DEF ReviewStored, ControlType, ProductType, control
  <2>2. TrackerType' /\ DatabaseType'
    BY <1>2, <1>3, <1>6, ResetTypes
       DEF ReviewStored, TrackerType, DatabaseType, database, Agents
  <2>3. {retries, cost, spent}' \subseteq Nat
    BY <1>1, <1>6 DEF ReviewStored, WithinBudget, CounterType
  <2> QED BY <2>1, <2>2, <2>3
<1> QED BY <1>4, <1>5, <1>6 DEF ReviewerTurn

\* The two agents that are this topology's own keep the types.
LEMMA GraphAgentTypes ==
    ASSUME TypeOK, RunCoder \/ RunReviewer
    PROVE  TypeOK'
<1>1. CallCosts \cup {0} \subseteq Nat /\ CostsOnEdit \subseteq Nat
  BY GraphAssumption DEF GraphAssumption, CostsOnEdit
<1>2. CASE RunCoder
  <2>1. Turn'
    BY <1>1, <1>2, TypedTurn, FailedTurnTypes, CoderTurnTypes DEF RunCoder, Agents
  <2>2. /\ node' \in Nodes
        /\ turns' = turns + 1
        /\ UNCHANGED <<paused, github>>
    BY <1>2, RoutesAreNodes DEF RunCoder
  <2> QED BY <2>1, <2>2 DEF Turn, TypeOK, ControlType, CounterType, github
<1>3. CASE RunReviewer
  <2>1. Turn'
    BY <1>1, <1>3, TypedTurn, FailedTurnTypes, ReviewerTurnTypes DEF RunReviewer, Agents
  <2>2. node' \in Nodes /\ UNCHANGED <<paused, github, turns>>
    BY <1>3, RoutesAreNodes DEF RunReviewer
  <2> QED BY <2>1, <2>2 DEF Turn, TypeOK, ControlType, CounterType, github
<1> QED BY <1>2, <1>3

\* Every state of the graph is well typed, for every set of diffs, costs,
\* faults and decisions.
THEOREM TypeCorrect == Spec => []TypeOK
<1>1. TypeOK /\ [Next]_vars => TypeOK'
  BY GraphAgentTypes, SharedStepTypes, HumanStepTypes, StutterTypes
     DEF Next, GraphStep, Ended
<1> QED BY <1>1, InitTypes, PTL DEF Spec

-----------------------------------------------------------------------------
(* What an agent step can do: stop at a halt or an escalation, or go on.    *)

Stopped ==
    \/ outcome \in Escalations \cup {"cost_budget_exhausted"}
         /\ node = HaltOf[outcome]
    \/ outcome = "sandbox_failure" /\ node = "halt_task_failed"

GoesOn == outcome = "" /\ status = "running"

\* What no agent step touches.
OffLimits == <<paused, task, github, testFails>>

LEMMA RouteStops ==
    ASSUME NEW st, NEW onward,
           NEW out \in Escalations \cup {"cost_budget_exhausted"}
    PROVE  Route(out, st, onward) = HaltOf[out]
BY DEF Route, HaltOf, Escalations

LEMMA RouteFails ==
    ASSUME NEW onward
    PROVE  Route("sandbox_failure", "failed", onward) = "halt_task_failed"
BY DEF Route, HaltOf

LEMMA RouteGoesOn ==
    ASSUME NEW onward
    PROVE  Route("", "running", onward) = onward
BY DEF Route, HaltOf

\* How a failed turn and an escalating turn leave outcome and status.
Stops ==
    \/ outcome' \in Escalations \cup {"cost_budget_exhausted"}
    \/ outcome' = "sandbox_failure" /\ status' = "failed"

LEMMA StopsIsStopped ==
    ASSUME NEW onward, Stops, node' = Route(outcome', status', onward)
    PROVE  Stopped'
<1>1. CASE outcome' \in Escalations \cup {"cost_budget_exhausted"}
  BY <1>1, RouteStops DEF Stopped
<1>2. CASE outcome' = "sandbox_failure" /\ status' = "failed"
  BY <1>2, RouteFails DEF Stopped
<1> QED BY <1>1, <1>2 DEF Stops

LEMMA FailedTurnStops ==
    ASSUME NEW a, NEW c,
           Failed(a, c) \/ Blocked(a, c) \/ Invalid(a, c) \/ OverBudget(c)
    PROVE  /\ UNCHANGED <<task, testFails, retries>>
           /\ Stops \/ /\ Invalid(a, c)
                       /\ UNCHANGED <<control, products, cost, fresh>>
<1>1. CASE Failed(a, c)
  BY <1>1 DEF Failed, Stops, database, tracker
<1>2. CASE Blocked(a, c)
  BY <1>2 DEF Blocked, Stops, tracker, Escalations
<1>3. CASE Invalid(a, c)
  BY <1>3 DEF Invalid, Stops, database, Escalations, control
<1>4. CASE OverBudget(c)
  BY <1>4 DEF OverBudget, Stops, database, tracker
<1> QED BY <1>1, <1>2, <1>3, <1>4

LEMMA ToolsEscalateStops ==
    ASSUME NEW tools, ToolsEscalate(tools)
    PROVE  UNCHANGED <<task, testFails, retries>> /\ Stops
BY DEF ToolsEscalate, Stops, Escalations

\* A turn that goes on has paid for itself within the budget.
Pays == \E c : cost' = cost + c /\ spent' = spent + c /\ cost + c <= MaxCost

LEMMA PlannerStep ==
    ASSUME UndecidedInv, RunPlanner
    PROVE  /\ UNCHANGED <<OffLimits, turns, retries>>
           /\ Stopped' \/ (GoesOn' /\ node' = "run_coder" /\ plan' /\ Pays)
<1>1. PICK c \in CallCosts : \/ Failed("planner", c)
                             \/ PlannerInvalid(c)
                             \/ OverBudget(c)
                             \/ PlannerDone(c)
  BY DEF RunPlanner
<1>2. /\ node' = Route(outcome', status', "run_coder")
      /\ UNCHANGED <<paused, github, turns>>
  BY DEF RunPlanner, RouteAfterPlanner
<1>3. CASE Failed("planner", c) \/ OverBudget(c)
  <2>1. Stops /\ UNCHANGED <<task, testFails, retries>>
    BY <1>3 DEF Failed, OverBudget, Stops, database, tracker
  <2> QED BY <1>2, <2>1, StopsIsStopped DEF OffLimits
<1>4. CASE PlannerInvalid(c)
  <2>1. Stops /\ UNCHANGED <<task, testFails, retries>>
    BY <1>4 DEF PlannerInvalid, Stops, database, Escalations
  <2> QED BY <1>2, <2>1, StopsIsStopped DEF OffLimits
<1>5. CASE PlannerDone(c)
  <2>1. /\ plan' = TRUE
        /\ Pays
        /\ UNCHANGED <<control, retries, testFails, task>>
    BY <1>5 DEF PlannerDone, WithinBudget, Pays, database
  <2>2. outcome = "" /\ status = "running"
    BY DEF UndecidedInv, RunPlanner, At, AgentNodes
  <2> QED BY <1>2, <2>1, <2>2, RouteGoesOn DEF GoesOn, OffLimits, control
<1> QED BY <1>1, <1>3, <1>4, <1>5

\* Without validation faults a Coder that goes on has a new edit to show and
\* the attempt is counted.
LEMMA CoderStep ==
    ASSUME UndecidedInv, RunCoder
    PROVE  /\ UNCHANGED OffLimits
           /\ turns' = turns + 1
           /\ Stopped' \/ (GoesOn' /\ node' = "run_reviewer")
           /\ NoValidationFault /\ plan =>
                \/ Stopped'
                \/ /\ Pays /\ retries' = retries + 1
                   /\ edit' \in DiffHashes /\ plan' = plan
<1>1. PICK c : \/ plan /\ (Failed("coder", c) \/ Blocked("coder", c)
                                               \/ Invalid("coder", c))
               \/ OverBudget(c)
               \/ \E h \in IF plan THEN DiffHashes ELSE {NoEdit},
                     tools \in ToolReadings : CoderTurn(h, c, tools)
  BY DEF RunCoder
<1>2. /\ node' = Route(outcome', status', "run_reviewer")
      /\ turns' = turns + 1
      /\ UNCHANGED <<paused, github>>
  BY DEF RunCoder, RouteAfterCoder
<1>3. outcome = "" /\ status = "running"
  BY DEF UndecidedInv, RunCoder, At, AgentNodes
<1>4. CASE Failed("coder", c) \/ Blocked("coder", c) \/ Invalid("coder", c)
             \/ OverBudget(c)
  <2>1. UNCHANGED <<task, testFails>>
    BY <1>4, FailedTurnStops
  <2>2. CASE Stops
    BY <1>2, <2>1, <2>2, StopsIsStopped DEF OffLimits
  <2>3. CASE Invalid("coder", c) /\ UNCHANGED control
    <3>1. ~NoValidationFault
      BY <2>3 DEF Invalid, NoValidationFault, Agents
    <3>2. GoesOn' /\ node' = "run_reviewer"
      BY <1>2, <1>3, <2>3, RouteGoesOn DEF GoesOn, control
    <3> QED BY <1>2, <2>1, <3>1, <3>2 DEF OffLimits
  <2> QED BY <1>4, <2>2, <2>3, FailedTurnStops
<1>5. ASSUME NEW h \in IF plan THEN DiffHashes ELSE {NoEdit}, NEW tools,
             CoderTurn(h, c, tools)
      PROVE  /\ UNCHANGED OffLimits
             /\ Stopped' \/ (GoesOn' /\ node' = "run_reviewer")
             /\ plan => \/ Stopped'
                        \/ /\ Pays /\ retries' = retries + 1
                           /\ edit' \in DiffHashes /\ plan' = plan
  <2>1. CASE ToolsEscalate(tools)
    BY <1>2, <2>1, ToolsEscalateStops, StopsIsStopped DEF OffLimits
  <2>2. CASE /\ edit' = h
             /\ retries' = retries + 1
             /\ cost' = cost + c
             /\ UNCHANGED <<control, plan, testFails, database>>
    <3>1. Pays
      BY <1>5, <2>2 DEF Pays, CoderTurn, WithinBudget
    <3>2. GoesOn' /\ node' = "run_reviewer"
      BY <1>2, <1>3, <2>2, RouteGoesOn DEF GoesOn, control
    <3> QED BY <1>2, <1>5, <2>2, <3>1, <3>2 DEF OffLimits, database
  <2> QED BY <1>5, <2>1, <2>2 DEF CoderTurn
<1> QED BY <1>1, <1>2, <1>4, <1>5

\* Where a Reviewer that goes on sends the task, by its verdict.
AfterVerdict ==
    \/ review = "accept" /\ node = "run_qa"
    \/ review = "reject_with_changes" /\ retries < MaxRetries /\ node = "run_coder"
    \/ review = "reject_with_changes" /\ retries >= MaxRetries
         /\ node = "halt_retry_exhausted"
    \/ review \notin {"accept", "reject_with_changes"}
         /\ node = "run_supervisor_finalize"

\* Without validation faults a Reviewer that goes on has judged the edit.
LEMMA ReviewerStep ==
    ASSUME TypeOK, UndecidedInv, RunReviewer
    PROVE  /\ UNCHANGED <<OffLimits, turns, retries>>
           /\ Stopped' \/ (GoesOn' /\ AfterVerdict')
           /\ NoValidationFault =>
                \/ Stopped'
                \/ Pays /\ "review" \in fresh' /\ plan' = plan /\ edit' = edit
<1>1. PICK c : \/ /\ edit # NoEdit
                  /\ \/ Failed("reviewer", c) \/ Blocked("reviewer", c)
                     \/ Invalid("reviewer", c)
               \/ OverBudget(c)
               \/ \E verdict \in IF edit = NoEdit THEN {"none"} ELSE Verdicts,
                     tools \in ToolReadings : ReviewerTurn(verdict, c, tools)
  BY DEF RunReviewer
<1>2. /\ node' = RouteAfterReview(outcome', status', review', retries')
      /\ UNCHANGED <<paused, github, turns>>
  BY DEF RunReviewer
<1>3. outcome = "" /\ status = "running"
  BY DEF UndecidedInv, RunReviewer, At, AgentNodes
<1>4. ASSUME Stops PROVE Stopped'
  BY <1>2, <1>4, StopsIsStopped DEF RouteAfterReview
<1>5. ASSUME UNCHANGED <<control, retries>> PROVE GoesOn' /\ AfterVerdict'
  <2>1. GoesOn'
    BY <1>3, <1>5 DEF GoesOn, control
  <2>2. retries' \in Nat
    BY <1>5 DEF TypeOK, CounterType
  <2>3. node' = IF review' = "accept" THEN "run_qa"
                ELSE IF review' # "reject_with_changes" THEN "run_supervisor_finalize"
                ELSE IF retries' >= MaxRetries THEN "halt_retry_exhausted"
                ELSE "run_coder"
    BY <1>2, <2>1, RouteGoesOn DEF RouteAfterReview, GoesOn
  <2> QED BY <2>1, <2>2, <2>3, GraphAssumption DEF AfterVerdict, GraphAssumption
<1>6. CASE \/ Failed("reviewer", c) \/ Blocked("reviewer", c)
           \/ Invalid("reviewer", c) \/ OverBudget(c)
  <2>1. UNCHANGED <<task, testFails, retries>>
    BY <1>6, FailedTurnStops
  <2>2. CASE Stops
    BY <1>2, <1>4, <2>1, <2>2 DEF OffLimits
  <2>3. CASE Invalid("reviewer", c) /\ UNCHANGED control
    <3>1. ~NoValidationFault
      BY <2>3 DEF Invalid, NoValidationFault, Agents
    <3> QED BY <1>2, <1>5, <2>1, <2>3, <3>1 DEF OffLimits
  <2> QED BY <1>6, <2>2, <2>3, FailedTurnStops
<1>7. ASSUME NEW verdict, NEW tools, ReviewerTurn(verdict, c, tools)
      PROVE  /\ UNCHANGED <<OffLimits, turns, retries>>
             /\ \/ Stopped'
                \/ /\ GoesOn' /\ AfterVerdict'
                   /\ Pays /\ "review" \in fresh' /\ plan' = plan /\ edit' = edit
  <2>1. CASE SameFixEscalates(verdict)
    <3>1. Stops /\ UNCHANGED <<task, testFails, retries>>
      BY <2>1 DEF SameFixEscalates, Stops, Escalations, database
    <3> QED BY <1>2, <1>4, <3>1 DEF OffLimits
  <2>2. CASE ReviewToolsEscalate(verdict, tools)
    <3>1. Stops /\ UNCHANGED <<task, testFails, retries>>
      BY <2>2, ToolsEscalateStops DEF ReviewToolsEscalate
    <3> QED BY <1>2, <1>4, <3>1 DEF OffLimits
  <2>3. CASE ReviewStored(verdict, c, tools)
    <3>1. /\ UNCHANGED <<control, plan, edit, retries, testFails, database>>
          /\ cost' = cost + c
          /\ "review" \in fresh'
      BY <2>3 DEF ReviewStored
    <3>2. Pays
      BY <1>7, <3>1 DEF Pays, ReviewerTurn, WithinBudget
    <3> QED BY <1>2, <1>5, <3>1, <3>2 DEF OffLimits, database
  <2> QED BY <1>7, <2>1, <2>2, <2>3 DEF ReviewerTurn
<1> QED BY <1>1, <1>6, <1>7

\* Without validation faults a QA run that goes on has tested the edit.
LEMMA QaStep ==
    ASSUME UndecidedInv, RunQa
    PROVE  /\ UNCHANGED <<OffLimits, turns, retries>>
           /\ \/ Stopped'
              \/ /\ GoesOn'
                 /\ node' = IF report' = "fail" THEN "halt_test_failure"
                                               ELSE "run_supervisor_finalize"
           /\ NoValidationFault /\ edit # NoEdit =>
                \/ Stopped'
                \/ /\ UNCHANGED <<edit, review>>
                   /\ report' \in {"pass", "fail"}
                   /\ fresh' = fresh \cup {"report"}
<1>1. PICK c : \/ /\ edit # NoEdit
                  /\ Failed("qa", c) \/ Blocked("qa", c) \/ Invalid("qa", c)
               \/ OverBudget(c)
               \/ \E rep \in IF edit = NoEdit THEN {"none"} ELSE {"pass", "fail"},
                     tools \in ToolReadings : QaTurn(rep, c, tools)
  BY DEF RunQa
<1>2. /\ node' = RouteAfterQa(outcome', status', report')
      /\ UNCHANGED <<paused, github, turns>>
  BY DEF RunQa
<1>3. outcome = "" /\ status = "running"
  BY DEF UndecidedInv, RunQa, At, AgentNodes
<1>4. ASSUME Stops PROVE Stopped'
  BY <1>2, <1>4, StopsIsStopped DEF RouteAfterQa
<1>5. ASSUME UNCHANGED control
      PROVE  /\ GoesOn'
             /\ node' = IF report' = "fail" THEN "halt_test_failure"
                                           ELSE "run_supervisor_finalize"
  BY <1>2, <1>3, <1>5, RouteGoesOn DEF RouteAfterQa, GoesOn, control
<1>6. CASE Failed("qa", c) \/ Blocked("qa", c) \/ Invalid("qa", c) \/ OverBudget(c)
  <2>1. UNCHANGED <<task, testFails, retries>>
    BY <1>6, FailedTurnStops
  <2>2. CASE Stops
    BY <1>2, <1>4, <2>1, <2>2 DEF OffLimits
  <2>3. CASE Invalid("qa", c) /\ UNCHANGED control
    <3>1. ~NoValidationFault
      BY <2>3 DEF Invalid, NoValidationFault, Agents
    <3> QED BY <1>2, <1>5, <2>1, <2>3, <3>1 DEF OffLimits
  <2> QED BY <1>6, <2>2, <2>3, FailedTurnStops
<1>7. ASSUME NEW rep \in IF edit = NoEdit THEN {"none"} ELSE {"pass", "fail"},
             NEW tools, QaTurn(rep, c, tools)
      PROVE  /\ UNCHANGED <<OffLimits, turns, retries>>
             /\ \/ Stopped'
                \/ /\ GoesOn'
                   /\ node' = IF report' = "fail" THEN "halt_test_failure"
                                                 ELSE "run_supervisor_finalize"
                   /\ UNCHANGED <<edit, review>>
                   /\ report' = rep
                   /\ fresh' = fresh \cup {"report"}
  <2>1. CASE ToolsEscalate(tools)
    BY <1>2, <1>4, <2>1, ToolsEscalateStops DEF OffLimits
  <2>2. CASE /\ report' = rep
             /\ fresh' = fresh \cup {"report"}
             /\ UNCHANGED <<control, edit, review, retries, testFails, database>>
    BY <1>2, <1>5, <2>2 DEF OffLimits, database
  <2> QED BY <1>7, <2>1, <2>2 DEF QaTurn
<1> QED BY <1>1, <1>6, <1>7

-----------------------------------------------------------------------------
(* What holds whatever the agents raise.                                     *)

DeliveredInv == OneDelivery /\ AwaitingIffPaused /\ EscalationsReachAHuman

SafeInv == UndecidedInv /\ DeliveryInv /\ DeliveredInv

LEMMA SafeInit == Init => SafeInv
<1> SUFFICES ASSUME Init PROVE SafeInv
  OBVIOUS
<1>1. UndecidedInv
  BY DEF Init, UndecidedInv, EscalationNodes
<1>2. commits = 0 /\ prs = 0 /\ node = "run_supervisor"
  BY DEF Init
<1>3. DeliveryInv /\ OneDelivery
  BY <1>2 DEF DeliveryInv, OneDelivery
<1>4. AwaitingIffPaused /\ EscalationsReachAHuman
  BY DEF Init, AwaitingIffPaused, EscalationsReachAHuman
<1> QED BY <1>1, <1>3, <1>4 DEF SafeInv, DeliveredInv

\* An agent either stops the task at a halt or an escalation, or hands on.
LEMMA AgentStepSafe ==
    ASSUME TypeOK, SafeInv, RunPlanner \/ RunCoder \/ RunReviewer \/ RunQa
    PROVE  SafeInv'
<1> DEFINE Onward == AgentNodes \cup {"run_supervisor_finalize",
                        "halt_retry_exhausted", "halt_test_failure"}
<1>1. UNCHANGED OffLimits /\ (Stopped' \/ (GoesOn' /\ node' \in Onward))
  <2>1. CASE RunPlanner
    BY <2>1, PlannerStep DEF SafeInv, AgentNodes
  <2>2. CASE RunCoder
    BY <2>2, CoderStep DEF SafeInv, AgentNodes
  <2>3. CASE RunReviewer
    BY <2>3, ReviewerStep DEF SafeInv, AgentNodes, AfterVerdict
  <2>4. CASE RunQa
    BY <2>4, QaStep DEF SafeInv
  <2> QED BY <2>1, <2>2, <2>3, <2>4
<1>2. node \in AgentNodes /\ ~paused
  BY DEF RunPlanner, RunCoder, RunReviewer, RunQa, At, AgentNodes
<1>3. commits' = 0 /\ prs' = 0 /\ testFails' = 0 /\ ~paused' /\ task' = task
  BY <1>1, <1>2 DEF OffLimits, github, SafeInv, UndecidedInv, DeliveryInv,
                    AgentNodes
<1>4. task.status # "awaiting_hitl"
  BY <1>2 DEF SafeInv, DeliveredInv, AwaitingIffPaused
<1>5. CASE Stopped'
  <2>1. /\ node' \in EscalationNodes \cup {"halt_cost_budget_exhausted",
                                           "halt_task_failed"}
        /\ outcome' # "" /\ outcome' # "pr_opened"
        /\ node' = "halt_task_failed" => outcome' = "sandbox_failure"
    <3>1. HaltOf.cost_budget_exhausted = "halt_cost_budget_exhausted"
          /\ HaltOf.guardrail_block = "hitl_guardrail_escalation"
          /\ HaltOf.loop_detected = "hitl_loop_detected"
          /\ HaltOf.uncertainty_escalation = "hitl_uncertainty_escalation"
      BY DEF HaltOf
    <3> QED BY <1>5, <3>1 DEF Stopped, Escalations, EscalationNodes
  <2>2. UndecidedInv'
    BY <1>3, <2>1 DEF UndecidedInv, AgentNodes, EscalationNodes, Beginning
  <2>3. DeliveryInv' /\ OneDelivery'
    <3>1. node' \notin {"run_open_pr", "halt_github_delivery_failed", "END"}
      BY <2>1 DEF EscalationNodes
    <3> QED BY <1>3, <3>1 DEF DeliveryInv, OneDelivery
  <2>4. AwaitingIffPaused' /\ EscalationsReachAHuman'
    BY <1>3, <1>4, <2>1 DEF AwaitingIffPaused, EscalationsReachAHuman, EscalationNodes
  <2> QED BY <2>2, <2>3, <2>4 DEF SafeInv, DeliveredInv
<1>6. CASE GoesOn' /\ node' \in Onward
  <2>1. UndecidedInv'
    BY <1>3, <1>6 DEF UndecidedInv, GoesOn, AgentNodes, EscalationNodes
  <2>2. DeliveryInv' /\ OneDelivery'
    <3>1. node' \notin {"run_open_pr", "halt_github_delivery_failed", "END"}
      BY <1>6 DEF AgentNodes
    <3> QED BY <1>3, <3>1 DEF DeliveryInv, OneDelivery
  <2>3. AwaitingIffPaused' /\ EscalationsReachAHuman'
    BY <1>3, <1>4, <1>6 DEF AwaitingIffPaused, EscalationsReachAHuman, AgentNodes
  <2> QED BY <2>1, <2>2, <2>3 DEF SafeInv, DeliveredInv
<1> QED BY <1>1, <1>5, <1>6

\* A step to END with no pull request keeps the invariants when it sets the
\* task row and the final state as follows.
LEMMA EndSafe ==
    ASSUME node' = "END", ~paused',
           commits' \in {0, 1}, prs' = 0,
           task'.status # "awaiting_hitl",
           outcome' # "pr_opened",
           outcome' \in Escalations \cup {"retry_budget_exhausted"}
             => task'.decision = "reject"
    PROVE  SafeInv'
<1>1. UndecidedInv'
  BY DEF UndecidedInv, Beginning, AgentNodes, EscalationNodes
<1>2. DeliveryInv'
  BY DEF DeliveryInv
<1>3. OneDelivery'
  BY DEF OneDelivery
<1>4. AwaitingIffPaused' /\ EscalationsReachAHuman'
  BY DEF AwaitingIffPaused, EscalationsReachAHuman
<1> QED BY <1>1, <1>2, <1>3, <1>4 DEF SafeInv, DeliveredInv

LEMMA HaltSafe == TypeOK /\ SafeInv /\ Halt => SafeInv'
<1> SUFFICES ASSUME TypeOK, SafeInv, Halt PROVE SafeInv'
  OBVIOUS
<1>1. node' = "END" /\ ~paused' /\ UNCHANGED <<task, commits, prs>>
  BY DEF Halt, database, github
<1>2. node # "END" /\ ~paused
  BY DEF Halt
<1>3. commits' \in {0, 1} /\ prs' = 0
  BY <1>1, <1>2 DEF SafeInv, DeliveryInv, TypeOK, CounterType
<1>4. outcome' \in {"cost_budget_exhausted", "github_delivery_failed",
                    "sandbox_failure"}
  BY DEF Halt, SafeInv, UndecidedInv
<1>5. task'.status # "awaiting_hitl"
  BY <1>1, <1>2 DEF SafeInv, DeliveredInv, AwaitingIffPaused
<1>6. outcome' \notin Escalations \cup {"retry_budget_exhausted", "pr_opened"}
  BY <1>4 DEF Escalations
<1> QED BY <1>1, <1>3, <1>5, <1>6, EndSafe

LEMMA RunningAgain ==
    ASSUME TypeOK, task' = [task EXCEPT !.status = "running"]
    PROVE  task'.status = "running"
<1>1. task \in [status : {"running", "awaiting_hitl", "rejected"},
               decision : {"none", "approve", "reject"}]
  BY DEF TypeOK, DatabaseType
<1> QED BY <1>1

LEMMA RefusedTask ==
    ASSUME FinishRejected
    PROVE  task'.status = "rejected" /\ task'.decision = "reject"
BY DEF FinishRejected

LEMMA ResumeEscalationSafe ==
    TypeOK /\ SafeInv /\ ResumeEscalation => SafeInv'
<1> SUFFICES ASSUME TypeOK, SafeInv, ResumeEscalation PROVE SafeInv'
  OBVIOUS
<1>1. /\ node' = "END" /\ ~paused' /\ UNCHANGED <<commits, prs>>
      /\ node \in EscalationNodes
  BY DEF ResumeEscalation, Resumed, github
<1>2. commits' = 0 /\ prs' = 0
  BY <1>1 DEF SafeInv, DeliveryInv, EscalationNodes
<1>3. \/ FinishRejected /\ outcome' \in {outcome, "hitl_rejected"}
      \/ task' = [task EXCEPT !.status = "running"] /\ outcome' = ""
  BY DEF ResumeEscalation
<1>4. outcome' # "pr_opened"
  BY <1>1, <1>3 DEF SafeInv, UndecidedInv, EscalationNodes
<1>5. task'.status # "awaiting_hitl"
  <2>1. CASE FinishRejected
    BY <2>1, RefusedTask
  <2>2. CASE task' = [task EXCEPT !.status = "running"]
    BY <2>2, RunningAgain
  <2> QED BY <1>3, <2>1, <2>2
<1>6. outcome' # "" => task'.decision = "reject"
  BY <1>3, RefusedTask
<1>7. outcome' \in Escalations \cup {"retry_budget_exhausted"} => outcome' # ""
  BY DEF Escalations
<1> QED BY <1>1, <1>2, <1>4, <1>5, <1>6, <1>7, EndSafe

LEMMA ResumeRetrySafe ==
    TypeOK /\ SafeInv /\ ResumeRetryExhausted => SafeInv'
<1> SUFFICES ASSUME TypeOK, SafeInv, ResumeRetryExhausted PROVE SafeInv'
  OBVIOUS
<1>1. /\ node' = "END" /\ ~paused' /\ UNCHANGED <<commits, prs>>
      /\ node = "halt_retry_exhausted"
  BY DEF ResumeRetryExhausted, Resumed, github
<1>2. commits' = 0 /\ prs' = 0
  BY <1>1 DEF SafeInv, DeliveryInv
<1>3. \/ FinishRejected /\ outcome' = "retry_budget_exhausted"
      \/ task' = [task EXCEPT !.status = "running"] /\ outcome' = ""
  BY DEF ResumeRetryExhausted
<1>4. task'.status # "awaiting_hitl"
  <2>1. CASE FinishRejected
    BY <2>1, RefusedTask
  <2>2. CASE task' = [task EXCEPT !.status = "running"]
    BY <2>2, RunningAgain
  <2> QED BY <1>3, <2>1, <2>2
<1>5. outcome' # "" => task'.decision = "reject"
  BY <1>3, RefusedTask
<1>6. outcome' \in Escalations \cup {"retry_budget_exhausted"} => outcome' # ""
  BY DEF Escalations
<1>7. outcome' # "pr_opened"
  BY <1>3
<1> QED BY <1>1, <1>2, <1>4, <1>5, <1>6, <1>7, EndSafe

\* Every other step of the graph.
LEMMA OtherStepSafe ==
    ASSUME TypeOK, SafeInv,
           \/ RunSupervisor \/ IndexRepo \/ HaltTestFailure
           \/ RunSupervisorFinalize \/ Interrupt \/ RunCommitAndPush
           \/ RunOpenPr \/ Halt
    PROVE  SafeInv'
<1> USE DEF SafeInv, UndecidedInv, DeliveryInv, DeliveredInv, OneDelivery,
            AwaitingIffPaused, EscalationsReachAHuman, At, AgentNodes,
            EscalationNodes, HitlNodes, Beginning, Escalations, control, github,
            tracker, database
<1>1. CASE RunSupervisor
  BY <1>1 DEF RunSupervisor
<1>2. CASE IndexRepo
  BY <1>2 DEF IndexRepo
<1>3. CASE HaltTestFailure
  BY <1>3 DEF HaltTestFailure, PersistentTestFailureThreshold
<1>4. CASE RunSupervisorFinalize
  BY <1>4 DEF RunSupervisorFinalize, AfterFinalize
<1>5. CASE Interrupt
  BY <1>5 DEF Interrupt, TypeOK, DatabaseType
<1>6. CASE RunCommitAndPush
  BY <1>6 DEF RunCommitAndPush, DeliveryFailed, RouteAfterCommitAndPush
<1>7. CASE RunOpenPr
  BY <1>7 DEF RunOpenPr, DeliveryFailed
<1>8. CASE Halt
  BY <1>8, HaltSafe
<1> QED BY <1>1, <1>2, <1>3, <1>4, <1>5, <1>6, <1>7, <1>8

\* Every decision.
LEMMA HumanStepSafe ==
    ASSUME TypeOK, SafeInv, HumanStep
    PROVE  SafeInv'
<1> USE DEF SafeInv, UndecidedInv, DeliveryInv, DeliveredInv, OneDelivery,
            AwaitingIffPaused, EscalationsReachAHuman, Resumed, AgentNodes,
            EscalationNodes, HitlNodes, Beginning, Escalations, control, github,
            tracker, FinishRejected, TypeOK, DatabaseType
<1>1. CASE ResumePreCommitPush
  BY <1>1 DEF ResumePreCommitPush
<1>2. CASE ResumePrePr
  BY <1>2 DEF ResumePrePr
<1>3. CASE ResumeEscalation
  BY <1>3, ResumeEscalationSafe
<1>4. CASE ResumeRetryExhausted
  BY <1>4, ResumeRetrySafe
<1> QED BY <1>1, <1>2, <1>3, <1>4 DEF HumanStep

\* SafeInv is inductive.
LEMMA SafeStep == TypeOK /\ SafeInv /\ [Next]_vars => SafeInv'
<1> SUFFICES ASSUME TypeOK, SafeInv, [Next]_vars PROVE SafeInv'
  OBVIOUS
<1>1. CASE GraphStep
  BY <1>1, AgentStepSafe, OtherStepSafe DEF GraphStep, SharedStep
<1>2. CASE HumanStep
  BY <1>2, HumanStepSafe
<1>3. CASE UNCHANGED vars
  BY <1>3 DEF vars, control, tracker, database, github, SafeInv, UndecidedInv,
              DeliveryInv, DeliveredInv, OneDelivery, AwaitingIffPaused,
              EscalationsReachAHuman
<1> QED BY <1>1, <1>2, <1>3 DEF Next, Ended

\* The strengthened invariant holds in every reachable state, whatever the
\* agents raise and whoever decides what.
THEOREM Safe == Spec => []SafeInv
BY TypeCorrect, SafeInit, SafeStep, PTL DEF Spec

\* A task is delivered at most once and its final state tells the truth.
THEOREM DeliveredOnce == Spec => []OneDelivery
<1>1. SafeInv => OneDelivery
  BY DEF SafeInv, DeliveredInv
<1> QED BY <1>1, Safe, PTL

\* tasks.status says awaiting_hitl exactly between interrupt() and resume.
THEOREM AwaitingIsPaused == Spec => []AwaitingIffPaused
<1>1. SafeInv => AwaitingIffPaused
  BY DEF SafeInv, DeliveredInv
<1> QED BY <1>1, Safe, PTL

\* No escalation ends a task that a person has not refused.
THEOREM EscalationsAreSeen == Spec => []EscalationsReachAHuman
<1>1. SafeInv => EscalationsReachAHuman
  BY DEF SafeInv, DeliveredInv
<1> QED BY <1>1, Safe, PTL

\* No agent runs once an outcome is set: the four agent steps need the task
\* undecided, and no other step writes what the property speaks of.
THEOREM NoAgentAfter == Spec => NoAgentAfterOutcome
<1>1. SafeInv /\ [Next]_vars =>
        [outcome # "" => UNCHANGED <<products, spent, turns>>]_vars
  <2> SUFFICES ASSUME SafeInv, Next, outcome # ""
               PROVE  UNCHANGED <<products, spent, turns>>
    BY DEF vars
  <2>1. node \notin AgentNodes
    BY DEF SafeInv, UndecidedInv
  <2>2. ~(RunPlanner \/ RunCoder \/ RunReviewer \/ RunQa)
    BY <2>1 DEF RunPlanner, RunCoder, RunReviewer, RunQa, At, AgentNodes
  <2>3. CASE GraphStep
    BY <2>2, <2>3
       DEF GraphStep, SharedStep, RunSupervisor, IndexRepo, HaltTestFailure,
           RunSupervisorFinalize, Interrupt, RunCommitAndPush, RunOpenPr, Halt,
           history
  <2>4. CASE HumanStep
    BY <2>4 DEF HumanStep, ResumePreCommitPush, ResumePrePr, ResumeEscalation,
                ResumeRetryExhausted, history
  <2>5. CASE UNCHANGED vars
    BY <2>5 DEF vars, history
  <2> QED BY <2>3, <2>4, <2>5 DEF Next, Ended
<1> QED BY <1>1, Safe, PTL DEF Spec, NoAgentAfterOutcome

-----------------------------------------------------------------------------
(* What holds where no agent lets a ValidationError out.                     *)

KeptInv == /\ BudgetInv /\ CostInv /\ JudgedInv
           /\ RetryBudget /\ PushedEditWasJudged

\* What no step but an agent's touches.
Judgement == <<products, fresh, turns, cost, spent>>

LEMMA KeptInit == Init => KeptInv
<1> SUFFICES ASSUME Init PROVE KeptInv
  OBVIOUS
<1>1. node = "run_supervisor" /\ turns = 0 /\ retries = 0 /\ cost = 0
      /\ spent = 0 /\ commits = 0
  BY DEF Init
<1>2. MaxRetries \in Nat /\ MaxCost \in Nat
  BY GraphAssumption DEF GraphAssumption
<1>3. BudgetInv /\ RetryBudget
  BY <1>1, <1>2 DEF BudgetInv, RetryBudget
<1>4. CostInv
  BY <1>1, <1>2 DEF CostInv
<1>5. JudgedInv
  BY <1>1 DEF JudgedInv, CheckpointNodes, DeliveryNodes
<1>6. PushedEditWasJudged
  BY <1>1 DEF PushedEditWasJudged
<1> QED BY <1>3, <1>4, <1>5, <1>6 DEF KeptInv

\* A stopped task owes nothing: it is at a halt, or at an escalation.
LEMMA StoppedKept ==
    ASSUME Stopped', commits' = 0, turns' <= MaxRetries
    PROVE  KeptInv'
<1>1. node' \in EscalationNodes \cup {"halt_cost_budget_exhausted",
                                      "halt_task_failed"}
  <2>1. HaltOf.cost_budget_exhausted = "halt_cost_budget_exhausted"
        /\ HaltOf.guardrail_block = "hitl_guardrail_escalation"
        /\ HaltOf.loop_detected = "hitl_loop_detected"
        /\ HaltOf.uncertainty_escalation = "hitl_uncertainty_escalation"
    BY DEF HaltOf
  <2> QED BY <2>1 DEF Stopped, Escalations, EscalationNodes
<1>2. node' \notin Beginning \cup AgentNodes \cup CheckpointNodes
                    \cup DeliveryNodes \cup {"run_supervisor_finalize"}
  BY <1>1 DEF Beginning, AgentNodes, CheckpointNodes, DeliveryNodes,
              EscalationNodes
<1>3. BudgetInv' /\ CostInv' /\ JudgedInv'
  BY <1>2 DEF BudgetInv, CostInv, JudgedInv, AgentNodes
<1>4. RetryBudget' /\ PushedEditWasJudged'
  BY DEF RetryBudget, PushedEditWasJudged
<1> QED BY <1>3, <1>4 DEF KeptInv

\* A turn that pays keeps the total true.
LEMMA PaysKept ==
    ASSUME Pays, cost = spent
    PROVE  cost' = spent' /\ cost' <= MaxCost
BY DEF Pays

LEMMA PlannerKept ==
    ASSUME TypeOK, SafeInv, KeptInv, RunPlanner
    PROVE  KeptInv'
<1>1. node = "run_planner" /\ commits = 0
  BY DEF RunPlanner, At, SafeInv, DeliveryInv
<1>2. turns = 0 /\ retries = 0 /\ cost = spent
  BY <1>1 DEF KeptInv, BudgetInv, CostInv, AgentNodes
<1>3. MaxRetries \in Nat \ {0}
  BY GraphAssumption DEF GraphAssumption
<1>4. /\ turns' = 0 /\ retries' = 0 /\ commits' = 0
      /\ Stopped' \/ (node' = "run_coder" /\ plan' /\ Pays)
  BY <1>1, <1>2, PlannerStep DEF SafeInv, OffLimits, github
<1>5. CASE Stopped'
  BY <1>3, <1>4, <1>5, StoppedKept
<1>6. CASE node' = "run_coder" /\ plan' /\ Pays
  <2>1. BudgetInv' /\ RetryBudget'
    BY <1>3, <1>4, <1>6 DEF BudgetInv, RetryBudget, Beginning
  <2>2. CostInv'
    BY <1>2, <1>6, PaysKept DEF CostInv
  <2>3. JudgedInv'
    BY <1>6 DEF JudgedInv, CheckpointNodes, DeliveryNodes
  <2>4. PushedEditWasJudged'
    BY <1>4 DEF PushedEditWasJudged
  <2> QED BY <2>1, <2>2, <2>3, <2>4 DEF KeptInv
<1> QED BY <1>4, <1>5, <1>6

LEMMA CoderKept ==
    ASSUME NoValidationFault, TypeOK, SafeInv, KeptInv, RunCoder
    PROVE  KeptInv'
<1>1. node = "run_coder" /\ commits = 0
  BY DEF RunCoder, At, SafeInv, DeliveryInv
<1>2. turns = retries /\ retries < MaxRetries /\ cost = spent /\ plan
  BY <1>1 DEF KeptInv, BudgetInv, CostInv, JudgedInv, AgentNodes
<1>3. MaxRetries \in Nat /\ turns \in Nat /\ retries \in Nat
  BY GraphAssumption DEF GraphAssumption, TypeOK, CounterType
<1>4. /\ turns' = turns + 1 /\ commits' = 0
      /\ \/ Stopped'
         \/ /\ node' = "run_reviewer" /\ Pays
            /\ retries' = retries + 1 /\ edit' \in DiffHashes /\ plan'
  BY <1>1, <1>2, CoderStep DEF SafeInv, OffLimits, github
<1>5. turns' <= MaxRetries
  BY <1>2, <1>3, <1>4
<1>6. CASE Stopped'
  BY <1>4, <1>5, <1>6, StoppedKept
<1>7. CASE /\ node' = "run_reviewer" /\ Pays
           /\ retries' = retries + 1 /\ edit' \in DiffHashes /\ plan'
  <2>1. BudgetInv' /\ RetryBudget'
    BY <1>2, <1>3, <1>4, <1>5, <1>7 DEF BudgetInv, RetryBudget, Beginning
  <2>2. CostInv'
    BY <1>2, <1>7, PaysKept DEF CostInv
  <2>3. JudgedInv'
    BY <1>7, GraphAssumption DEF GraphAssumption, JudgedInv, CheckpointNodes,
                                 DeliveryNodes
  <2>4. PushedEditWasJudged'
    BY <1>4 DEF PushedEditWasJudged
  <2> QED BY <2>1, <2>2, <2>3, <2>4 DEF KeptInv
<1> QED BY <1>4, <1>6, <1>7

LEMMA ReviewerKept ==
    ASSUME NoValidationFault, TypeOK, SafeInv, KeptInv, RunReviewer
    PROVE  KeptInv'
<1>1. node = "run_reviewer" /\ commits = 0
  BY DEF RunReviewer, At, SafeInv, DeliveryInv
<1>2. /\ turns = retries /\ retries <= MaxRetries
      /\ cost = spent /\ edit # NoEdit /\ plan
  BY <1>1 DEF KeptInv, BudgetInv, CostInv, JudgedInv, AgentNodes
<1>3. /\ turns' = turns /\ retries' = retries /\ commits' = 0
      /\ \/ Stopped'
         \/ AfterVerdict' /\ Pays /\ "review" \in fresh' /\ edit' = edit
            /\ plan' = plan
  BY <1>1, ReviewerStep DEF SafeInv, OffLimits, github
<1>4. CASE Stopped'
  BY <1>2, <1>3, <1>4, StoppedKept
<1>5. CASE AfterVerdict' /\ Pays /\ "review" \in fresh' /\ edit' = edit
           /\ plan' = plan
  <2>1. BudgetInv'
    BY <1>2, <1>3, <1>5 DEF BudgetInv, AfterVerdict, Beginning
  <2>2. CostInv'
    BY <1>2, <1>5, PaysKept DEF CostInv
  <2>3. JudgedInv'
    BY <1>2, <1>5 DEF JudgedInv, Judged, AfterVerdict, CheckpointNodes,
                       DeliveryNodes
  <2>4. RetryBudget' /\ PushedEditWasJudged'
    BY <1>2, <1>3 DEF RetryBudget, PushedEditWasJudged
  <2> QED BY <2>1, <2>2, <2>3, <2>4 DEF KeptInv
<1> QED BY <1>3, <1>4, <1>5

LEMMA QaKept ==
    ASSUME NoValidationFault, TypeOK, SafeInv, KeptInv, RunQa
    PROVE  KeptInv'
<1>1. node = "run_qa" /\ commits = 0
  BY DEF RunQa, At, SafeInv, DeliveryInv
<1>2. edit # NoEdit /\ review = "accept" /\ "review" \in fresh
  BY <1>1 DEF KeptInv, JudgedInv
<1>3. /\ turns' = turns /\ commits' = 0
      /\ \/ Stopped'
         \/ /\ node' = IF report' = "fail" THEN "halt_test_failure"
                                          ELSE "run_supervisor_finalize"
            /\ review' = review /\ report' \in {"pass", "fail"}
            /\ fresh' = fresh \cup {"report"}
  BY <1>1, <1>2, QaStep DEF SafeInv, OffLimits, github
<1>4. turns' <= MaxRetries
  BY <1>3 DEF KeptInv, RetryBudget
<1>5. CASE Stopped'
  BY <1>3, <1>4, <1>5, StoppedKept
<1>6. CASE /\ node' = IF report' = "fail" THEN "halt_test_failure"
                                         ELSE "run_supervisor_finalize"
           /\ review' = review /\ report' \in {"pass", "fail"}
           /\ fresh' = fresh \cup {"report"}
  <2>1. BudgetInv' /\ CostInv'
    BY <1>6 DEF BudgetInv, CostInv, Beginning, AgentNodes
  <2>2. JudgedInv'
    BY <1>2, <1>6 DEF JudgedInv, Judged, CheckpointNodes, DeliveryNodes
  <2>3. RetryBudget' /\ PushedEditWasJudged'
    BY <1>3, <1>4 DEF RetryBudget, PushedEditWasJudged
  <2> QED BY <2>1, <2>2, <2>3 DEF KeptInv
<1> QED BY <1>3, <1>5, <1>6

\* No other step touches the judgement or leads back to an agent.
LEMMA OtherStepKept ==
    ASSUME TypeOK, SafeInv, KeptInv,
           HumanStep \/ (SharedStep /\ ~RunPlanner /\ ~RunQa)
    PROVE  KeptInv'
<1> DEFINE Owed == {"run_supervisor_finalize"} \cup CheckpointNodes
                                              \cup DeliveryNodes
<1>1. UNCHANGED Judgement
  <2>1. CASE HumanStep
    BY <2>1 DEF HumanStep, ResumePreCommitPush, ResumePrePr, ResumeEscalation,
                ResumeRetryExhausted, Judgement, history
  <2>2. CASE SharedStep /\ ~RunPlanner /\ ~RunQa
    BY <2>2 DEF SharedStep, RunSupervisor, IndexRepo, HaltTestFailure,
                RunSupervisorFinalize, Interrupt, RunCommitAndPush, RunOpenPr,
                Halt, Judgement, history
  <2> QED BY <2>1, <2>2
<1>2. Judged' <=> Judged
  BY <1>1 DEF Judgement, products, Judged
<1>3. \/ node = "run_supervisor" /\ node' = "index_repo" /\ UNCHANGED retries
      \/ node = "index_repo" /\ node' = "run_planner" /\ UNCHANGED retries
      \/ node \in Owed /\ node' \in Owed
      \/ /\ node' \notin Owed \cup Beginning \cup AgentNodes
         /\ commits' > 0 => commits > 0
  <2> USE DEF CheckpointNodes, DeliveryNodes, Beginning, AgentNodes
  <2>1. CASE HumanStep
    BY <2>1 DEF HumanStep, ResumePreCommitPush, ResumePrePr, ResumeEscalation,
                ResumeRetryExhausted, Resumed, github
  <2>2. CASE RunSupervisor \/ IndexRepo
    BY <2>2 DEF RunSupervisor, IndexRepo, At
  <2>3. CASE HaltTestFailure \/ RunOpenPr \/ Halt
    BY <2>3 DEF HaltTestFailure, RunOpenPr, Halt, github
  <2>4. CASE RunSupervisorFinalize
    BY <2>4 DEF RunSupervisorFinalize, At, AfterFinalize
  <2>5. CASE Interrupt
    BY <2>5 DEF Interrupt, HitlNodes, EscalationNodes, github
  <2>6. CASE RunCommitAndPush
    BY <2>6 DEF RunCommitAndPush, At, RouteAfterCommitAndPush
  <2> QED BY <2>1, <2>2, <2>3, <2>4, <2>5, <2>6 DEF SharedStep
<1>4. RetryBudget'
  BY <1>1 DEF Judgement, KeptInv, RetryBudget
<1>5. BudgetInv' /\ CostInv'
  <2>1. node' \in Beginning \cup AgentNodes =>
          /\ node \in Beginning /\ node' \in Beginning \cup {"run_planner"}
          /\ UNCHANGED retries
    BY <1>3 DEF Beginning, AgentNodes, CheckpointNodes, DeliveryNodes
  <2> QED BY <1>1, <2>1 DEF Judgement, KeptInv, BudgetInv, CostInv, Beginning,
                            AgentNodes
<1>6. JudgedInv'
  <2>1. node' \in Owed => node \in Owed
    BY <1>3 DEF CheckpointNodes, DeliveryNodes
  <2>2. node' \notin {"run_coder", "run_reviewer", "run_qa"}
    BY <1>3 DEF CheckpointNodes, DeliveryNodes, AgentNodes
  <2> QED BY <1>2, <2>1, <2>2 DEF KeptInv, JudgedInv
<1>7. PushedEditWasJudged'
  <2>1. CASE node \in Owed
    BY <1>2, <2>1 DEF KeptInv, JudgedInv, PushedEditWasJudged
  <2>2. CASE commits' > 0 => commits > 0
    BY <1>2, <2>2 DEF KeptInv, PushedEditWasJudged
  <2>3. CASE node \in Beginning
    <3>1. commits' = 0
      BY <2>3 DEF SafeInv, DeliveryInv, Beginning, HumanStep, SharedStep,
                  RunSupervisor, IndexRepo, HaltTestFailure,
                  RunSupervisorFinalize, Interrupt, RunCommitAndPush,
                  RunOpenPr, Halt, ResumePreCommitPush, ResumePrePr,
                  ResumeEscalation, ResumeRetryExhausted, At, Resumed, github,
                  EscalationNodes, HitlNodes
    <3> QED BY <3>1 DEF PushedEditWasJudged
  <2> QED BY <1>3, <2>1, <2>2, <2>3 DEF Beginning
<1> QED BY <1>4, <1>5, <1>6, <1>7 DEF KeptInv

\* KeptInv is inductive relative to SafeInv.
LEMMA KeptStep ==
    ASSUME NoValidationFault
    PROVE  TypeOK /\ SafeInv /\ KeptInv /\ [Next]_vars => KeptInv'
<1> SUFFICES ASSUME TypeOK, SafeInv, KeptInv, [Next]_vars PROVE KeptInv'
  OBVIOUS
<1>1. CASE RunPlanner
  BY <1>1, PlannerKept
<1>2. CASE RunCoder
  BY <1>2, CoderKept
<1>3. CASE RunReviewer
  BY <1>3, ReviewerKept
<1>4. CASE RunQa
  BY <1>4, QaKept
<1>5. CASE HumanStep \/ (SharedStep /\ ~RunPlanner /\ ~RunQa)
  BY <1>5, OtherStepKept
<1>6. CASE UNCHANGED vars
  BY <1>6 DEF vars, products, github, history, KeptInv, BudgetInv, CostInv,
              JudgedInv, RetryBudget, PushedEditWasJudged, Judged
<1> QED BY <1>1, <1>2, <1>3, <1>4, <1>5, <1>6 DEF Next, GraphStep, Ended

\* Budget, cost and judgement are kept together where agents raise no
\* ValidationError.
THEOREM Kept == NoValidationFault => (Spec => []KeptInv)
<1> SUFFICES ASSUME NoValidationFault PROVE Spec => []KeptInv
  OBVIOUS
<1>1. TypeOK /\ SafeInv /\ KeptInv /\ [Next]_vars => KeptInv'
  BY KeptStep
<1> QED BY <1>1, KeptInit, TypeCorrect, Safe, PTL DEF Spec

\* The picture of the pipeline holds at every node.
THEOREM GraphInvariant == NoValidationFault => (Spec => []GraphInv)
<1>1. SafeInv /\ KeptInv => GraphInv
  BY DEF SafeInv, KeptInv, GraphInv
<1> QED BY <1>1, Safe, Kept, PTL

\* The Coder never gets more attempts than the retry budget, for every budget.
THEOREM RetriesAreBounded == NoValidationFault => (Spec => []RetryBudget)
<1>1. KeptInv => RetryBudget
  BY DEF KeptInv
<1> QED BY <1>1, Kept, PTL

\* Whenever an agent may be called, total_cost_usd is true and within budget.
THEOREM CostIsTrue == NoValidationFault => (Spec => []CostIsComplete)
<1>1. KeptInv => CostIsComplete
  BY DEF KeptInv, CostInv, CostIsComplete
<1> QED BY <1>1, Kept, PTL

\* No branch is pushed whose edit was not judged as it stands.
THEOREM PushesAreJudged == NoValidationFault => (Spec => []PushedEditWasJudged)
<1>1. KeptInv => PushedEditWasJudged
  BY DEF KeptInv
<1> QED BY <1>1, Kept, PTL

-----------------------------------------------------------------------------
(* The topology implements the gate.  The fairness of the gate is checked by *)
(* TLC only; here every step is mapped to a step of the gate or to none.     *)

\* The gate's variables, as the refinement mapping gives them.
Phase == IF node = "END" THEN "closed"
         ELSE IF paused THEN "waiting"
         ELSE IF node \in DeliveryNodes THEN "authorised"
         ELSE "working"

Delivered == IF prs > 0 THEN "proposed"
             ELSE IF commits > 0 THEN "pushed" ELSE "nothing"

GateState == <<Phase, task.decision, Delivered>>

LEMMA GateInitially == Init => Gate!GateInit
<1> SUFFICES ASSUME Init PROVE Gate!GateInit
  OBVIOUS
<1>1. /\ node = "run_supervisor" /\ paused = FALSE /\ commits = 0 /\ prs = 0
      /\ task = [status |-> "running", decision |-> "none"]
  BY DEF Init
<1>2. task.decision = "none"
  BY <1>1
<1> QED BY <1>1, <1>2 DEF Gate!GateInit, DeliveryNodes

\* A step that stays among the agents and the checkpoints is none of the gate's.
LEMMA InnerStep ==
    ASSUME UNCHANGED <<paused, task, github>>,
           node # "END", node' # "END",
           node \in DeliveryNodes <=> node' \in DeliveryNodes
    PROVE  UNCHANGED GateState
BY DEF GateState, Phase, Delivered, github

LEMMA AgentStepGate ==
    ASSUME TypeOK, SafeInv, RunPlanner \/ RunCoder \/ RunReviewer \/ RunQa
    PROVE  UNCHANGED GateState
<1>1. node \in AgentNodes
  BY DEF RunPlanner, RunCoder, RunReviewer, RunQa, At, AgentNodes
<1>2. /\ UNCHANGED <<paused, task, github>>
      /\ Stopped' \/ node' \in AgentNodes \cup {"run_supervisor_finalize",
                          "halt_retry_exhausted", "halt_test_failure"}
  <2>1. CASE RunPlanner
    BY <2>1, PlannerStep DEF SafeInv, AgentNodes, OffLimits
  <2>2. CASE RunCoder
    BY <2>2, CoderStep DEF SafeInv, AgentNodes, OffLimits
  <2>3. CASE RunReviewer
    BY <2>3, ReviewerStep DEF SafeInv, AgentNodes, AfterVerdict, OffLimits
  <2>4. CASE RunQa
    BY <2>4, QaStep DEF SafeInv, OffLimits
  <2> QED BY <2>1, <2>2, <2>3, <2>4
<1>3. Stopped' => node' \in {"halt_cost_budget_exhausted", "halt_task_failed"}
                              \cup EscalationNodes
  <2>1. HaltOf.cost_budget_exhausted = "halt_cost_budget_exhausted"
        /\ HaltOf.guardrail_block = "hitl_guardrail_escalation"
        /\ HaltOf.loop_detected = "hitl_loop_detected"
        /\ HaltOf.uncertainty_escalation = "hitl_uncertainty_escalation"
    BY DEF HaltOf
  <2> QED BY <2>1 DEF Stopped, Escalations, EscalationNodes
<1>4. node' # "END" /\ node' \notin DeliveryNodes
  BY <1>2, <1>3 DEF AgentNodes, EscalationNodes, DeliveryNodes
<1> QED BY <1>1, <1>2, <1>4, InnerStep DEF AgentNodes, DeliveryNodes

\* The steps to END before anything was written.
LEMMA WorkEnds ==
    ASSUME Phase = "working", node' = "END", UNCHANGED <<task, github>>
    PROVE  Gate!GiveUp
BY DEF Gate!GiveUp, Phase, github

LEMMA OtherStepGate ==
    ASSUME TypeOK, SafeInv,
           \/ RunSupervisor \/ IndexRepo \/ HaltTestFailure
           \/ RunSupervisorFinalize \/ Interrupt \/ RunCommitAndPush
           \/ RunOpenPr \/ Halt
    PROVE  Gate!GateNext \/ UNCHANGED GateState
<1> USE DEF Gate!GateNext, Gate!OwnStep
<1>1. CASE RunSupervisor \/ IndexRepo \/ RunSupervisorFinalize
  <2>1. UNCHANGED <<paused, task, github>>
    BY <1>1 DEF RunSupervisor, IndexRepo, RunSupervisorFinalize, database
  <2>2. /\ node \in {"run_supervisor", "index_repo", "run_supervisor_finalize"}
        /\ node' \in {"index_repo", "run_planner"} \cup CheckpointNodes
    BY <1>1 DEF RunSupervisor, IndexRepo, RunSupervisorFinalize, At,
                AfterFinalize, CheckpointNodes
  <2> QED BY <2>1, <2>2, InnerStep DEF CheckpointNodes, DeliveryNodes
<1>2. CASE HaltTestFailure
  <2>1. testFails = 0
    BY <1>2 DEF HaltTestFailure, At, SafeInv, UndecidedInv
  <2>2. node' = "END" /\ UNCHANGED <<task, github>>
    BY <1>2, <2>1 DEF HaltTestFailure, PersistentTestFailureThreshold, database
  <2>3. Phase = "working"
    BY <1>2 DEF HaltTestFailure, At, Phase, DeliveryNodes
  <2> QED BY <2>2, <2>3, WorkEnds
<1>3. CASE Interrupt
  <2>1. /\ node \in HitlNodes /\ node' = node /\ ~paused /\ paused'
        /\ UNCHANGED github
    BY <1>3 DEF Interrupt
  <2>2. task'.decision = task.decision
    BY <1>3 DEF Interrupt, TypeOK, DatabaseType
  <2>3. Phase = "working" /\ Phase' = "waiting"
    BY <2>1 DEF Phase, DeliveryNodes, HitlNodes, EscalationNodes
  <2> QED BY <2>1, <2>2, <2>3 DEF Gate!Ask, Phase, github
<1>4. CASE RunCommitAndPush
  <2>1. /\ node = "run_commit_and_push" /\ node' \in DeliveryNodes
        /\ ~paused /\ UNCHANGED <<paused, task, prs>>
        /\ commits' \in {commits, commits + 1}
    BY <1>4 DEF RunCommitAndPush, At, RouteAfterCommitAndPush, DeliveryNodes,
                database
  <2>2. commits = 0 /\ prs = 0
    BY <2>1 DEF SafeInv, DeliveryInv
  <2>3. CASE commits' = commits
    BY <2>1, <2>2, <2>3, InnerStep DEF github, DeliveryNodes
  <2>4. CASE commits' = commits + 1
    <3>1. Phase = "authorised" /\ Phase' = "authorised"
      BY <2>1 DEF Phase, DeliveryNodes
    <3> QED BY <2>1, <2>2, <2>4, <3>1 DEF Gate!Push, Phase
  <2> QED BY <2>1, <2>3, <2>4
<1>5. CASE RunOpenPr
  <2>1. /\ node = "run_open_pr" /\ node' = "END"
        /\ ~paused /\ UNCHANGED <<task, commits>>
        /\ prs' \in {prs, prs + 1}
    BY <1>5 DEF RunOpenPr, At, database
  <2>2. commits = 1 /\ prs = 0
    BY <2>1 DEF SafeInv, DeliveryInv
  <2>3. Phase = "authorised" /\ Phase' = "closed"
    BY <2>1 DEF Phase, DeliveryNodes
  <2>4. CASE prs' = prs
    BY <2>1, <2>2, <2>3, <2>4 DEF Gate!GiveUp, Phase
  <2>5. CASE prs' = prs + 1
    BY <2>1, <2>2, <2>3, <2>5 DEF Gate!Propose, Phase
  <2> QED BY <2>1, <2>4, <2>5
<1>6. CASE Halt
  <2>1. /\ node \in HaltNodes /\ node' = "END" /\ ~paused
        /\ UNCHANGED <<task, github>>
    BY <1>6 DEF Halt, HaltNodes, database
  <2>2. Phase \in {"working", "authorised"} /\ Phase' = "closed"
    BY <2>1 DEF Phase, HaltNodes
  <2> QED BY <2>1, <2>2 DEF Gate!GiveUp, Phase, github
<1> QED BY <1>1, <1>2, <1>3, <1>4, <1>5, <1>6

\* Only the approval at hitl_pre_pr opens the gate.
LEMMA HumanStepGate ==
    ASSUME Decisions = {"approve"}, TypeOK, SafeInv, HumanStep
    PROVE  Gate!GateNext
<1> USE DEF Gate!GateNext
<1>1. "reject" \notin Decisions
  OBVIOUS
<1>2. /\ paused /\ node \in HitlNodes /\ ~paused' /\ UNCHANGED github
      /\ \/ /\ task' = [task EXCEPT !.status = "running"]
            /\ node' \in {"hitl_pre_pr", "END"}
         \/ /\ task' = [status |-> "running", decision |-> "approve"]
            /\ node' = "run_commit_and_push"
  BY <1>1 DEF HumanStep, ResumePreCommitPush, ResumePrePr, ResumeEscalation,
              ResumeRetryExhausted, Resumed, HitlNodes
<1>3. Phase = "waiting"
  BY <1>2 DEF Phase, HitlNodes, EscalationNodes
<1>4. CASE /\ task' = [task EXCEPT !.status = "running"]
           /\ node' \in {"hitl_pre_pr", "END"}
  <2>1. task'.decision = task.decision
    BY <1>4 DEF TypeOK, DatabaseType
  <2>2. Phase' \in {"working", "closed"}
    BY <1>2, <1>4 DEF Phase, DeliveryNodes
  <2> QED BY <1>2, <1>3, <2>1, <2>2 DEF Gate!Continue, Phase, github
<1>5. CASE /\ task' = [status |-> "running", decision |-> "approve"]
           /\ node' = "run_commit_and_push"
  <2>1. task'.decision = "approve"
    BY <1>5
  <2>2. Phase' = "authorised"
    BY <1>2, <1>5 DEF Phase, DeliveryNodes
  <2> QED BY <1>2, <1>3, <2>1, <2>2 DEF Gate!Grant, Phase, github
<1> QED BY <1>2, <1>4, <1>5

\* Under approvals alone every behaviour of the topology is, seen through the
\* mapping, a behaviour of the gate's next-state relation: nothing is pushed or
\* proposed but after Grant, and each at most once.
THEOREM GateRefined ==
    Decisions = {"approve"} =>
        (Spec => Gate!GateInit /\ [][Gate!GateNext]_GateState)
<1> SUFFICES ASSUME Decisions = {"approve"}
             PROVE  Spec => Gate!GateInit /\ [][Gate!GateNext]_GateState
  OBVIOUS
<1>1. TypeOK /\ SafeInv /\ [Next]_vars => [Gate!GateNext]_GateState
  <2> SUFFICES ASSUME TypeOK, SafeInv, [Next]_vars
               PROVE  Gate!GateNext \/ UNCHANGED GateState
    OBVIOUS
  <2>1. CASE GraphStep
    BY <2>1, AgentStepGate, OtherStepGate DEF GraphStep, SharedStep
  <2>2. CASE HumanStep
    BY <2>2, HumanStepGate
  <2>3. CASE UNCHANGED vars
    BY <2>3 DEF vars, database, github, GateState, Phase, Delivered
  <2> QED BY <2>1, <2>2, <2>3 DEF Next, Ended
<1> QED BY <1>1, GateInitially, TypeCorrect, Safe, PTL DEF Spec

-----------------------------------------------------------------------------
(* The uncertainty tracker.                                                 *)

\* A turn either leaves the tracker as it was, or fires it and escalates.
Fires == fired' = fired \/ outcome' = "uncertainty_escalation"

LEMMA FailedTurnFires ==
    ASSUME TypeOK, NEW a, NEW c,
           Failed(a, c) \/ Blocked(a, c) \/ Invalid(a, c) \/ OverBudget(c)
    PROVE  Fires
<1>1. CASE Failed(a, c) \/ Blocked(a, c) \/ OverBudget(c)
  BY <1>1 DEF Failed, Blocked, OverBudget, tracker, Fires
<1>2. CASE Invalid(a, c)
  <2>1. /\ fired' = (fired \/ PydanticTrips(a))
        /\ PydanticTrips(a) => ~fired /\ outcome' = "uncertainty_escalation"
    BY <1>2 DEF Invalid, PydanticTrips
  <2>2. fired \in BOOLEAN
    BY DEF TypeOK, TrackerType
  <2> QED BY <2>1, <2>2 DEF Fires
<1> QED BY <1>1, <1>2

LEMMA ToolsFire ==
    ASSUME NEW tools, ToolsEscalate(tools)
    PROVE  fired' = fired
BY DEF ToolsEscalate

\* An agent that fires the tracker is followed by the human node.
LEMMA AgentStepFires ==
    ASSUME TypeOK, RunPlanner \/ RunCoder \/ RunReviewer \/ RunQa
    PROVE  Fires /\ \E onward : node' = Route(outcome', status', onward)
<1>1. CASE RunPlanner
  <2>1. PICK c : \/ Failed("planner", c) \/ PlannerInvalid(c)
                 \/ OverBudget(c) \/ PlannerDone(c)
    BY <1>1 DEF RunPlanner
  <2>2. ASSUME PlannerInvalid(c) PROVE Fires
    BY <2>2 DEF PlannerInvalid, Fires
  <2>3. ASSUME PlannerDone(c) PROVE Fires
    BY <2>3 DEF PlannerDone, Fires
  <2>4. node' = Route(outcome', status', "run_coder")
    BY <1>1 DEF RunPlanner, RouteAfterPlanner
  <2> QED BY <2>1, <2>2, <2>3, <2>4, FailedTurnFires
<1>2. CASE RunCoder
  <2>1. PICK c : \/ Failed("coder", c) \/ Blocked("coder", c)
                 \/ Invalid("coder", c) \/ OverBudget(c)
                 \/ \E h, tools : CoderTurn(h, c, tools)
    BY <1>2 DEF RunCoder
  <2>2. ASSUME NEW h, NEW tools, CoderTurn(h, c, tools) PROVE fired' = fired
    BY <2>2, ToolsFire DEF CoderTurn
  <2>3. node' = Route(outcome', status', "run_reviewer")
    BY <1>2 DEF RunCoder, RouteAfterCoder
  <2> QED BY <2>1, <2>2, <2>3, FailedTurnFires DEF Fires
<1>3. CASE RunReviewer
  <2>1. PICK c : \/ Failed("reviewer", c) \/ Blocked("reviewer", c)
                 \/ Invalid("reviewer", c) \/ OverBudget(c)
                 \/ \E verdict, tools : ReviewerTurn(verdict, c, tools)
    BY <1>3 DEF RunReviewer
  <2>2. ASSUME NEW verdict, NEW tools, ReviewerTurn(verdict, c, tools) PROVE Fires
    <3>1. CASE SameFixEscalates(verdict)
      BY <3>1 DEF SameFixEscalates, Fires
    <3>2. CASE ReviewToolsEscalate(verdict, tools)
      BY <3>2, ToolsFire DEF ReviewToolsEscalate, Fires
    <3>3. CASE ReviewStored(verdict, c, tools)
      BY <3>3 DEF ReviewStored, Fires
    <3> QED BY <2>2, <3>1, <3>2, <3>3 DEF ReviewerTurn
  <2>3. \E onward : node' = Route(outcome', status', onward)
    BY <1>3 DEF RunReviewer, RouteAfterReview
  <2> QED BY <2>1, <2>2, <2>3, FailedTurnFires
<1>4. CASE RunQa
  <2>1. PICK c : \/ Failed("qa", c) \/ Blocked("qa", c)
                 \/ Invalid("qa", c) \/ OverBudget(c)
                 \/ \E rep, tools : QaTurn(rep, c, tools)
    BY <1>4 DEF RunQa
  <2>2. ASSUME NEW rep, NEW tools, QaTurn(rep, c, tools) PROVE fired' = fired
    BY <2>2, ToolsFire DEF QaTurn
  <2>3. \E onward : node' = Route(outcome', status', onward)
    BY <1>4 DEF RunQa, RouteAfterQa
  <2> QED BY <2>1, <2>2, <2>3, FailedTurnFires DEF Fires
<1> QED BY <1>1, <1>2, <1>3, <1>4

LEMMA OtherStepFires ==
    ASSUME FiredMeansAsked,
           \/ RunSupervisor \/ IndexRepo \/ HaltTestFailure
           \/ RunSupervisorFinalize \/ Interrupt \/ RunCommitAndPush
           \/ RunOpenPr \/ Halt \/ HumanStep
    PROVE  FiredMeansAsked'
<1> USE DEF FiredMeansAsked, At, Resumed, tracker
<1>1. CASE RunSupervisor \/ IndexRepo \/ RunSupervisorFinalize \/ RunCommitAndPush
  BY <1>1 DEF RunSupervisor, IndexRepo, RunSupervisorFinalize, RunCommitAndPush
<1>2. CASE HaltTestFailure \/ RunOpenPr \/ Halt
  BY <1>2 DEF HaltTestFailure, RunOpenPr, Halt
<1>3. CASE Interrupt
  BY <1>3 DEF Interrupt
<1>4. CASE HumanStep
  BY <1>4 DEF HumanStep, ResumePreCommitPush, ResumePrePr, ResumeEscalation,
              ResumeRetryExhausted
<1> QED BY <1>1, <1>2, <1>3, <1>4

\* Once the tracker has fired nothing comes but the node that asks a person,
\* whatever the agents raise.
THEOREM FiredIsAsked == Spec => []FiredMeansAsked
<1>1. Init => FiredMeansAsked
  BY DEF Init, FiredMeansAsked
<1>2. TypeOK /\ FiredMeansAsked /\ [Next]_vars => FiredMeansAsked'
  <2> SUFFICES ASSUME TypeOK, FiredMeansAsked, [Next]_vars
               PROVE  FiredMeansAsked'
    OBVIOUS
  <2>1. CASE RunPlanner \/ RunCoder \/ RunReviewer \/ RunQa
    <3>1. node \in AgentNodes
      BY <2>1 DEF RunPlanner, RunCoder, RunReviewer, RunQa, At, AgentNodes
    <3>2. ~fired
      BY <3>1 DEF FiredMeansAsked, AgentNodes
    <3>3. PICK onward : node' = Route(outcome', status', onward)
      BY <2>1, AgentStepFires
    <3>4. outcome' = "uncertainty_escalation" => node' = "hitl_uncertainty_escalation"
      BY <3>3 DEF Route, HaltOf
    <3> QED BY <2>1, <3>2, <3>4, AgentStepFires DEF Fires, FiredMeansAsked
  <2>2. CASE UNCHANGED vars
    BY <2>2 DEF vars, tracker, FiredMeansAsked
  <2> QED BY <2>1, <2>2, OtherStepFires DEF Next, GraphStep, SharedStep, Ended
<1> QED BY <1>1, <1>2, TypeCorrect, PTL DEF Spec
=============================================================================
