----------------------------- MODULE AgentGraph -----------------------------
(***************************************************************************)
(* The LangGraph state machine of one task: the state that flows through   *)
(* the graph (OrchestratorState, src/src/orchestrator/__init__.py), the    *)
(* task row and the outcome rows its nodes write, and the nodes that the   *)
(* supervisor_only and the hybrid topologies share.  A module that EXTENDS *)
(* this one adds the coder and reviewer nodes and the edges of a topology. *)
(*                                                                         *)
(* A node of the code is one action: LangGraph runs it to its end, merges  *)
(* the dict it returns into the state (a returned field overwrites), then  *)
(* evaluates the routing function on the merged state.  A HITL node is two *)
(* actions, because interrupt() leaves the node and resuming runs it again *)
(* from its first line.                                                    *)
(***************************************************************************)
EXTENDS Naturals

CONSTANTS
    DiffHashes,      \* the values CodeEdit.diff_hash takes
    NoEdit,          \* code_edit is None
    CallCosts,       \* what one agent turn may cost
    MaxCost,         \* get_max_cost_per_task()
    MaxRetries,      \* _MAX_RETRIES_PER_STEP
    BeforeWriteOps,  \* HITL_INTERRUPT_BEFORE_WRITE_OPS
    AgentFaults,     \* AgentFaults[a]: the ways the call of agent a may raise
    Decisions        \* the decisions Command(resume=...) carries

Agents == {"planner", "coder", "reviewer", "qa"}

FaultKinds == {"error", "validation", "guardrail"}

Verdicts == {"accept", "reject_with_changes", "reject"}

\* Three validation failures in a row, three test failures, two rejections
\* of one diff: the thresholds of UncertaintyEscalation.
PydanticFailThreshold == 3
PersistentTestFailureThreshold == 3
DiffRejectionThreshold == 2

ASSUME GraphAssumption ==
    /\ NoEdit \notin DiffHashes
    /\ CallCosts \subseteq Nat
    /\ MaxCost \in Nat
    /\ MaxRetries \in Nat \ {0}
    /\ BeforeWriteOps \in BOOLEAN
    /\ AgentFaults \in [Agents -> SUBSET FaultKinds]
    /\ Decisions \subseteq {"approve", "reject"}

VARIABLES
    node,      \* the node that runs next
    paused,    \* interrupt() was raised in node, Command(resume=...) is awaited
    \* OrchestratorState
    status,
    outcome,
    plan,      \* change_plan is not None
    edit,      \* code_edit, as its diff_hash
    review,    \* review_result, as its verdict
    report,    \* test_report: "none", "pass" (failed = 0) or "fail"
    retries,   \* retry_counters["coder_0"]: step_index never leaves 0
    cost,      \* total_cost_usd
    pydFails,  \* pydantic_fail_counters, per agent
    rejected,  \* rejected_diff_hashes
    testFails, \* test_failure_count
    fired,     \* uncertainty_fired
    \* Postgres
    task,      \* tasks.status and tasks.hitl_decision
    rows,      \* the number of rows in outcomes, per outcome
    \* GitHub
    commits,   \* commit_and_push calls that succeeded
    prs,       \* open_pull_request calls that succeeded
    \* History, read by the properties only
    turns,     \* Coder turns started
    spent,     \* what the agent turns cost, as they report it
    fresh,     \* which of review and report are about the current edit
    rejects    \* rejects[h]: reject_with_changes verdicts given on h

control == <<status, outcome>>
products == <<plan, edit, review, report>>
tracker == <<pydFails, rejected, testFails, fired>>
database == <<task, rows>>
github == <<commits, prs>>
history == <<turns, spent, fresh, rejects>>

vars == <<node, paused, control, products, retries, cost, tracker, database,
          github, history>>

-----------------------------------------------------------------------------
(* Values *)

Escalations == {"guardrail_block", "loop_detected", "uncertainty_escalation"}

Outcomes == Escalations \cup
    {"", "cost_budget_exhausted", "sandbox_failure", "review_rejected",
     "persistent_test_failure", "retry_budget_exhausted", "hitl_rejected",
     "github_delivery_failed", "pr_opened"}

\* The outcomes the nodes themselves insert into the outcomes table.
RowKinds == Escalations \cup {"hitl_rejected", "retry_budget_exhausted"}

Statuses == {"running", "awaiting_hitl", "pre_hitl", "rejected", "failed",
             "completed"}

AgentNodes == {"run_planner", "run_coder", "run_reviewer", "run_qa"}

HaltNodes == {"halt_cost_budget_exhausted", "halt_task_failed",
              "halt_github_delivery_failed"}

\* The nodes that call interrupt().
EscalationNodes == {"hitl_guardrail_escalation", "hitl_loop_detected",
                    "hitl_uncertainty_escalation"}
HitlNodes == EscalationNodes \cup
    {"halt_retry_exhausted", "hitl_pre_commit_push", "hitl_pre_pr"}

Nodes == AgentNodes \cup HaltNodes \cup HitlNodes \cup
    {"run_supervisor", "index_repo", "halt_test_failure",
     "run_supervisor_finalize", "run_commit_and_push", "run_open_pr", "END"}

ControlType ==
    /\ node \in Nodes
    /\ paused \in BOOLEAN
    /\ status \in Statuses
    /\ outcome \in Outcomes

ProductType ==
    /\ plan \in BOOLEAN
    /\ edit \in DiffHashes \cup {NoEdit}
    /\ review \in Verdicts \cup {"none"}
    /\ report \in {"none", "pass", "fail"}
    /\ fresh \in SUBSET {"review", "report"}

TrackerType ==
    /\ pydFails \in [Agents -> Nat]
    /\ rejected \in [DiffHashes -> Nat]
    /\ testFails \in Nat
    /\ fired \in BOOLEAN
    /\ rejects \in [DiffHashes -> Nat]

DatabaseType ==
    /\ task \in [status : {"running", "awaiting_hitl", "rejected"},
                 decision : {"none", "approve", "reject"}]
    /\ rows \in [RowKinds -> Nat]

CounterType ==
    /\ retries \in Nat
    /\ cost \in Nat
    /\ commits \in Nat
    /\ prs \in Nat
    /\ turns \in Nat
    /\ spent \in Nat

TypeOK == ControlType /\ ProductType /\ TrackerType /\ DatabaseType /\ CounterType

Init ==
    /\ node = "run_supervisor"
    /\ paused = FALSE
    /\ status = "running"
    /\ outcome = ""
    /\ plan = FALSE
    /\ edit = NoEdit
    /\ review = "none"
    /\ report = "none"
    /\ retries = 0
    /\ cost = 0
    /\ pydFails = [a \in Agents |-> 0]
    /\ rejected = [h \in DiffHashes |-> 0]
    /\ testFails = 0
    /\ fired = FALSE
    /\ task = [status |-> "running", decision |-> "none"]
    /\ rows = [k \in RowKinds |-> 0]
    /\ commits = 0
    /\ prs = 0
    /\ turns = 0
    /\ spent = 0
    /\ fresh = {}
    /\ rejects = [h \in DiffHashes |-> 0]

-----------------------------------------------------------------------------
(* Routing (routing.py): the merged state decides the next node. *)

HaltOf == [cost_budget_exhausted |-> "halt_cost_budget_exhausted",
           guardrail_block |-> "hitl_guardrail_escalation",
           loop_detected |-> "hitl_loop_detected",
           uncertainty_escalation |-> "hitl_uncertainty_escalation"]

\* Slips the runs are tested against: escalations halt like failures, or are
\* not looked at.
RouteHaltsEscalations(out, st, onward) ==
    IF out = "cost_budget_exhausted" THEN HaltOf[out]
    ELSE IF st \in {"failed", "awaiting_hitl"} THEN "halt_task_failed"
    ELSE onward

RouteSeesOnlyFailure(out, st, onward) ==
    IF st = "failed" THEN "halt_task_failed" ELSE onward

\* The prefix every route_after_* shares; onward is what follows it.
Route(out, st, onward) ==
    IF out \in DOMAIN HaltOf THEN HaltOf[out]
    ELSE IF st = "failed" THEN "halt_task_failed"
    ELSE onward

\* Slip: an edge that leaves the Coder out.
RouteAfterPlannerToReviewer(out, st) == Route(out, st, "run_reviewer")

RouteAfterPlanner(out, st) == Route(out, st, "run_coder")

\* Slip: the report is not looked at.
RouteAfterQaIgnoresReport(out, st, rep) ==
    Route(out, st, "run_supervisor_finalize")

\* No report "should not happen, advance to finalize".
RouteAfterQa(out, st, rep) ==
    Route(out, st, IF rep = "fail" THEN "halt_test_failure"
                                   ELSE "run_supervisor_finalize")

\* Slip: the result of the push is not looked at.
RouteAfterCommitAndPushBlind(out, st) == "run_open_pr"

RouteAfterCommitAndPush(out, st) ==
    IF out = "github_delivery_failed" \/ st = "failed"
    THEN "halt_github_delivery_failed"
    ELSE "run_open_pr"

-----------------------------------------------------------------------------
(* What the agent nodes have in common.  Each operator is one way a node   *)
(* returns; it leaves node' to the caller.                                 *)

At(n) == node = n /\ ~paused

InsertOutcome(k) == rows' = [rows EXCEPT ![k] = @ + 1]

\* Three ways to read the tool calls an agent made (recording.py): nothing
\* recorded or changed, changed windows, and two escalations.
ToolReadings == {"quiet", "changed", "loop", "errors"}

Resets(a) == [pydFails EXCEPT ![a] = 0]

\* except Exception: the agent call failed.  Its cost is not recorded.
Failed(a, c) ==
    /\ "error" \in AgentFaults[a]
    /\ outcome' = "sandbox_failure"
    /\ status' = "failed"
    /\ spent' = spent + c
    /\ UNCHANGED <<products, retries, cost, tracker, database, fresh, rejects>>

\* except GuardrailViolation: the outcome row is written here.
Blocked(a, c) ==
    /\ "guardrail" \in AgentFaults[a]
    /\ outcome' = "guardrail_block"
    /\ status' = "awaiting_hitl"
    /\ InsertOutcome("guardrail_block")
    /\ spent' = spent + c
    /\ UNCHANGED <<products, retries, cost, tracker, task, fresh, rejects>>

PydanticTrips(a) == ~fired /\ pydFails[a] + 1 >= PydanticFailThreshold

\* except ValidationError in coder, reviewer and qa.  The third failure in a
\* row escalates; before that the node returns the counters and neither an
\* outcome nor a status; a tracker that has fired counts nothing more and
\* the failure is an ordinary one.
Invalid(a, c) ==
    /\ "validation" \in AgentFaults[a]
    /\ pydFails' = IF fired THEN pydFails ELSE [pydFails EXCEPT ![a] = @ + 1]
    /\ fired' = (fired \/ PydanticTrips(a))
    /\ outcome' = IF fired THEN "sandbox_failure"
                  ELSE IF PydanticTrips(a) THEN "uncertainty_escalation"
                  ELSE outcome
    /\ status' = IF fired THEN "failed"
                 ELSE IF PydanticTrips(a) THEN "awaiting_hitl"
                 ELSE status
    /\ spent' = spent + c
    /\ UNCHANGED <<products, retries, cost, rejected, testFails, database,
                   fresh, rejects>>

\* The turn succeeded but took the task over its budget: nothing is kept of
\* it but the total.
OverBudget(c) ==
    /\ cost + c > MaxCost
    /\ outcome' = "cost_budget_exhausted"
    /\ status' = "failed"
    /\ cost' = cost + c
    /\ spent' = spent + c
    /\ UNCHANGED <<products, retries, tracker, database, fresh, rejects>>

\* Slip: the budget is not looked at.
WithinAnyBudget(c) == spent' = spent + c

WithinBudget(c) ==
    /\ cost + c <= MaxCost
    /\ spent' = spent + c

\* The tool calls escalate: {**tool_recordings_update, **success_update}.
\* The product, the cost and the retry of the turn are dropped, and
\* success_update, computed from the old state, puts uncertainty_fired back.
ToolsEscalate(tools) ==
    /\ \/ /\ tools = "loop"
          /\ outcome' = "loop_detected"
          /\ InsertOutcome("loop_detected")
       \/ /\ tools = "errors"
          /\ ~fired
          /\ outcome' = "uncertainty_escalation"
          /\ InsertOutcome("uncertainty_escalation")
    /\ status' = "awaiting_hitl"
    /\ UNCHANGED <<products, retries, cost, testFails, fired, task, fresh>>

\* A counter reset by this turn is put back when the tool calls changed
\* anything: their update, computed from the old state, is merged last.
ResetUnlessChanged(a, tools) ==
    pydFails' = IF tools = "changed" THEN pydFails ELSE Resets(a)

-----------------------------------------------------------------------------
(* The shared agent nodes *)

RunSupervisor ==
    /\ At("run_supervisor")
    /\ node' = "index_repo"
    /\ UNCHANGED <<paused, control, products, retries, cost, tracker, database,
                   github, history>>

\* A failed indexing is not fatal.
IndexRepo ==
    /\ At("index_repo")
    /\ node' = "run_planner"
    /\ UNCHANGED <<paused, control, products, retries, cost, tracker, database,
                   github, history>>

\* A planner failure of either kind halts the task, so one run of the planner
\* is all there is; its counters are returned only with an escalation.
PlannerInvalid(c) ==
    /\ "validation" \in AgentFaults["planner"]
    /\ IF PydanticTrips("planner")
       THEN /\ pydFails' = [pydFails EXCEPT !["planner"] = @ + 1]
            /\ fired' = TRUE
            /\ outcome' = "uncertainty_escalation"
            /\ status' = "awaiting_hitl"
       ELSE /\ outcome' = "sandbox_failure"
            /\ status' = "failed"
            /\ UNCHANGED <<pydFails, fired>>
    /\ spent' = spent + c
    /\ UNCHANGED <<products, retries, cost, rejected, testFails, database,
                   fresh, rejects>>

PlannerDone(c) ==
    /\ WithinBudget(c)
    /\ plan' = TRUE
    /\ cost' = cost + c
    /\ pydFails' = Resets("planner")
    /\ UNCHANGED <<control, edit, review, report, retries, rejected, testFails,
                   fired, database, fresh, rejects>>

RunPlanner ==
    /\ At("run_planner")
    /\ \E c \in CallCosts :
        \/ Failed("planner", c)
        \/ PlannerInvalid(c)
        \/ OverBudget(c)
        \/ PlannerDone(c)
    /\ node' = RouteAfterPlanner(outcome', status')
    /\ UNCHANGED <<paused, github, turns>>

\* QA replaces the report; without an edit it is not called.
QaTurn(rep, c, tools) ==
    /\ WithinBudget(c)
    /\ \/ /\ ToolsEscalate(tools)
          /\ pydFails' = Resets("qa")
          /\ UNCHANGED <<rejected, rejects>>
       \/ /\ tools \in {"quiet", "changed"}
          /\ report' = rep
          /\ cost' = cost + c
          /\ ResetUnlessChanged("qa", tools)
          /\ fresh' = fresh \cup {"report"}
          /\ UNCHANGED <<control, plan, edit, review, retries, rejected,
                         testFails, fired, database, rejects>>

\* What the reviewer and QA may cost: without an edit they are not called.
CostsOnEdit == IF edit = NoEdit THEN {0} ELSE CallCosts

RunQa ==
    /\ At("run_qa")
    /\ \E c \in CostsOnEdit :
        \/ /\ edit # NoEdit
           /\ Failed("qa", c) \/ Blocked("qa", c) \/ Invalid("qa", c)
        \/ OverBudget(c)
        \/ \E rep \in IF edit = NoEdit THEN {"none"} ELSE {"pass", "fail"},
              tools \in ToolReadings : QaTurn(rep, c, tools)
    /\ node' = RouteAfterQa(outcome', status', report')
    /\ UNCHANGED <<paused, github, turns>>

\* The third failing report in a row would escalate; the graph ends after one.
HaltTestFailure ==
    /\ At("halt_test_failure")
    /\ testFails' = testFails + 1
    /\ IF testFails' >= PersistentTestFailureThreshold /\ ~fired
       THEN /\ outcome' = "uncertainty_escalation"
            /\ status' = "awaiting_hitl"
            /\ fired' = TRUE
            /\ InsertOutcome("uncertainty_escalation")
            /\ task' = [task EXCEPT !.status = "awaiting_hitl"]
       ELSE /\ outcome' = "persistent_test_failure"
            /\ status' = "failed"
            /\ UNCHANGED <<fired, database>>
    /\ node' = "END"
    /\ UNCHANGED <<paused, products, retries, cost, pydFails, rejected, github,
                   history>>

-----------------------------------------------------------------------------
(* Finalization, the human checkpoints and the delivery *)

\* Slip: HITL_INTERRUPT_BEFORE_WRITE_OPS taken for "interrupt no more".
AfterFinalizeUnchecked ==
    IF BeforeWriteOps THEN "run_commit_and_push" ELSE "hitl_pre_pr"

\* The edge out of finalize is fixed when the graph is built.
AfterFinalize == IF BeforeWriteOps THEN "hitl_pre_commit_push" ELSE "hitl_pre_pr"

\* A terminal rejection sets the outcome, and takes the same edge.
RunSupervisorFinalize ==
    /\ At("run_supervisor_finalize")
    /\ IF review = "reject"
       THEN outcome' = "review_rejected" /\ status' = "failed"
       ELSE outcome' = outcome /\ status' = "pre_hitl"
    /\ node' = AfterFinalize
    /\ UNCHANGED <<paused, products, retries, cost, tracker, database, github,
                   history>>

\* A HITL node up to interrupt().  The retry halt inserts its outcome first.
Interrupt ==
    /\ node \in HitlNodes
    /\ ~paused
    /\ paused' = TRUE
    /\ task' = [task EXCEPT !.status = "awaiting_hitl"]
    /\ IF node = "halt_retry_exhausted"
       THEN InsertOutcome("retry_budget_exhausted")
       ELSE UNCHANGED rows
    /\ UNCHANGED <<node, control, products, retries, cost, tracker, github,
                   history>>

Resumed(n) == node = n /\ paused /\ paused' = FALSE

\* Slips: a status the row never has, and a status left as it was.
FinishFailed == task' = [status |-> "failed", decision |-> "reject"]

FinishWithoutStatus == task' = [task EXCEPT !.decision = "reject"]

\* finish_task(task_id, "rejected", hitl_decision="reject")
FinishRejected == task' = [status |-> "rejected", decision |-> "reject"]

\* Resuming runs the node again from its start and then past interrupt().  The
\* edge to hitl_pre_pr is taken whatever was decided.
ResumePreCommitPush ==
    /\ Resumed("hitl_pre_commit_push")
    /\ \/ /\ "reject" \in Decisions
          /\ FinishRejected
          /\ InsertOutcome("hitl_rejected")
          /\ outcome' = "hitl_rejected"
          /\ status' = "rejected"
       \/ /\ "approve" \in Decisions
          /\ task' = [task EXCEPT !.status = "running"]
          /\ UNCHANGED <<rows, control>>
    /\ node' = "hitl_pre_pr"
    /\ UNCHANGED <<products, retries, cost, tracker, github, history>>

\* The edge to run_commit_and_push is taken whatever was decided.
ResumePrePr ==
    /\ Resumed("hitl_pre_pr")
    /\ \/ /\ "reject" \in Decisions
          /\ FinishRejected
          /\ InsertOutcome("hitl_rejected")
          /\ outcome' = "hitl_rejected"
          /\ status' = "rejected"
       \/ /\ "approve" \in Decisions
          /\ task' = [status |-> "running", decision |-> "approve"]
          /\ UNCHANGED <<rows, control>>
    /\ node' = "run_commit_and_push"
    /\ UNCHANGED <<products, retries, cost, tracker, github, history>>

\* Each escalation node leads to END.  A rejection keeps the cause as outcome,
\* except for a guardrail; an approval clears it.
ResumeEscalation ==
    /\ \E n \in EscalationNodes : Resumed(n)
    /\ \/ /\ "reject" \in Decisions
          /\ FinishRejected
          /\ IF node = "hitl_guardrail_escalation"
             THEN /\ outcome' = "hitl_rejected"
                  /\ status' = "rejected"
             ELSE /\ UNCHANGED outcome
                  /\ status' = "failed"
          /\ InsertOutcome(outcome')
       \/ /\ "approve" \in Decisions
          /\ task' = [task EXCEPT !.status = "running"]
          /\ outcome' = ""
          /\ status' = "running"
          /\ UNCHANGED rows
    /\ node' = "END"
    /\ UNCHANGED <<products, retries, cost, tracker, github, history>>

\* Running the node again inserts its outcome row again.
ResumeRetryExhausted ==
    /\ Resumed("halt_retry_exhausted")
    /\ InsertOutcome("retry_budget_exhausted")
    /\ \/ /\ "reject" \in Decisions
          /\ FinishRejected
          /\ outcome' = "retry_budget_exhausted"
          /\ status' = "failed"
          /\ UNCHANGED retries
       \/ /\ "approve" \in Decisions
          /\ task' = [task EXCEPT !.status = "running"]
          /\ outcome' = ""
          /\ status' = "running"
          /\ retries' = 0
    /\ node' = "END"
    /\ UNCHANGED <<products, cost, tracker, github, history>>

DeliveryFailed == outcome' = "github_delivery_failed" /\ status' = "failed"

RunCommitAndPush ==
    /\ At("run_commit_and_push")
    /\ \/ commits' = commits + 1 /\ UNCHANGED control
       \/ DeliveryFailed /\ UNCHANGED commits
    /\ node' = RouteAfterCommitAndPush(outcome', status')
    /\ UNCHANGED <<paused, products, retries, cost, tracker, database, prs,
                   history>>

\* Without an edit no pull request is opened.
RunOpenPr ==
    /\ At("run_open_pr")
    /\ \/ /\ edit # NoEdit
          /\ prs' = prs + 1
          /\ outcome' = "pr_opened"
          /\ status' = "completed"
       \/ DeliveryFailed /\ UNCHANGED prs
    /\ node' = "END"
    /\ UNCHANGED <<paused, products, retries, cost, tracker, database, commits,
                   history>>

\* Slip: no edge leads from a halt node to END.
HaltForever == node \in HaltNodes /\ ~paused /\ UNCHANGED vars

\* halt_task_failed keeps the outcome of the stage that failed.
Halt ==
    /\ ~paused
    /\ \/ node = "halt_cost_budget_exhausted" /\ outcome' = "cost_budget_exhausted"
       \/ node = "halt_github_delivery_failed" /\ outcome' = "github_delivery_failed"
       \/ node = "halt_task_failed" /\ UNCHANGED outcome
    /\ status' = "failed"
    /\ node' = "END"
    /\ UNCHANGED <<paused, products, retries, cost, tracker, database, github,
                   history>>

\* The steps that are the graph's own: asyncio runs them once they are due.
SharedStep ==
    \/ RunSupervisor \/ IndexRepo \/ RunPlanner \/ RunQa
    \/ HaltTestFailure \/ RunSupervisorFinalize \/ Interrupt
    \/ RunCommitAndPush \/ RunOpenPr \/ Halt

\* The steps a person causes.
HumanStep ==
    \/ ResumePreCommitPush \/ ResumePrePr
    \/ ResumeEscalation \/ ResumeRetryExhausted

\* The graph has returned.
Ended == At("END") /\ UNCHANGED vars

-----------------------------------------------------------------------------
(* What both topologies promise *)

\* A task is pushed and proposed at most once, never proposed without a push,
\* and the final state says "completed, pr_opened" exactly when a pull request
\* exists (run_open_pr, VAL-HITL-CTRL-005 and -013).
OneDelivery ==
    /\ prs <= commits
    /\ commits <= 1
    /\ node = "END" =>
         (prs = 1 <=> status = "completed" /\ outcome = "pr_opened")

\* The dashboard shows a task as awaiting a decision exactly while a decision
\* can be given: from each interrupt() to its resume, whatever path led there.
AwaitingIffPaused == task.status = "awaiting_hitl" <=> paused

\* A task never ends with an escalation as its outcome unless a person saw the
\* escalation and refused to go on: an agent's trouble cannot slip past the
\* HITL nodes (VAL-GUARDRAIL-009, VAL-LOOP-DETECT-004, VAL-UNCERTAINTY-007,
\* VAL-RETRY-002).
EscalationsReachAHuman ==
    node = "END" /\ outcome \in Escalations \cup {"retry_budget_exhausted"}
        => task.decision = "reject"

\* The verdict and the report are about the edit in the state: it was not sent
\* back for changes, and if it was accepted its tests passed.  A terminal reject
\* is such a verdict, too.
Judged ==
    /\ "review" \in fresh
    /\ review # "reject_with_changes"
    /\ review = "accept" => "report" \in fresh /\ report = "pass"

\* What is pushed was judged as it stands, by a Reviewer that saw that very
\* edit and, when it accepted, by a QA run whose tests passed on that very
\* edit: no verdict or report of an earlier attempt is taken for this one's.
PushedEditWasJudged ==
    commits > 0 => Judged

\* The Coder is never started more often than the retry budget allows
\* (VAL-RETRY-002: "Third failure triggers escalation, not a fourth attempt").
RetryBudget == turns <= MaxRetries

\* Once a node has put an outcome into the state no agent runs any more: what
\* was planned, written, judged and spent stays as it was (the order of the
\* tests in the route_after_* functions; VAL-RETRY-004).
NoAgentAfterOutcome ==
    [][outcome # "" => UNCHANGED <<products, spent, turns>>]_vars

\* If whoever is asked always answers, the task ends: no loop of Coder and
\* Reviewer and no chain of checkpoints goes on for ever.
AnsweredTasksEnd == []<>(~paused) => <>(node = "END")
=============================================================================
