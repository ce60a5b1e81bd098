--------------------------- MODULE SupervisorGraph ---------------------------
(***************************************************************************)
(* The supervisor_only topology: planner, coder, reviewer and QA run in    *)
(* sequence, and a reject_with_changes verdict sends the task back to the  *)
(* coder until the retry budget is used up                                 *)
(* (build_supervisor_only_graph, src/src/orchestrator/supervisor_only.py). *)
(***************************************************************************)
EXTENDS AgentGraph

RouteAfterCoder(out, st) == Route(out, st, "run_reviewer")

\* Slip: one attempt too many.
RouteAfterReviewOffByOne(out, st, verdict, attempts) ==
    Route(out, st,
          IF verdict = "accept" THEN "run_qa"
          ELSE IF verdict # "reject_with_changes" THEN "run_supervisor_finalize"
          ELSE IF attempts > MaxRetries THEN "halt_retry_exhausted"
          ELSE "run_coder")

\* No review "should not happen, advance to finalize".
RouteAfterReview(out, st, verdict, attempts) ==
    Route(out, st,
          IF verdict = "accept" THEN "run_qa"
          ELSE IF verdict # "reject_with_changes" THEN "run_supervisor_finalize"
          ELSE IF attempts >= MaxRetries THEN "halt_retry_exhausted"
          ELSE "run_coder")

\* The coder produced the edit h.
CoderTurn(h, c, tools) ==
    /\ WithinBudget(c)
    /\ \/ /\ ToolsEscalate(tools)
          /\ pydFails' = Resets("coder")
          /\ UNCHANGED rejected
       \/ /\ tools \in {"quiet", "changed"}
          /\ edit' = h
          /\ retries' = retries + 1
          /\ cost' = cost + c
          /\ ResetUnlessChanged("coder", tools)
          /\ fresh' = {}
          /\ UNCHANGED <<control, plan, review, report, rejected, testFails,
                         fired, database>>
    /\ UNCHANGED rejects

RunCoder ==
    /\ At("run_coder")
    /\ turns' = turns + 1
    /\ \E c \in IF plan THEN CallCosts ELSE {0} :
        \/ /\ plan
           /\ Failed("coder", c) \/ Blocked("coder", c) \/ Invalid("coder", c)
        \/ OverBudget(c)
        \/ \E h \in IF plan THEN DiffHashes ELSE {NoEdit}, tools \in ToolReadings :
              CoderTurn(h, c, tools)
    /\ node' = RouteAfterCoder(outcome', status')
    /\ UNCHANGED <<paused, github>>

\* The verdict is counted against the diff (_record_diff_rejection_check).
CountsRejection(verdict) ==
    verdict = "reject_with_changes" /\ edit # NoEdit /\ ~fired

DiffTrips == rejected[edit] + 1 >= DiffRejectionThreshold

Counted == [rejected EXCEPT ![edit] = @ + 1]

\* The same fix was rejected twice: the verdict and the cost are dropped.
SameFixEscalates(verdict) ==
    /\ CountsRejection(verdict)
    /\ DiffTrips
    /\ rejected' = Counted
    /\ fired' = TRUE
    /\ outcome' = "uncertainty_escalation"
    /\ status' = "awaiting_hitl"
    /\ UNCHANGED <<products, retries, cost, pydFails, testFails, database, fresh>>

\* {**tool_recordings_update, **success_update, **diff_rejection_update}: the
\* last of them puts this turn's reset of pydantic_fail_counters back.
ReviewToolsEscalate(verdict, tools) ==
    /\ ToolsEscalate(tools)
    /\ IF CountsRejection(verdict)
       THEN rejected' = Counted /\ UNCHANGED pydFails
       ELSE pydFails' = Resets("reviewer") /\ UNCHANGED rejected

\* {**success_update, **diff_rejection_update, **tool_recordings_update}: the
\* tool calls' update comes last and was computed from the state before the
\* turn, so it puts rejected_diff_hashes and pydantic_fail_counters back.
ReviewStored(verdict, c, tools) ==
    /\ tools \in {"quiet", "changed"}
    /\ review' = verdict
    /\ cost' = cost + c
    /\ rejected' = IF CountsRejection(verdict) /\ tools = "quiet"
                   THEN Counted ELSE rejected
    /\ IF CountsRejection(verdict) THEN UNCHANGED pydFails
                                   ELSE ResetUnlessChanged("reviewer", tools)
    /\ fresh' = fresh \cup {"review"}
    /\ UNCHANGED <<control, plan, edit, report, retries, testFails, fired,
                   database>>

ReviewerTurn(verdict, c, tools) ==
    /\ WithinBudget(c)
    /\ \/ SameFixEscalates(verdict)
       \/ /\ ~(CountsRejection(verdict) /\ DiffTrips)
          /\ \/ ReviewToolsEscalate(verdict, tools)
             \/ ReviewStored(verdict, c, tools)
    /\ rejects' = IF verdict = "reject_with_changes"
                  THEN [rejects EXCEPT ![edit] = @ + 1] ELSE rejects

RunReviewer ==
    /\ At("run_reviewer")
    /\ \E c \in CostsOnEdit :
        \/ /\ edit # NoEdit
           /\ Failed("reviewer", c) \/ Blocked("reviewer", c)
                                    \/ Invalid("reviewer", c)
        \/ OverBudget(c)
        \/ \E verdict \in IF edit = NoEdit THEN {"none"} ELSE Verdicts,
              tools \in ToolReadings : ReviewerTurn(verdict, c, tools)
    /\ node' = RouteAfterReview(outcome', status', review', retries')
    /\ UNCHANGED <<paused, github, turns>>

GraphStep == SharedStep \/ RunCoder \/ RunReviewer

Next == GraphStep \/ HumanStep \/ Ended

\* The event loop runs a due node; nothing obliges a person to decide.
Spec == Init /\ [][Next]_vars /\ WF_vars(GraphStep)

-----------------------------------------------------------------------------
(* What the supervisor_only topology promises *)

\* No agent lets a ValidationError out, which is how the agents are written:
\* a first parse falls back to a second call, whose failure is another error.
NoValidationFault == \A a \in Agents : "validation" \notin AgentFaults[a]

\* While an agent may still be called, total_cost_usd is all that was spent
\* and within MAX_COST_USD_PER_TASK: what a failed or dropped turn cost may go
\* unrecorded, but no further turn is then started on the wrong total.
CostIsComplete == node \in AgentNodes => cost = spent /\ cost <= MaxCost

\* Once the uncertainty tracker has fired, the only node still to come is the
\* one that asks a person (VAL-UNCERTAINTY-005 and -007).
FiredMeansAsked == fired => node \in {"hitl_uncertainty_escalation", "END"}

\* The graph as seen from outside.
DeliveryNodes ==
    {"run_commit_and_push", "run_open_pr", "halt_github_delivery_failed"}

Gate == INSTANCE GatedDelivery WITH
    phase <- IF node = "END" THEN "closed"
             ELSE IF paused THEN "waiting"
             ELSE IF node \in DeliveryNodes THEN "authorised"
             ELSE "working",
    answer <- task.decision,
    delivered <- IF prs > 0 THEN "proposed"
                 ELSE IF commits > 0 THEN "pushed" ELSE "nothing"

\* When every resume carries an approval, as resume_graph's do, the topology
\* implements the gate: a push needs an approval of the delivery itself, not
\* of an escalation or of the earlier pre-push checkpoint (VAL-HITL-CTRL-001,
\* -002, -003), and the graph never idles on its own.
ImplementsGatedDelivery == Gate!GatedDelivery

-----------------------------------------------------------------------------
(* Why they hold: invariants that a single step keeps.  The first group      *)
(* holds whatever the agents raise, the second where NoValidationFault does. *)

Beginning == {"run_supervisor", "index_repo"}

CheckpointNodes == {"hitl_pre_commit_push", "hitl_pre_pr"}

\* While agents are due nothing has been decided and nobody is waited for.
UndecidedInv ==
    /\ node \in Beginning \cup AgentNodes => outcome = "" /\ status = "running"
    /\ paused => node \in HitlNodes
    /\ node # "END" => testFails = 0 /\ outcome # "pr_opened"
    /\ node \in EscalationNodes \cup {"halt_task_failed"} => outcome # ""
    /\ node = "halt_task_failed" => outcome = "sandbox_failure"

\* What GitHub has seen at each node.
DeliveryInv ==
    /\ node \notin {"run_open_pr", "halt_github_delivery_failed", "END"}
         => commits = 0
    /\ node = "run_open_pr" => commits = 1
    /\ commits <= 1
    /\ node # "END" => prs = 0

\* The Coder's completed attempts are all its attempts.
BudgetInv ==
    /\ node \in Beginning \cup {"run_planner"} => turns = 0 /\ retries = 0
    /\ node = "run_coder" => turns = retries /\ retries < MaxRetries
    /\ node = "run_reviewer" => turns = retries /\ retries <= MaxRetries

CostInv == node \in Beginning \cup AgentNodes => cost = spent /\ cost <= MaxCost

\* The verdict and the report that led to a node are about the edit it has.
JudgedInv ==
    /\ node \in {"run_coder", "run_reviewer"} => plan
    /\ node \in {"run_reviewer", "run_qa"} => edit # NoEdit
    /\ node = "run_qa" => review = "accept" /\ "review" \in fresh
    /\ node \in {"run_supervisor_finalize"} \cup CheckpointNodes \cup DeliveryNodes
         => Judged

\* Together: the picture of the pipeline that every node relies on, of what is
\* decided, pushed, spent, attempted and judged by the time it runs.
GraphInv == UndecidedInv /\ DeliveryInv /\ BudgetInv /\ CostInv /\ JudgedInv

-----------------------------------------------------------------------------
(* What the repository says of it and the code does not do: a run shows  *)
(* a behaviour against it.                                                 *)

\* "Fires when the same hash is rejected a second time" (VAL-UNCERTAINTY-003):
\* but a Reviewer turn that made tool calls puts the count back.
SameFixTwiceEscalates ==
    (\E h \in DiffHashes : rejects[h] >= 2)
        => node \in {"hitl_uncertainty_escalation", "END"}
=============================================================================
