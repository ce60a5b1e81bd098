----------------------------- MODULE HybridGraph -----------------------------
(***************************************************************************)
(* The hybrid topology (src/src/orchestrator/hybrid.py): supervisor_only,  *)
(* but after the first attempt Reviewer and Coder hand the task to each    *)
(* other.  The span of a peer Coder hangs under the span of the Reviewer   *)
(* that sent it back.  The Coder and Reviewer nodes of this topology have  *)
(* none of the failure bookkeeping of supervisor_only: no validation       *)
(* counters, no record of tool calls, no count of rejected diffs.          *)
(***************************************************************************)
EXTENDS AgentGraph, Sequences

VARIABLES
    \* OrchestratorState
    handoffs,      \* peer_handoff_count
    reviewerSpan,  \* last_reviewer_span_id: the number of the review, 0 for ""
    \* History, read by the properties only
    reviews,       \* the spans of the Reviewer turns, 0 where none was created
    parents        \* the parent of each peer Coder's span, 0 for the supervisor

spans == <<handoffs, reviewerSpan, reviews, parents>>

hybridVars == <<vars, spans>>

HybridInit ==
    /\ Init
    /\ handoffs = 0
    /\ reviewerSpan = 0
    /\ reviews = <<>>
    /\ parents = <<>>

HybridNodes == Nodes \cup {"run_peer_coder"}

HybridTypeOK ==
    /\ node \in HybridNodes
    /\ paused \in BOOLEAN
    /\ status \in Statuses
    /\ outcome \in Outcomes
    /\ ProductType
    /\ TrackerType
    /\ DatabaseType
    /\ CounterType
    /\ handoffs \in Nat
    /\ reviewerSpan \in Nat
    /\ reviews \in Seq(Nat)
    /\ parents \in Seq(Nat)

-----------------------------------------------------------------------------
(* Routing *)

RouteAfterPeerCoder(out, st) == Route(out, st, "run_reviewer")

\* Slips: the peers argue on without looking at the budget, an accepted edit is
\* not tested, and every refusal is sent back.
RouteAfterReviewNoBudget(out, st, verdict, attempts) ==
    Route(out, st,
          IF verdict = "accept" THEN "run_qa"
          ELSE IF verdict = "reject_with_changes" THEN "run_peer_coder"
          ELSE "run_supervisor_finalize")

RouteAfterReviewSkipsQa(out, st, verdict, attempts) ==
    Route(out, st,
          IF verdict # "reject_with_changes" THEN "run_supervisor_finalize"
          ELSE IF attempts >= MaxRetries THEN "halt_retry_exhausted"
          ELSE "run_peer_coder")

RouteAfterReviewRetriesAll(out, st, verdict, attempts) ==
    Route(out, st,
          IF verdict = "accept" THEN "run_qa"
          ELSE IF attempts >= MaxRetries THEN "halt_retry_exhausted"
          ELSE "run_peer_coder")

\* No review "advances to finalize".
RouteAfterReviewHybrid(out, st, verdict, attempts) ==
    Route(out, st,
          IF verdict = "accept" THEN "run_qa"
          ELSE IF verdict # "reject_with_changes" THEN "run_supervisor_finalize"
          ELSE IF attempts >= MaxRetries THEN "halt_retry_exhausted"
          ELSE "run_peer_coder")

-----------------------------------------------------------------------------
(* The Coder *)

\* What a Coder may cost: without a plan it is not called.
CostsOnPlan == IF plan THEN CallCosts ELSE {0}

\* Slip: the cost of the turn stays out of the total.
EditCostUnstored(c) ==
    /\ WithinBudget(c)
    /\ edit' \in IF plan THEN DiffHashes ELSE {NoEdit}
    /\ retries' = retries + 1
    /\ fresh' = {}
    /\ UNCHANGED <<cost, control, plan, review, report, tracker, database,
                   rejects>>

\* The edit of either Coder.
EditStored(c) ==
    /\ WithinBudget(c)
    /\ edit' \in IF plan THEN DiffHashes ELSE {NoEdit}
    /\ retries' = retries + 1
    /\ cost' = cost + c
    /\ fresh' = {}
    /\ UNCHANGED <<control, plan, review, report, tracker, database, rejects>>

\* The first Coder has no handler of its own for a GuardrailViolation: it ends
\* as every other exception does.
FirstCoderFails(c) ==
    /\ plan
    /\ Failed("coder", c)

RunCoderSupervisor ==
    /\ At("run_coder")
    /\ turns' = turns + 1
    /\ \E c \in CostsOnPlan : FirstCoderFails(c) \/ OverBudget(c) \/ EditStored(c)
    /\ node' = Route(outcome', status', "run_reviewer")
    /\ UNCHANGED <<paused, github, handoffs, reviewerSpan, reviews, parents>>

\* last_reviewer_span_id or supervisor_span_id
PeerParent == reviewerSpan

PeerCoderTurn(c) ==
    \/ plan /\ (Failed("coder", c) \/ Blocked("coder", c)) /\ UNCHANGED handoffs
    \/ OverBudget(c) /\ UNCHANGED handoffs
    \/ EditStored(c) /\ handoffs' = handoffs + 1

RunPeerCoder ==
    /\ At("run_peer_coder")
    /\ turns' = turns + 1
    /\ parents' = Append(parents, PeerParent)
    /\ \E c \in CostsOnPlan : PeerCoderTurn(c)
    /\ node' = RouteAfterPeerCoder(outcome', status')
    /\ UNCHANGED <<paused, github, reviewerSpan, reviews>>

-----------------------------------------------------------------------------
(* The Reviewer *)

\* reviewer_span_id: without a tracing back end there is no span.
NewReviewerSpan == {Len(reviews) + 1, 0}

\* Slip: a review without a span leaves the last one's in the state.
KeptReviewerSpan(span) == IF span = 0 THEN reviewerSpan ELSE span

\* reviewer_span_id or ""
StoredReviewerSpan(span) == span

IsPeerLoop == handoffs > 0 /\ reviewerSpan # 0

ReviewStoredHybrid(verdict, c, span) ==
    /\ WithinBudget(c)
    /\ review' = verdict
    /\ cost' = cost + c
    /\ reviewerSpan' = StoredReviewerSpan(span)
    /\ handoffs' = IF IsPeerLoop /\ verdict = "reject_with_changes"
                   THEN handoffs + 1 ELSE handoffs
    /\ fresh' = fresh \cup {"review"}
    /\ rejects' = IF verdict = "reject_with_changes"
                  THEN [rejects EXCEPT ![edit] = @ + 1] ELSE rejects
    /\ UNCHANGED <<control, plan, edit, report, retries, tracker, database>>

\* Every exception of the Reviewer ends the same way.
RunReviewerHybrid ==
    /\ At("run_reviewer")
    /\ \E c \in CostsOnEdit, span \in NewReviewerSpan :
        /\ reviews' = Append(reviews, span)
        /\ \/ /\ edit # NoEdit
              /\ Failed("reviewer", c)
              /\ UNCHANGED <<handoffs, reviewerSpan>>
           \/ OverBudget(c) /\ UNCHANGED <<handoffs, reviewerSpan>>
           \/ \E verdict \in IF edit = NoEdit THEN {"none"} ELSE Verdicts :
                 ReviewStoredHybrid(verdict, c, span)
    /\ node' = RouteAfterReviewHybrid(outcome', status', review', retries')
    /\ UNCHANGED <<paused, github, turns, parents>>

-----------------------------------------------------------------------------
(* The graph: the nodes it shares with supervisor_only and its own three. *)

HybridStep ==
    \/ SharedStep /\ UNCHANGED spans
    \/ RunCoderSupervisor
    \/ RunPeerCoder
    \/ RunReviewerHybrid

HybridNext ==
    \/ HybridStep
    \/ HumanStep /\ UNCHANGED spans
    \/ Ended /\ UNCHANGED spans

HybridSpec == HybridInit /\ [][HybridNext]_hybridVars /\ WF_hybridVars(HybridStep)

-----------------------------------------------------------------------------
(* What the hybrid topology promises, beyond AgentGraph's properties *)

\* A peer Coder hangs under the Reviewer that sent the task back to it: the
\* n-th hand-off under the n-th review or, when that review has no span, under
\* the supervisor, never under an older review (VAL-TOPOLOGY-004 and -005, "a
\* chain of peer-handoff edges in the trace").
HandoffsFollowReviews ==
    \A n \in DOMAIN parents : n \in DOMAIN reviews /\ parents[n] = reviews[n]

\* Every hand-off is a Reviewer's refusal of the edit in the state: the peer
\* Coder is never started on a verdict that was about another edit, and its
\* hand-offs are the reviews so far.
PeerCoderAnswersItsReview ==
    node = "run_peer_coder" =>
        /\ review = "reject_with_changes" /\ "review" \in fresh
        /\ Len(reviews) = turns
        /\ Len(parents) = turns - 1

\* While an agent may still be called, peer Coder included, total_cost_usd is
\* all that was spent and within MAX_COST_USD_PER_TASK.
PeerCostIsComplete ==
    node \in AgentNodes \cup {"run_peer_coder"} => cost = spent /\ cost <= MaxCost
=============================================================================
