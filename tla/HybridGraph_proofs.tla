-------------------------- MODULE HybridGraph_proofs --------------------------
(* Theorems about HybridGraph, for every value of its constants. *)
EXTENDS HybridGraph, AgentGraph_proofs, SequenceTheorems

Beginning == {"run_supervisor", "index_repo"}

\* The nodes that come before anything is decided.
DueNodes == Beginning \cup AgentNodes \cup {"run_peer_coder"}

\* Where a turn that stops the task sends it.
StopNodes == EscalationNodes \cup {"halt_cost_budget_exhausted", "halt_task_failed"}

Numbers ==
    retries \in Nat /\ cost \in Nat /\ spent \in Nat /\ turns \in Nat
      /\ reviewerSpan \in Nat

Lists == reviews \in Seq(Nat) /\ parents \in Seq(Nat)

Amounts == Numbers /\ Lists

\* While an agent is due nothing has been decided.
Undecided == outcome = "" /\ status = "running"

UndecidedInv == node \in DueNodes => Undecided

\* The attempts of both Coders are counted, and one is left when either is due.
AttemptInv ==
    /\ turns <= MaxRetries
    /\ node \in Beginning \cup {"run_planner"} => turns = 0 /\ retries = 0
    /\ node = "run_coder" => turns = 0 /\ retries = 0
    /\ node = "run_reviewer" => turns = retries
    /\ node = "run_peer_coder" => turns = retries /\ retries < MaxRetries

MoneyInv == node \in DueNodes => cost = spent /\ cost <= MaxCost

\* Every hand-off so far hangs under its own review.
ChainInv ==
    /\ Len(parents) <= Len(reviews)
    /\ \A n \in 1..Len(parents) : parents[n] = reviews[n]

\* Coder and Reviewer take turns, and the span in the state is the last review's
\* when the peer Coder is due.
TurnInv ==
    /\ node \in Beginning \cup {"run_planner", "run_coder"}
         => reviews = <<>> /\ parents = <<>>
    /\ node = "run_reviewer" =>
         Len(reviews) + 1 = turns /\ Len(parents) + 1 = turns
    /\ node = "run_peer_coder" =>
         /\ Len(reviews) = turns /\ Len(parents) + 1 = turns
         /\ reviewerSpan = reviews[turns]
         /\ review = "reject_with_changes" /\ "review" \in fresh

HybridInv ==
    Amounts /\ UndecidedInv /\ AttemptInv /\ MoneyInv /\ ChainInv /\ TurnInv

-----------------------------------------------------------------------------
(* Routes *)

\* A route leads onward or to a halt or an escalation.
LEMMA RouteLeads ==
    ASSUME NEW out, NEW st, NEW onward
    PROVE  Route(out, st, onward) \in StopNodes \cup {onward}
<1>1. /\ DOMAIN HaltOf = {"cost_budget_exhausted", "guardrail_block",
                          "loop_detected", "uncertainty_escalation"}
      /\ HaltOf.cost_budget_exhausted = "halt_cost_budget_exhausted"
      /\ HaltOf.guardrail_block = "hitl_guardrail_escalation"
      /\ HaltOf.loop_detected = "hitl_loop_detected"
      /\ HaltOf.uncertainty_escalation = "hitl_uncertainty_escalation"
  BY DEF HaltOf
<1> QED BY <1>1 DEF Route, StopNodes, EscalationNodes

LEMMA RouteGoesOn ==
    ASSUME NEW onward, Undecided', node' = Route(outcome', status', onward)
    PROVE  node' = onward
BY DEF Route, HaltOf, Undecided

\* How a failed turn and a turn over the budget leave outcome and status.
Stops ==
    \/ outcome' \in {"cost_budget_exhausted", "guardrail_block",
                     "uncertainty_escalation"}
    \/ outcome' = "sandbox_failure" /\ status' = "failed"

LEMMA StopsAtStop ==
    ASSUME NEW onward, Stops, node' = Route(outcome', status', onward)
    PROVE  node' \in StopNodes
<1>1. /\ DOMAIN HaltOf = {"cost_budget_exhausted", "guardrail_block",
                          "loop_detected", "uncertainty_escalation"}
      /\ HaltOf.cost_budget_exhausted = "halt_cost_budget_exhausted"
      /\ HaltOf.guardrail_block = "hitl_guardrail_escalation"
      /\ HaltOf.loop_detected = "hitl_loop_detected"
      /\ HaltOf.uncertainty_escalation = "hitl_uncertainty_escalation"
  BY DEF HaltOf
<1> QED BY <1>1 DEF Route, Stops, StopNodes, EscalationNodes

LEMMA StopNodesAreNotDue == StopNodes \cap DueNodes = {}
BY DEF StopNodes, EscalationNodes, DueNodes, Beginning, AgentNodes

LEMMA CostsAreNaturals == CostsOnPlan \subseteq Nat /\ CostsOnEdit \subseteq Nat
BY GraphAssumption DEF GraphAssumption, CostsOnPlan, CostsOnEdit

\* What a turn that stops the task leaves behind.
LEMMA StoppedTurn ==
    ASSUME Amounts, NEW a, NEW c \in Nat,
           Failed(a, c) \/ Blocked(a, c) \/ OverBudget(c)
    PROVE  Stops /\ retries' = retries /\ cost' \in Nat /\ spent' \in Nat
<1>1. CASE Failed(a, c)
  BY <1>1 DEF Failed, Stops, Amounts, Numbers
<1>2. CASE Blocked(a, c)
  BY <1>2 DEF Blocked, Stops, Amounts, Numbers
<1>3. CASE OverBudget(c)
  BY <1>3 DEF OverBudget, Stops, Amounts, Numbers
<1> QED BY <1>1, <1>2, <1>3

\* Once no agent is due any more there is little to keep.
LEMMA NoLongerDue ==
    ASSUME Amounts', ChainInv', turns' <= MaxRetries, node' \notin DueNodes
    PROVE  HybridInv'
<1>1. node' \notin Beginning \cup AgentNodes \cup {"run_peer_coder"}
  BY DEF DueNodes
<1>2. UndecidedInv' /\ MoneyInv'
  BY DEF UndecidedInv, MoneyInv
<1>3. AttemptInv' /\ TurnInv'
  BY <1>1 DEF AttemptInv, TurnInv, AgentNodes
<1> QED BY <1>2, <1>3 DEF HybridInv

-----------------------------------------------------------------------------
(* The agents *)

LEMMA PlannerKeeps == HybridInv /\ RunPlanner /\ UNCHANGED spans => HybridInv'
<1> SUFFICES ASSUME HybridInv, RunPlanner, UNCHANGED spans PROVE HybridInv'
  OBVIOUS
<1>1. node = "run_planner" /\ node \in DueNodes
  BY DEF RunPlanner, At, DueNodes, AgentNodes
<1>2. /\ Undecided /\ cost = spent
      /\ turns = 0 /\ retries = 0
  BY <1>1 DEF HybridInv, UndecidedInv, MoneyInv, AttemptInv
<1>3. /\ node' = Route(outcome', status', "run_coder")
      /\ turns' = turns /\ reviews' = reviews /\ parents' = parents
      /\ reviewerSpan' = reviewerSpan
  BY DEF RunPlanner, RouteAfterPlanner, spans
<1>4. MaxRetries \in Nat \ {0} /\ CallCosts \subseteq Nat
  BY GraphAssumption DEF GraphAssumption
<1>5. Amounts
  BY DEF HybridInv
<1>6. Lists' /\ ChainInv' /\ reviews' = <<>> /\ parents' = <<>>
  BY <1>1, <1>3, <1>5 DEF Amounts, Lists, ChainInv, HybridInv, TurnInv
<1>7. PICK c \in CallCosts : \/ Failed("planner", c) \/ PlannerInvalid(c)
                             \/ OverBudget(c) \/ PlannerDone(c)
  BY DEF RunPlanner
<1>8. CASE Failed("planner", c) \/ PlannerInvalid(c) \/ OverBudget(c)
  <2>1. Stops /\ retries' = retries /\ cost' \in Nat /\ spent' \in Nat
    <3>1. CASE PlannerInvalid(c)
      BY <1>4, <1>5, <3>1 DEF PlannerInvalid, Stops, Amounts, Numbers
    <3> QED BY <1>4, <1>5, <1>8, <3>1, StoppedTurn
  <2>2. node' \notin DueNodes
    BY <1>3, <2>1, StopsAtStop, StopNodesAreNotDue
  <2>3. Numbers' /\ turns' <= MaxRetries
    BY <1>2, <1>3, <1>4, <1>5, <2>1 DEF Amounts, Numbers
  <2> QED BY <1>6, <2>2, <2>3, NoLongerDue DEF Amounts
<1>9. CASE PlannerDone(c)
  <2>1. /\ retries' = 0
        /\ cost' = cost + c /\ spent' = spent + c /\ cost + c <= MaxCost
    BY <1>2, <1>9 DEF PlannerDone, WithinBudget
  <2>2. Undecided'
    BY <1>2, <1>9 DEF PlannerDone, Undecided, control
  <2>3. node' = "run_coder"
    BY <1>3, <2>2, RouteGoesOn
  <2>4. Numbers'
    BY <1>2, <1>3, <1>4, <1>5, <2>1 DEF Amounts, Numbers
  <2>5. UndecidedInv' /\ MoneyInv'
    BY <1>2, <2>1, <2>2 DEF UndecidedInv, MoneyInv
  <2>6. AttemptInv'
    BY <1>2, <1>3, <1>4, <2>1, <2>3 DEF AttemptInv, Beginning
  <2>7. TurnInv'
    BY <1>6, <2>3 DEF TurnInv
  <2> QED BY <1>6, <2>4, <2>5, <2>6, <2>7 DEF HybridInv, Amounts
<1> QED BY <1>7, <1>8, <1>9

LEMMA FirstCoderKeeps == HybridInv /\ RunCoderSupervisor => HybridInv'
<1> SUFFICES ASSUME HybridInv, RunCoderSupervisor PROVE HybridInv'
  OBVIOUS
<1>1. node = "run_coder" /\ node \in DueNodes
  BY DEF RunCoderSupervisor, At, DueNodes, AgentNodes
<1>2. /\ Undecided /\ cost = spent
      /\ turns = 0 /\ retries = 0
  BY <1>1 DEF HybridInv, UndecidedInv, MoneyInv, AttemptInv
<1>3. /\ node' = Route(outcome', status', "run_reviewer")
      /\ turns' = turns + 1 /\ reviews' = reviews /\ parents' = parents
      /\ reviewerSpan' = reviewerSpan
  BY DEF RunCoderSupervisor
<1>4. MaxRetries \in Nat \ {0}
  BY GraphAssumption DEF GraphAssumption
<1>5. Amounts
  BY DEF HybridInv
<1>6. PICK c \in CostsOnPlan : FirstCoderFails(c) \/ OverBudget(c) \/ EditStored(c)
  BY DEF RunCoderSupervisor
<1>7. c \in Nat
  BY CostsAreNaturals
<1>8. Len(reviews') = 0 /\ Len(parents') = 0 /\ ChainInv' /\ Lists'
  BY <1>1, <1>3, <1>5 DEF Amounts, Lists, ChainInv, HybridInv, TurnInv
<1>9. turns' = 1
  BY <1>2, <1>3
<1>10. CASE FirstCoderFails(c) \/ OverBudget(c)
  <2>1. Stops /\ retries' = retries /\ cost' \in Nat /\ spent' \in Nat
    BY <1>5, <1>7, <1>10, StoppedTurn DEF FirstCoderFails
  <2>2. node' \notin DueNodes
    BY <1>3, <2>1, StopsAtStop, StopNodesAreNotDue
  <2>3. Numbers' /\ turns' <= MaxRetries
    BY <1>3, <1>4, <1>5, <1>9, <2>1 DEF Amounts, Numbers
  <2> QED BY <1>8, <2>2, <2>3, NoLongerDue DEF Amounts
<1>11. CASE EditStored(c)
  <2>1. /\ retries' = 1
        /\ cost' = cost + c /\ spent' = spent + c /\ cost + c <= MaxCost
    BY <1>2, <1>11 DEF EditStored, WithinBudget
  <2>2. Undecided'
    BY <1>2, <1>11 DEF EditStored, Undecided, control
  <2>3. node' = "run_reviewer"
    BY <1>3, <2>2, RouteGoesOn
  <2>4. Numbers'
    BY <1>3, <1>5, <1>7, <1>9, <2>1 DEF Amounts, Numbers
  <2>5. UndecidedInv' /\ MoneyInv'
    BY <1>2, <2>1, <2>2 DEF UndecidedInv, MoneyInv
  <2>6. AttemptInv'
    BY <1>4, <1>9, <2>1, <2>3 DEF AttemptInv, Beginning
  <2>7. TurnInv'
    BY <1>8, <1>9, <2>3 DEF TurnInv, Beginning
  <2> QED BY <1>8, <2>4, <2>5, <2>6, <2>7 DEF HybridInv, Amounts
<1> QED BY <1>6, <1>10, <1>11

\* The chain grows by an edge under the review that sent the task back.
LEMMA ChainGrows ==
    ASSUME NEW rs \in Seq(Nat), NEW ps \in Seq(Nat), Len(ps) + 1 = Len(rs),
           \A n \in 1..Len(ps) : ps[n] = rs[n], NEW p \in Nat, p = rs[Len(rs)]
    PROVE  LET qs == Append(ps, p) IN
             /\ qs \in Seq(Nat) /\ Len(qs) = Len(rs)
             /\ \A n \in 1..Len(qs) : qs[n] = rs[n]
<1> DEFINE qs == Append(ps, p)
<1>1. /\ qs \in Seq(Nat) /\ Len(qs) = Len(ps) + 1 /\ qs[Len(ps) + 1] = p
      /\ \A n \in 1..Len(ps) : qs[n] = ps[n]
  BY AppendProperties
<1>2. Len(ps) \in Nat
  OBVIOUS
<1>3. ASSUME NEW n \in 1..Len(qs) PROVE qs[n] = rs[n]
  <2>1. n \in 1..Len(ps) \/ n = Len(ps) + 1
    BY <1>1, <1>2
  <2>2. CASE n \in 1..Len(ps)
    BY <1>1, <2>2
  <2>3. CASE n = Len(ps) + 1
    BY <1>1, <2>3
  <2> QED BY <2>1, <2>2, <2>3
<1> QED BY <1>1, <1>3

\* More reviews do not touch the edges there are.
LEMMA ReviewAdded ==
    ASSUME NEW rs \in Seq(Nat), NEW ps \in Seq(Nat), Len(ps) <= Len(rs),
           \A n \in 1..Len(ps) : ps[n] = rs[n], NEW r \in Nat
    PROVE  LET qs == Append(rs, r) IN
             /\ qs \in Seq(Nat) /\ Len(qs) = Len(rs) + 1 /\ qs[Len(rs) + 1] = r
             /\ Len(ps) <= Len(qs)
             /\ \A n \in 1..Len(ps) : ps[n] = qs[n]
<1> DEFINE qs == Append(rs, r)
<1>1. /\ qs \in Seq(Nat) /\ Len(qs) = Len(rs) + 1 /\ qs[Len(rs) + 1] = r
      /\ \A n \in 1..Len(rs) : qs[n] = rs[n]
  BY AppendProperties
<1>2. Len(ps) \in Nat /\ Len(rs) \in Nat
  OBVIOUS
<1>3. \A n \in 1..Len(ps) : n \in 1..Len(rs)
  BY <1>2
<1> QED BY <1>1, <1>2, <1>3

LEMMA PeerCoderKeeps == HybridInv /\ RunPeerCoder => HybridInv'
<1> SUFFICES ASSUME HybridInv, RunPeerCoder PROVE HybridInv'
  OBVIOUS
<1>1. node = "run_peer_coder" /\ node \in DueNodes
  BY DEF RunPeerCoder, At, DueNodes
<1>2. /\ Undecided /\ cost = spent
      /\ turns = retries /\ retries < MaxRetries
      /\ Len(reviews) = turns /\ Len(parents) + 1 = turns
      /\ reviewerSpan = reviews[turns]
  BY <1>1 DEF HybridInv, UndecidedInv, MoneyInv, AttemptInv, TurnInv
<1>3. /\ node' = Route(outcome', status', "run_reviewer")
      /\ turns' = turns + 1 /\ reviews' = reviews
      /\ parents' = Append(parents, reviewerSpan)
      /\ reviewerSpan' = reviewerSpan
  BY DEF RunPeerCoder, RouteAfterPeerCoder, PeerParent
<1>4. MaxRetries \in Nat \ {0}
  BY GraphAssumption DEF GraphAssumption
<1>5. Amounts /\ ChainInv
  BY DEF HybridInv
<1>6. PICK c \in CostsOnPlan : PeerCoderTurn(c)
  BY DEF RunPeerCoder
<1>7. c \in Nat
  BY CostsAreNaturals
<1>8. Lists' /\ Len(parents') = Len(reviews')
      /\ \A n \in 1..Len(parents') : parents'[n] = reviews'[n]
  <2>1. reviews \in Seq(Nat) /\ parents \in Seq(Nat) /\ reviewerSpan \in Nat
    BY <1>5 DEF Amounts, Numbers, Lists
  <2>2. Len(parents) + 1 = Len(reviews) /\ reviewerSpan = reviews[Len(reviews)]
    BY <1>2
  <2>3. \A n \in 1..Len(parents) : parents[n] = reviews[n]
    BY <1>5 DEF ChainInv
  <2> QED BY <1>3, <2>1, <2>2, <2>3, ChainGrows DEF Lists
<1>9. ChainInv' /\ turns' \in Nat /\ turns' <= MaxRetries
  <2>1. ChainInv'
    <3>1. Len(reviews') \in Nat
      BY <1>8 DEF Lists
    <3> QED BY <1>8, <3>1 DEF ChainInv
  <2>2. turns \in Nat /\ retries \in Nat
    BY <1>5 DEF Amounts, Numbers, Lists
  <2> QED BY <1>2, <1>3, <1>4, <2>1, <2>2
<1>10. CASE Failed("coder", c) \/ Blocked("coder", c) \/ OverBudget(c)
  <2>1. Stops /\ retries' = retries /\ cost' \in Nat /\ spent' \in Nat
    BY <1>5, <1>7, <1>10, StoppedTurn
  <2>2. node' \notin DueNodes
    BY <1>3, <2>1, StopsAtStop, StopNodesAreNotDue
  <2>3. Numbers'
    BY <1>3, <1>5, <1>9, <2>1 DEF Amounts, Numbers
  <2> QED BY <1>8, <1>9, <2>2, <2>3, NoLongerDue DEF Amounts
<1>11. CASE EditStored(c)
  <2>1. /\ retries' = retries + 1
        /\ cost' = cost + c /\ spent' = spent + c /\ cost + c <= MaxCost
    BY <1>2, <1>11 DEF EditStored, WithinBudget
  <2>2. Undecided'
    BY <1>2, <1>11 DEF EditStored, Undecided, control
  <2>3. node' = "run_reviewer"
    BY <1>3, <2>2, RouteGoesOn
  <2>4. Numbers'
    BY <1>3, <1>5, <1>7, <1>9, <2>1 DEF Amounts, Numbers
  <2>5. UndecidedInv' /\ MoneyInv'
    BY <1>2, <2>1, <2>2 DEF UndecidedInv, MoneyInv
  <2>6. AttemptInv'
    BY <1>2, <1>3, <1>9, <2>1, <2>3 DEF AttemptInv, Beginning
  <2>7. TurnInv'
    BY <1>2, <1>3, <1>8, <2>3 DEF TurnInv, Beginning
  <2> QED BY <1>8, <1>9, <2>4, <2>5, <2>6, <2>7 DEF HybridInv, Amounts
<1> QED BY <1>6, <1>10, <1>11 DEF PeerCoderTurn

\* Where a Reviewer that goes on sends the task, by its verdict.
AfterVerdict ==
    \/ review = "accept" /\ node = "run_qa"
    \/ review = "reject_with_changes" /\ retries < MaxRetries
         /\ node = "run_peer_coder"
    \/ review = "reject_with_changes" /\ node = "halt_retry_exhausted"
    \/ review \notin {"accept", "reject_with_changes"}
         /\ node = "run_supervisor_finalize"

LEMMA VerdictRoutes ==
    ASSUME Undecided', retries' \in Nat,
           node' = RouteAfterReviewHybrid(outcome', status', review', retries')
    PROVE  AfterVerdict'
<1>1. node' = IF review' = "accept" THEN "run_qa"
              ELSE IF review' # "reject_with_changes" THEN "run_supervisor_finalize"
              ELSE IF retries' >= MaxRetries THEN "halt_retry_exhausted"
              ELSE "run_peer_coder"
  BY RouteGoesOn DEF RouteAfterReviewHybrid
<1>2. MaxRetries \in Nat
  BY GraphAssumption DEF GraphAssumption
<1>3. retries' >= MaxRetries \/ retries' < MaxRetries
  BY <1>2
<1> QED BY <1>1, <1>3 DEF AfterVerdict

LEMMA ReviewerKeeps == HybridInv /\ RunReviewerHybrid => HybridInv'
<1> SUFFICES ASSUME HybridInv, RunReviewerHybrid PROVE HybridInv'
  OBVIOUS
<1>1. node = "run_reviewer" /\ node \in DueNodes
  BY DEF RunReviewerHybrid, At, DueNodes, AgentNodes
<1>2. /\ Undecided /\ cost = spent /\ turns = retries
      /\ Len(reviews) + 1 = turns /\ Len(parents) + 1 = turns
      /\ turns <= MaxRetries
  BY <1>1 DEF HybridInv, UndecidedInv, MoneyInv, AttemptInv, TurnInv
<1>3. Amounts /\ ChainInv
  BY DEF HybridInv
<1>4. PICK c \in CostsOnEdit, span \in NewReviewerSpan :
        /\ reviews' = Append(reviews, span)
        /\ \/ /\ edit # NoEdit
              /\ Failed("reviewer", c)
              /\ UNCHANGED <<handoffs, reviewerSpan>>
           \/ OverBudget(c) /\ UNCHANGED <<handoffs, reviewerSpan>>
           \/ \E verdict \in IF edit = NoEdit THEN {"none"} ELSE Verdicts :
                 ReviewStoredHybrid(verdict, c, span)
  BY DEF RunReviewerHybrid
<1>5. c \in Nat /\ span \in Nat
  BY <1>3, CostsAreNaturals DEF NewReviewerSpan, Amounts, Lists
<1>6. /\ node' = RouteAfterReviewHybrid(outcome', status', review', retries')
      /\ turns' = turns /\ parents' = parents
  BY DEF RunReviewerHybrid
<1>7. /\ Lists' /\ ChainInv' /\ Len(reviews') = Len(reviews) + 1
      /\ reviews'[Len(reviews) + 1] = span
  <2>1. /\ reviews \in Seq(Nat) /\ parents \in Seq(Nat)
        /\ Len(parents) <= Len(reviews)
        /\ \A n \in 1..Len(parents) : parents[n] = reviews[n]
    BY <1>3 DEF Amounts, Lists, ChainInv
  <2> QED BY <1>4, <1>5, <1>6, <2>1, ReviewAdded DEF Lists, ChainInv
<1>8. CASE Failed("reviewer", c) \/ OverBudget(c)
  <2>1. Stops /\ retries' = retries /\ cost' \in Nat /\ spent' \in Nat
    BY <1>3, <1>5, <1>8, StoppedTurn
  <2>2. reviewerSpan' = reviewerSpan \/ reviewerSpan' = span
    BY <1>4 DEF ReviewStoredHybrid, StoredReviewerSpan
  <2>3. node' \notin DueNodes
    BY <1>6, <2>1, StopsAtStop, StopNodesAreNotDue DEF RouteAfterReviewHybrid
  <2>4. Numbers'
    BY <1>3, <1>5, <1>6, <2>1, <2>2 DEF Amounts, Numbers
  <2>5. turns' <= MaxRetries
    BY <1>2, <1>6
  <2> QED BY <1>7, <2>3, <2>4, <2>5, NoLongerDue DEF Amounts
<1>9. CASE \E verdict : ReviewStoredHybrid(verdict, c, span)
  <2>1. /\ retries' = retries /\ reviewerSpan' = span
        /\ cost' = cost + c /\ spent' = spent + c /\ cost + c <= MaxCost
    BY <1>9 DEF ReviewStoredHybrid, WithinBudget, StoredReviewerSpan
  <2>2. Undecided' /\ "review" \in fresh'
    BY <1>2, <1>9 DEF ReviewStoredHybrid, Undecided, control
  <2>3. Numbers'
    BY <1>3, <1>5, <1>6, <2>1 DEF Amounts, Numbers
  <2>4. AfterVerdict'
    BY <1>6, <2>2, <2>3, VerdictRoutes DEF Numbers
  <2>5. CASE node' = "run_peer_coder"
    <3>1. review' = "reject_with_changes" /\ retries' < MaxRetries
      BY <2>4, <2>5 DEF AfterVerdict
    <3>2. UndecidedInv' /\ MoneyInv'
      BY <1>2, <2>1, <2>2 DEF UndecidedInv, MoneyInv
    <3>3. AttemptInv'
      BY <1>2, <1>6, <2>1, <2>5, <3>1 DEF AttemptInv, Beginning
    <3>4. Len(reviews') = turns' /\ reviewerSpan' = reviews'[turns']
          /\ Len(parents') + 1 = turns'
      BY <1>2, <1>6, <1>7, <2>1
    <3>5. TurnInv'
      BY <2>2, <2>5, <3>1, <3>4 DEF TurnInv, Beginning
    <3> QED BY <1>7, <2>3, <3>2, <3>3, <3>5 DEF HybridInv, Amounts
  <2>6. CASE node' # "run_peer_coder"
    <3>1. node' \in {"run_qa", "halt_retry_exhausted", "run_supervisor_finalize"}
      BY <2>4, <2>6 DEF AfterVerdict
    <3>2. UndecidedInv' /\ MoneyInv'
      BY <1>2, <2>1, <2>2 DEF UndecidedInv, MoneyInv
    <3>3. turns' <= MaxRetries
      BY <1>2, <1>6
    <3>4. AttemptInv' /\ TurnInv'
      BY <3>1, <3>3 DEF AttemptInv, TurnInv, Beginning
    <3> QED BY <1>7, <2>3, <3>2, <3>4 DEF HybridInv, Amounts
  <2> QED BY <2>5, <2>6
<1> QED BY <1>4, <1>8, <1>9

\* QA is the last agent, however its turn ends.
LEMMA QaKeeps == HybridInv /\ RunQa /\ UNCHANGED spans => HybridInv'
<1> SUFFICES ASSUME HybridInv, RunQa, UNCHANGED spans PROVE HybridInv'
  OBVIOUS
<1>1. PICK c \in CostsOnEdit :
        \/ Failed("qa", c) \/ Blocked("qa", c) \/ Invalid("qa", c) \/ OverBudget(c)
        \/ \E rep, tools : QaTurn(rep, c, tools)
  BY DEF RunQa
<1>2. /\ node' = RouteAfterQa(outcome', status', report')
      /\ turns' = turns /\ reviews' = reviews /\ parents' = parents
      /\ reviewerSpan' = reviewerSpan
  BY DEF RunQa, spans
<1>3. Amounts /\ ChainInv /\ turns <= MaxRetries /\ c \in Nat
  BY CostsAreNaturals DEF HybridInv, AttemptInv
<1>4. node' \notin DueNodes
  BY <1>2, RouteLeads, StopNodesAreNotDue
     DEF RouteAfterQa, DueNodes, Beginning, AgentNodes
<1>5. retries' = retries /\ cost' \in Nat /\ spent' \in Nat
  <2>1. CASE Invalid("qa", c)
    BY <1>3, <2>1 DEF Invalid, Amounts, Numbers
  <2>2. CASE \E rep, tools : QaTurn(rep, c, tools)
    BY <1>3, <2>2 DEF QaTurn, ToolsEscalate, WithinBudget, Amounts, Numbers
  <2> QED BY <1>1, <1>3, <2>1, <2>2, StoppedTurn
<1>6. Amounts' /\ ChainInv'
  BY <1>2, <1>3, <1>5 DEF Amounts, Numbers, Lists, ChainInv
<1>7. turns' <= MaxRetries
  BY <1>2, <1>3
<1> QED BY <1>4, <1>6, <1>7, NoLongerDue

-----------------------------------------------------------------------------
(* The other steps *)

\* The steps of the graph that run no agent.
PlainStep ==
    \/ RunSupervisor \/ IndexRepo \/ HaltTestFailure \/ RunSupervisorFinalize
    \/ Interrupt \/ RunCommitAndPush \/ RunOpenPr \/ Halt

\* A person's step and a step of a node without an agent neither spend nor lead
\* back to an agent.
LEMMA PlainStepFrame ==
    ASSUME PlainStep \/ HumanStep
    PROVE  /\ UNCHANGED <<turns, cost, spent>>
           /\ retries' \in {retries, 0}
           /\ \/ node = "run_supervisor" /\ node' = "index_repo"
                   /\ UNCHANGED <<control, retries>>
              \/ node = "index_repo" /\ node' = "run_planner"
                   /\ UNCHANGED <<control, retries>>
              \/ node' \notin DueNodes
<1> USE DEF history, DueNodes, Beginning, AgentNodes
<1>1. CASE HumanStep
  BY <1>1 DEF HumanStep, ResumePreCommitPush, ResumePrePr, ResumeEscalation,
              ResumeRetryExhausted
<1>2. CASE RunSupervisor \/ IndexRepo
  BY <1>2 DEF RunSupervisor, IndexRepo, At
<1>3. CASE HaltTestFailure \/ RunOpenPr \/ Halt
  BY <1>3 DEF HaltTestFailure, RunOpenPr, Halt
<1>4. CASE RunSupervisorFinalize
  BY <1>4 DEF RunSupervisorFinalize, At, AfterFinalize
<1>5. CASE Interrupt
  BY <1>5 DEF Interrupt, HitlNodes, EscalationNodes
<1>6. CASE RunCommitAndPush
  BY <1>6 DEF RunCommitAndPush, At, RouteAfterCommitAndPush
<1> QED BY <1>1, <1>2, <1>3, <1>4, <1>5, <1>6 DEF PlainStep

LEMMA PlainStepKeeps ==
    ASSUME HybridInv, PlainStep \/ HumanStep, UNCHANGED spans
    PROVE  HybridInv'
<1>1. /\ turns' = turns /\ cost' = cost /\ spent' = spent
      /\ reviews' = reviews /\ parents' = parents /\ reviewerSpan' = reviewerSpan
  BY PlainStepFrame DEF spans
<1>2. Amounts /\ ChainInv /\ turns <= MaxRetries
  BY DEF HybridInv, AttemptInv
<1>3. retries' \in Nat
  BY <1>2, PlainStepFrame DEF Amounts, Numbers
<1>4. Amounts' /\ ChainInv' /\ turns' <= MaxRetries
  BY <1>1, <1>2, <1>3 DEF Amounts, Numbers, Lists, ChainInv
<1>5. CASE node' \notin DueNodes
  BY <1>4, <1>5, NoLongerDue
<1>6. CASE /\ node \in Beginning /\ node' \in {"index_repo", "run_planner"}
           /\ UNCHANGED <<control, retries>>
  <2>1. UndecidedInv' /\ MoneyInv'
    BY <1>1, <1>6 DEF HybridInv, UndecidedInv, Undecided, MoneyInv, DueNodes, control
  <2>2. AttemptInv'
    BY <1>1, <1>6 DEF HybridInv, AttemptInv, Beginning
  <2>3. TurnInv'
    BY <1>1, <1>6 DEF HybridInv, TurnInv, Beginning
  <2> QED BY <1>4, <2>1, <2>2, <2>3 DEF HybridInv
<1> QED BY <1>5, <1>6, PlainStepFrame DEF Beginning

LEMMA HybridInitially == HybridInit => HybridInv
<1> SUFFICES ASSUME HybridInit PROVE HybridInv
  OBVIOUS
<1>1. /\ node = "run_supervisor" /\ retries = 0 /\ cost = 0 /\ spent = 0
      /\ turns = 0 /\ reviewerSpan = 0
  BY DEF HybridInit, Init
<1>2. reviews = <<>> /\ parents = <<>> /\ Lists
  BY DEF HybridInit, Lists
<1>3. MaxRetries \in Nat /\ MaxCost \in Nat
  BY GraphAssumption DEF GraphAssumption
<1>4. Numbers /\ AttemptInv /\ MoneyInv
  BY <1>1, <1>3 DEF Numbers, AttemptInv, MoneyInv
<1>5. UndecidedInv
  BY DEF HybridInit, Init, UndecidedInv, Undecided
<1>6. ChainInv
  BY <1>2 DEF ChainInv
<1>7. TurnInv
  BY <1>1, <1>2 DEF TurnInv
<1> QED BY <1>2, <1>4, <1>5, <1>6, <1>7 DEF HybridInv, Amounts

LEMMA HybridInvStep == HybridInv /\ [HybridNext]_hybridVars => HybridInv'
<1> SUFFICES ASSUME HybridInv, [HybridNext]_hybridVars PROVE HybridInv'
  OBVIOUS
<1>1. CASE HybridStep
  <2>1. CASE SharedStep /\ UNCHANGED spans
    BY <2>1, PlannerKeeps, QaKeeps, PlainStepKeeps DEF SharedStep, PlainStep
  <2> QED BY <1>1, <2>1, FirstCoderKeeps, PeerCoderKeeps, ReviewerKeeps DEF HybridStep
<1>2. CASE HumanStep /\ UNCHANGED spans
  BY <1>2, PlainStepKeeps
<1>3. CASE UNCHANGED hybridVars
  BY <1>3 DEF hybridVars, spans, vars, control, products, history, HybridInv, Amounts,
              Numbers, Lists, UndecidedInv, Undecided, AttemptInv, MoneyInv, ChainInv,
              TurnInv
<1> QED BY <1>1, <1>2, <1>3 DEF HybridNext, Ended, hybridVars

\* The picture of the hand-offs: who has had how many turns, what is spent, and
\* under which review the next Coder works.
THEOREM HandoffInvariant == HybridSpec => []HybridInv
BY HybridInitially, HybridInvStep, PTL DEF HybridSpec

\* The n-th peer Coder hangs under the n-th review, for any length of the chain.
THEOREM ChainIsInOrder == HybridSpec => []HandoffsFollowReviews
<1>1. HybridInv => HandoffsFollowReviews
  <2> SUFFICES ASSUME HybridInv, NEW n \in DOMAIN parents
               PROVE  n \in DOMAIN reviews /\ parents[n] = reviews[n]
    BY DEF HandoffsFollowReviews
  <2>1. reviews \in Seq(Nat) /\ parents \in Seq(Nat) /\ Len(parents) <= Len(reviews)
    BY DEF HybridInv, Amounts, Lists, ChainInv
  <2>2. n \in 1..Len(parents) /\ n \in 1..Len(reviews) /\ n \in DOMAIN reviews
    BY <2>1
  <2> QED BY <2>2 DEF HybridInv, ChainInv
<1> QED BY <1>1, HandoffInvariant, PTL

\* A peer Coder is started only on a refusal of the very edit in the state.
THEOREM PeersAnswerReviews == HybridSpec => []PeerCoderAnswersItsReview
<1>1. HybridInv => PeerCoderAnswersItsReview
  <2> SUFFICES ASSUME HybridInv, node = "run_peer_coder"
               PROVE  /\ review = "reject_with_changes" /\ "review" \in fresh
                      /\ Len(reviews) = turns
                      /\ Len(parents) = turns - 1
    BY DEF PeerCoderAnswersItsReview
  <2>1. /\ review = "reject_with_changes" /\ "review" \in fresh
        /\ Len(reviews) = turns /\ Len(parents) + 1 = turns
    BY DEF HybridInv, TurnInv
  <2>2. parents \in Seq(Nat)
    BY DEF HybridInv, Amounts, Lists
  <2>3. Len(parents) \in Nat
    BY <2>2
  <2>4. Len(parents) = turns - 1
    BY <2>1, <2>3
  <2> QED BY <2>1, <2>4
<1> QED BY <1>1, HandoffInvariant, PTL

\* Both Coders together never get more turns than the retry budget, whatever the
\* agents raise.
THEOREM PeerTurnsAreBounded == HybridSpec => []RetryBudget
<1>1. HybridInv => RetryBudget
  BY DEF HybridInv, AttemptInv, RetryBudget
<1> QED BY <1>1, HandoffInvariant, PTL

\* Whenever an agent may be called, a peer included, the total is true and within
\* the budget.
THEOREM PeerCostIsTrue == HybridSpec => []PeerCostIsComplete
<1>1. HybridInv => PeerCostIsComplete
  BY DEF HybridInv, MoneyInv, PeerCostIsComplete, DueNodes
<1> QED BY <1>1, HandoffInvariant, PTL

-----------------------------------------------------------------------------
(* What is pushed was judged, where QA lets no ValidationError out: its first  *)
(* two leave outcome and status as they are, and the task would go on with no  *)
(* report.  What the other agents raise stops the task.                        *)

QaReports == "validation" \notin AgentFaults["qa"]

\* The nodes that an edit reaches only when it was judged.
JudgedNodes ==
    {"run_supervisor_finalize", "hitl_pre_commit_push", "hitl_pre_pr",
     "run_commit_and_push", "run_open_pr", "halt_github_delivery_failed"}

JudgedInv ==
    /\ node \in {"run_coder", "run_reviewer", "run_peer_coder"} => plan
    /\ node \in {"run_reviewer", "run_qa"} => edit # NoEdit
    /\ node = "run_qa" => review = "accept" /\ "review" \in fresh
    /\ node \in JudgedNodes => Judged
    /\ node \notin {"run_open_pr", "halt_github_delivery_failed", "END"}
         => commits = 0
    /\ commits # 0 => Judged

\* A stopped task has nothing to judge and pushes nothing.
LEMMA StoppedJudged ==
    ASSUME node' \in StopNodes, commits' = 0
    PROVE  JudgedInv'
BY DEF StopNodes, EscalationNodes, JudgedInv, JudgedNodes

LEMMA AgentHasNotPushed ==
    ASSUME JudgedInv, node \in DueNodes
    PROVE  commits = 0
BY DEF JudgedInv, DueNodes, Beginning, AgentNodes

LEMMA PlannerJudged ==
    ASSUME HybridInv, JudgedInv, RunPlanner
    PROVE  JudgedInv'
<1>1. node \in DueNodes
  BY DEF RunPlanner, At, DueNodes, AgentNodes
<1>2. commits' = 0 /\ Undecided /\ node' = Route(outcome', status', "run_coder")
  BY <1>1, AgentHasNotPushed
     DEF RunPlanner, RouteAfterPlanner, github, HybridInv, UndecidedInv
<1>3. PICK c : \/ Failed("planner", c) \/ PlannerInvalid(c)
               \/ OverBudget(c) \/ PlannerDone(c)
  BY DEF RunPlanner
<1>4. CASE Failed("planner", c) \/ PlannerInvalid(c) \/ OverBudget(c)
  <2>1. Stops
    BY <1>4 DEF Failed, PlannerInvalid, OverBudget, Stops
  <2> QED BY <1>2, <2>1, StopsAtStop, StoppedJudged
<1>5. CASE PlannerDone(c)
  <2>1. Undecided' /\ plan'
    BY <1>2, <1>5 DEF PlannerDone, Undecided, control
  <2>2. node' = "run_coder"
    BY <1>2, <2>1, RouteGoesOn
  <2> QED BY <1>2, <2>1, <2>2 DEF JudgedInv, JudgedNodes
<1> QED BY <1>3, <1>4, <1>5

\* A Coder that goes on has an edit to show.
LEMMA CoderJudged ==
    ASSUME HybridInv, JudgedInv, RunCoderSupervisor \/ RunPeerCoder
    PROVE  JudgedInv'
<1>1. node \in DueNodes /\ plan
  BY DEF RunCoderSupervisor, RunPeerCoder, At, DueNodes, AgentNodes, JudgedInv
<1>2. commits' = 0 /\ Undecided /\ node' = Route(outcome', status', "run_reviewer")
  BY <1>1, AgentHasNotPushed
     DEF RunCoderSupervisor, RunPeerCoder, RouteAfterPeerCoder, github, HybridInv,
         UndecidedInv
<1>3. PICK c : \/ Failed("coder", c) \/ Blocked("coder", c)
               \/ OverBudget(c) \/ EditStored(c)
  BY DEF RunCoderSupervisor, RunPeerCoder, FirstCoderFails, PeerCoderTurn
<1>4. CASE Failed("coder", c) \/ Blocked("coder", c) \/ OverBudget(c)
  <2>1. Stops
    BY <1>4 DEF Failed, Blocked, OverBudget, Stops
  <2> QED BY <1>2, <2>1, StopsAtStop, StoppedJudged
<1>5. CASE EditStored(c)
  <2>1. Undecided' /\ plan' /\ edit' \in DiffHashes
    BY <1>1, <1>2, <1>5 DEF EditStored, Undecided, control
  <2>2. node' = "run_reviewer" /\ edit' # NoEdit
    BY <1>2, <2>1, RouteGoesOn, GraphAssumption DEF GraphAssumption
  <2> QED BY <1>2, <2>1, <2>2 DEF JudgedInv, JudgedNodes
<1> QED BY <1>3, <1>4, <1>5

LEMMA ReviewerJudged ==
    ASSUME HybridInv, HybridInv', JudgedInv, RunReviewerHybrid
    PROVE  JudgedInv'
<1>1. node \in DueNodes /\ edit # NoEdit /\ plan
  BY DEF RunReviewerHybrid, At, DueNodes, AgentNodes, JudgedInv
<1>2. /\ commits' = 0 /\ Undecided
      /\ node' = RouteAfterReviewHybrid(outcome', status', review', retries')
  BY <1>1, AgentHasNotPushed DEF RunReviewerHybrid, github, HybridInv, UndecidedInv
<1>3. PICK c, span : \/ Failed("reviewer", c)
                     \/ OverBudget(c)
                     \/ \E verdict \in Verdicts : ReviewStoredHybrid(verdict, c, span)
  BY <1>1 DEF RunReviewerHybrid
<1>4. CASE Failed("reviewer", c) \/ OverBudget(c)
  <2>1. Stops
    BY <1>4 DEF Failed, OverBudget, Stops
  <2> QED BY <1>2, <2>1, StopsAtStop, StoppedJudged DEF RouteAfterReviewHybrid
<1>5. CASE \E verdict \in Verdicts : ReviewStoredHybrid(verdict, c, span)
  <2>1. /\ Undecided' /\ plan' /\ edit' # NoEdit
        /\ review' \in Verdicts /\ "review" \in fresh'
    BY <1>1, <1>2, <1>5 DEF ReviewStoredHybrid, Undecided, control
  <2>2. AfterVerdict'
    BY <1>2, <2>1, VerdictRoutes DEF HybridInv, Amounts, Numbers
  <2> QED BY <1>2, <2>1, <2>2
          DEF AfterVerdict, JudgedInv, JudgedNodes, Judged, Verdicts
<1> QED BY <1>3, <1>4, <1>5

\* A QA turn that goes on has a report on the edit; a failing one ends the task.
LEMMA QaJudged ==
    ASSUME QaReports, HybridInv, JudgedInv, RunQa
    PROVE  JudgedInv'
<1>1. /\ node \in DueNodes /\ edit # NoEdit
      /\ review = "accept" /\ "review" \in fresh
  BY DEF RunQa, At, DueNodes, AgentNodes, JudgedInv
<1>2. /\ commits' = 0 /\ Undecided
      /\ node' = RouteAfterQa(outcome', status', report')
  BY <1>1, AgentHasNotPushed DEF RunQa, github, HybridInv, UndecidedInv
<1>3. PICK c : \/ Failed("qa", c) \/ Blocked("qa", c) \/ Invalid("qa", c)
               \/ OverBudget(c)
               \/ \E rep \in {"pass", "fail"} : \E tools : QaTurn(rep, c, tools)
  BY <1>1 DEF RunQa
<1>4. ASSUME Stops \/ outcome' = "loop_detected" PROVE JudgedInv'
  <2>1. node' \in StopNodes
    <3>1. CASE Stops
      BY <1>2, <3>1, StopsAtStop DEF RouteAfterQa
    <3>2. CASE outcome' = "loop_detected"
      <4>1. "loop_detected" \in DOMAIN HaltOf
            /\ HaltOf.loop_detected = "hitl_loop_detected"
        BY DEF HaltOf
      <4> QED BY <1>2, <3>2, <4>1 DEF RouteAfterQa, Route, StopNodes, EscalationNodes
    <3> QED BY <1>4, <3>1, <3>2
  <2> QED BY <1>2, <2>1, StoppedJudged
<1>5. CASE Failed("qa", c) \/ Blocked("qa", c) \/ OverBudget(c)
  BY <1>4, <1>5 DEF Failed, Blocked, OverBudget, Stops
<1>6. CASE Invalid("qa", c)
  BY <1>6 DEF Invalid, QaReports
<1>7. ASSUME NEW rep \in {"pass", "fail"}, NEW tools, QaTurn(rep, c, tools)
      PROVE  JudgedInv'
  <2>1. CASE ToolsEscalate(tools)
    BY <1>4, <2>1 DEF ToolsEscalate, Stops
  <2>2. CASE /\ report' = rep
             /\ fresh' = fresh \cup {"report"}
             /\ UNCHANGED <<control, review>>
    <3>1. Undecided'
      BY <1>2, <2>2 DEF Undecided, control
    <3>2. node' = IF report' = "fail" THEN "halt_test_failure"
                                     ELSE "run_supervisor_finalize"
      BY <1>2, <3>1, RouteGoesOn DEF RouteAfterQa
    <3>3. /\ review' = "accept" /\ "review" \in fresh' /\ "report" \in fresh'
          /\ report' \in {"pass", "fail"}
      BY <1>1, <2>2
    <3> QED BY <1>2, <3>2, <3>3 DEF JudgedInv, JudgedNodes, Judged
  <2> QED BY <1>7, <2>1, <2>2 DEF QaTurn
<1> QED BY <1>3, <1>5, <1>6, <1>7

LEMMA PlainStepJudged ==
    ASSUME JudgedInv, PlainStep \/ HumanStep
    PROVE  JudgedInv'
<1> USE DEF history, JudgedInv, JudgedNodes, github
<1>1. UNCHANGED <<products, fresh>>
  <2>1. CASE HumanStep
    BY <2>1 DEF HumanStep, ResumePreCommitPush, ResumePrePr, ResumeEscalation,
                ResumeRetryExhausted
  <2>2. CASE PlainStep
    BY <2>2 DEF PlainStep, RunSupervisor, IndexRepo, HaltTestFailure,
                RunSupervisorFinalize, Interrupt, RunCommitAndPush, RunOpenPr, Halt
  <2> QED BY <2>1, <2>2
<1>2. Judged' <=> Judged
  BY <1>1 DEF products, Judged
<1>3. CASE HumanStep
  BY <1>1, <1>2, <1>3
     DEF HumanStep, ResumePreCommitPush, ResumePrePr, ResumeEscalation,
         ResumeRetryExhausted, Resumed
<1>4. CASE RunSupervisor \/ IndexRepo
  BY <1>2, <1>4 DEF RunSupervisor, IndexRepo, At
<1>5. CASE HaltTestFailure \/ RunOpenPr \/ Halt
  BY <1>2, <1>5 DEF HaltTestFailure, RunOpenPr, Halt
<1>6. CASE RunSupervisorFinalize
  BY <1>2, <1>6 DEF RunSupervisorFinalize, At, AfterFinalize
<1>7. CASE Interrupt
  BY <1>1, <1>2, <1>7 DEF Interrupt, products
<1>8. CASE RunCommitAndPush
  BY <1>2, <1>8 DEF RunCommitAndPush, At, RouteAfterCommitAndPush, DeliveryFailed
<1> QED BY <1>3, <1>4, <1>5, <1>6, <1>7, <1>8 DEF PlainStep

LEMMA JudgedStep ==
    ASSUME QaReports
    PROVE  HybridInv /\ HybridInv' /\ JudgedInv /\ [HybridNext]_hybridVars => JudgedInv'
<1> SUFFICES ASSUME HybridInv, HybridInv', JudgedInv, [HybridNext]_hybridVars
             PROVE  JudgedInv'
  OBVIOUS
<1>1. CASE SharedStep
  BY <1>1, PlannerJudged, QaJudged, PlainStepJudged DEF SharedStep, PlainStep
<1>2. CASE RunCoderSupervisor \/ RunPeerCoder \/ RunReviewerHybrid
  BY <1>2, CoderJudged, ReviewerJudged
<1>3. CASE HumanStep
  BY <1>3, PlainStepJudged
<1>4. CASE UNCHANGED hybridVars
  BY <1>4 DEF hybridVars, vars, products, history, github, JudgedInv, Judged
<1> QED BY <1>1, <1>2, <1>3, <1>4 DEF HybridNext, HybridStep, Ended, hybridVars

\* No branch is pushed whose edit was not judged as it stands, however often
\* Coder and Reviewer sent it to and fro.
THEOREM PeerPushesAreJudged == QaReports => (HybridSpec => []PushedEditWasJudged)
<1> SUFFICES ASSUME QaReports PROVE HybridSpec => []PushedEditWasJudged
  OBVIOUS
<1>1. HybridInit => JudgedInv
  BY DEF HybridInit, Init, JudgedInv, JudgedNodes
<1>2. HybridInv /\ HybridInv' /\ JudgedInv /\ [HybridNext]_hybridVars => JudgedInv'
  BY JudgedStep
<1>3. JudgedInv => PushedEditWasJudged
  BY DEF JudgedInv, PushedEditWasJudged
<1> QED BY <1>1, <1>2, <1>3, HandoffInvariant, PTL DEF HybridSpec

-----------------------------------------------------------------------------
(* Types *)

LEMMA HybridIsTyped ==
    HybridTypeOK <=>
      /\ node \in HybridNodes /\ paused \in BOOLEAN /\ Turn
      /\ {commits, prs, turns, handoffs, reviewerSpan} \subseteq Nat
      /\ Lists
BY DEF HybridTypeOK, Turn, CounterType, Lists

LEMMA HybridRoutesAreNodes ==
    ASSUME NEW out, NEW st, NEW x, NEW n
    PROVE  /\ RouteAfterPeerCoder(out, st) \in Nodes
           /\ RouteAfterReviewHybrid(out, st, x, n) \in HybridNodes
<1>1. StopNodes \subseteq Nodes
  BY DEF StopNodes, Nodes, HaltNodes, HitlNodes
<1>2. {"run_reviewer", "run_qa", "run_supervisor_finalize", "halt_retry_exhausted"}
        \subseteq Nodes
  BY DEF Nodes, AgentNodes, HitlNodes
<1>3. RouteAfterPeerCoder(out, st) \in Nodes
  BY <1>1, <1>2, RouteLeads DEF RouteAfterPeerCoder
<1>4. RouteAfterReviewHybrid(out, st, x, n) \in StopNodes \cup
        {"run_qa", "run_supervisor_finalize", "halt_retry_exhausted", "run_peer_coder"}
  BY RouteLeads DEF RouteAfterReviewHybrid
<1> QED BY <1>1, <1>2, <1>3, <1>4 DEF HybridNodes

LEMMA EditStoredTypes ==
    ASSUME Turn, NEW c \in Nat, EditStored(c)
    PROVE  Turn'
<1> USE DEF Turn
<1>1. edit' \in DiffHashes \cup {NoEdit} /\ fresh' = {}
  BY DEF EditStored
<1>2. outcome' \in Outcomes /\ status' \in Statuses /\ ProductType'
  BY <1>1 DEF EditStored, ProductType, control
<1>3. TrackerType' /\ DatabaseType'
  BY DEF EditStored, TrackerType, DatabaseType, tracker, database
<1>4. {retries, cost, spent}' \subseteq Nat
  BY DEF EditStored, WithinBudget
<1> QED BY <1>2, <1>3, <1>4

LEMMA ReviewStoredTypes ==
    ASSUME Turn, NEW verdict \in Verdicts \cup {"none"}, NEW c \in Nat, NEW span,
           ReviewStoredHybrid(verdict, c, span)
    PROVE  Turn'
<1> USE DEF Turn
<1>1. outcome' \in Outcomes /\ status' \in Statuses /\ ProductType'
  BY DEF ReviewStoredHybrid, ProductType, control
<1>2. rejects' \in [DiffHashes -> Nat]
  BY CountUpType DEF ReviewStoredHybrid, TrackerType
<1>3. TrackerType' /\ DatabaseType'
  BY <1>2 DEF ReviewStoredHybrid, TrackerType, DatabaseType, tracker, database
<1>4. {retries, cost, spent}' \subseteq Nat
  BY DEF ReviewStoredHybrid, WithinBudget
<1> QED BY <1>1, <1>3, <1>4

\* A shared step finds and leaves the task at a shared node.
LEMMA SharedKeepsTypes ==
    ASSUME HybridTypeOK, SharedStep \/ HumanStep, UNCHANGED spans
    PROVE  HybridTypeOK'
<1>1. node \in Nodes
  <2>1. node # "run_peer_coder"
    BY DEF SharedStep, RunSupervisor, IndexRepo, RunPlanner, RunQa, HaltTestFailure,
           RunSupervisorFinalize, Interrupt, RunCommitAndPush, RunOpenPr, Halt, At,
           HumanStep, ResumePreCommitPush, ResumePrePr, ResumeEscalation,
           ResumeRetryExhausted, Resumed, HitlNodes, EscalationNodes
  <2> QED BY <2>1 DEF HybridTypeOK, HybridNodes
<1>2. TypeOK
  BY <1>1 DEF HybridTypeOK, TypeOK, ControlType
<1>3. TypeOK'
  BY <1>2, SharedStepTypes, HumanStepTypes
<1> QED BY <1>3 DEF TypeOK, ControlType, HybridTypeOK, HybridNodes, spans

LEMMA CodersKeepTypes ==
    ASSUME HybridTypeOK, HybridInv', RunCoderSupervisor \/ RunPeerCoder
    PROVE  HybridTypeOK'
<1>1. PICK c \in CostsOnPlan : \/ Failed("coder", c) \/ Blocked("coder", c)
                               \/ OverBudget(c) \/ EditStored(c)
  BY DEF RunCoderSupervisor, RunPeerCoder, FirstCoderFails, PeerCoderTurn
<1>2. Turn'
  BY <1>1, HybridIsTyped, CostsAreNaturals, FailedTurnTypes, EditStoredTypes DEF Agents
<1>3. handoffs' \in {handoffs, handoffs + 1}
  BY DEF RunCoderSupervisor, RunPeerCoder, PeerCoderTurn
<1>4. handoffs' \in Nat
  BY <1>3, HybridIsTyped
<1>5. node' \in HybridNodes /\ UNCHANGED <<paused, github>>
  BY HybridRoutesAreNodes
     DEF RunCoderSupervisor, RunPeerCoder, RouteAfterPeerCoder, HybridNodes
<1>6. {turns, reviewerSpan}' \subseteq Nat /\ Lists'
  BY DEF HybridInv, Amounts, Numbers
<1>7. paused' \in BOOLEAN /\ commits' \in Nat /\ prs' \in Nat
  BY <1>5, HybridIsTyped DEF github
<1>8. {commits, prs, turns, handoffs, reviewerSpan}' \subseteq Nat
  BY <1>4, <1>6, <1>7
<1> QED BY <1>2, <1>5, <1>6, <1>7, <1>8
        DEF HybridTypeOK, Turn, CounterType, Lists

LEMMA ReviewerKeepsTypes ==
    ASSUME HybridTypeOK, HybridInv', RunReviewerHybrid
    PROVE  HybridTypeOK'
<1>1. PICK c \in CostsOnEdit, span \in NewReviewerSpan :
        \/ Failed("reviewer", c)
        \/ OverBudget(c)
        \/ \E verdict \in Verdicts \cup {"none"} : ReviewStoredHybrid(verdict, c, span)
  BY DEF RunReviewerHybrid
<1>2. Turn'
  BY <1>1, HybridIsTyped, CostsAreNaturals, FailedTurnTypes, ReviewStoredTypes DEF Agents
<1>3. handoffs' \in {handoffs, handoffs + 1}
  BY DEF RunReviewerHybrid, ReviewStoredHybrid
<1>4. handoffs' \in Nat
  BY <1>3, HybridIsTyped
<1>5. node' \in HybridNodes /\ UNCHANGED <<paused, github>>
  BY HybridRoutesAreNodes DEF RunReviewerHybrid
<1>6. {turns, reviewerSpan}' \subseteq Nat /\ Lists'
  BY DEF HybridInv, Amounts, Numbers
<1>7. paused' \in BOOLEAN /\ commits' \in Nat /\ prs' \in Nat
  BY <1>5, HybridIsTyped DEF github
<1>8. {commits, prs, turns, handoffs, reviewerSpan}' \subseteq Nat
  BY <1>4, <1>6, <1>7
<1> QED BY <1>2, <1>5, <1>6, <1>7, <1>8
        DEF HybridTypeOK, Turn, CounterType, Lists

\* Every state of the hybrid graph is well typed, for every set of diffs, costs,
\* faults and decisions.
THEOREM HybridTypeCorrect == HybridSpec => []HybridTypeOK
<1>1. HybridInit => HybridTypeOK
  <2> SUFFICES ASSUME HybridInit PROVE HybridTypeOK
    OBVIOUS
  <2>1. TypeOK
    BY InitTypes DEF HybridInit
  <2>2. handoffs \in Nat /\ reviewerSpan \in Nat
    BY DEF HybridInit
  <2>3. Lists
    BY DEF HybridInit, Lists
  <2> QED BY <2>1, <2>2, <2>3
          DEF TypeOK, ControlType, HybridTypeOK, HybridNodes, Lists
<1>2. HybridTypeOK /\ HybridInv' /\ [HybridNext]_hybridVars => HybridTypeOK'
  <2> SUFFICES ASSUME HybridTypeOK, HybridInv', [HybridNext]_hybridVars
               PROVE  HybridTypeOK'
    OBVIOUS
  <2>1. CASE (SharedStep \/ HumanStep) /\ UNCHANGED spans
    BY <2>1, SharedKeepsTypes
  <2>2. CASE RunCoderSupervisor \/ RunPeerCoder \/ RunReviewerHybrid
    BY <2>2, CodersKeepTypes, ReviewerKeepsTypes
  <2>3. CASE UNCHANGED hybridVars
    BY <2>3 DEF hybridVars, spans, vars, control, products, tracker, database, github,
                history, HybridTypeOK, ProductType, TrackerType, DatabaseType,
                CounterType
  <2> QED BY <2>1, <2>2, <2>3 DEF HybridNext, HybridStep, Ended, hybridVars
<1> QED BY <1>1, <1>2, HandoffInvariant, PTL DEF HybridSpec
=============================================================================
