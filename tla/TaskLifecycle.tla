---------------------------- MODULE TaskLifecycle ----------------------------
(***************************************************************************)
(* The life of a task outside its graph: POST /tasks inserts the row and   *)
(* starts run_task in the background, the graph pauses at an interrupt,    *)
(* POST /tasks/{id}/hitl/decision applies a decision to the row and resumes *)
(* the graph inside the request, and the completion records the result and *)
(* cleans up (src/src/api/main.py, src/src/orchestrator/__init__.py,       *)
(* src/src/orchestrator/hitl.py).                                          *)
(*                                                                         *)
(* Everything runs on one event loop: a step is what happens from one      *)
(* await to the next that another coroutine can tell apart.  What the      *)
(* graph does before its first interrupt, and with what it ends, is        *)
(* AgentGraph's; here it is where it stops.  Tasks are of the topologies   *)
(* with checkpoints (supervisor_only, hybrid).                             *)
(***************************************************************************)
EXTENDS Naturals

CONSTANTS
    Tasks,
    Requests,        \* decision requests, each sent at most once
    PatientClients,  \* nobody decides while a decision of the task is under way
    BeforeWriteOps,  \* HITL_INTERRUPT_BEFORE_WRITE_OPS
    MaxRestarts      \* how often the back end is restarted

ASSUME LifecycleAssumption ==
    /\ PatientClients \in BOOLEAN
    /\ BeforeWriteOps \in BOOLEAN
    /\ MaxRestarts \in Nat

VARIABLES
    \* Postgres
    row,       \* tasks.status, tasks.hitl_decision, tasks.ended_at is set
    outcomes,  \* the outcomes inserted per task
    \* Memory of the back end
    api,       \* the API's EpisodicStore, as the number of stores it made
    open,      \* the stores whose pool is open
    live,      \* the tasks in _active_graphs, _active_stores, _active_sandboxes
    cp,        \* where the latest checkpoint of a thread stands
    run,       \* the run_task coroutine of each task, and the store it holds
    req,       \* the decision requests
    restarts,
    \* GitHub
    pushed,    \* the tasks whose branch is on GitHub
    prs,       \* the tasks whose pull request is open
    \* History
    approved   \* the tasks for which an approval was recorded

memory == <<api, open, live, cp>>
github == <<pushed, prs>>
vars == <<row, outcomes, memory, run, req, restarts, github, approved>>

Interrupts == {"pre_commit", "pre_pr", "escalation"}

\* How a graph can end before its first interrupt, and after one: an approved
\* escalation ends with no outcome and status "running".
RunOutcomes ==
    {"cost_budget_exhausted", "sandbox_failure", "persistent_test_failure"}
ResumeOutcomes == {"pr_opened", "github_delivery_failed", ""}

\* The outcomes CreateOutcomeParams accepts.
ValidOutcomes ==
    {"pr_opened", "hitl_rejected", "cost_budget_exhausted", "sandbox_failure"}

\* Slip: a missing status counts as completed.
StatusOfDefault(outcome) ==
    IF outcome \in {"pr_opened", ""} THEN "completed" ELSE "failed"

StatusOf(outcome) ==
    IF outcome = "pr_opened" THEN "completed"
    ELSE IF outcome = "" THEN "running" ELSE "failed"

\* A node of a resumed graph, or the outcome the graph ended with.
Positions == Interrupts \cup {"ask_pr", "push", "propose"} \cup ResumeOutcomes

RunStates == {"none", "starting", "provisioning", "graph", "paused", "recording",
              "finishing", "failing", "noting", "done", "dead"}

RequestStates ==
    {"unsent", "approving", "marking", "resuming", "running", "passing",
     "recording", "finishing", "rejecting", "noting", "cleaning", "closing",
     "answering", "restoring", "ok", "error"}

\* A row of tasks, a run_task coroutine, a decision request.
Rows ==
    [status : {"absent", "running", "awaiting_hitl", "approved", "rejected",
               "completed", "failed"},
     decision : {"none", "approve", "reject"},
     ended : BOOLEAN]

Runs == [pc : RunStates, store : Nat, end : RunOutcomes \cup {""}]

Reqs ==
    [pc : RequestStates, kind : {"none", "approve", "reject"},
     task : Tasks \cup {"none"}, store : Nat, at : Positions \cup {"none"},
     resumed : BOOLEAN]

TypeOK ==
    /\ row \in [Tasks -> Rows]
    /\ outcomes \in [Tasks -> SUBSET ValidOutcomes]
    /\ api \in Nat
    /\ open \subseteq Nat
    /\ live \subseteq Tasks
    /\ cp \in [Tasks -> Positions \cup {"none"}]
    /\ run \in [Tasks -> Runs]
    /\ req \in [Requests -> Reqs]
    /\ restarts \in Nat
    /\ pushed \subseteq Tasks
    /\ prs \subseteq Tasks
    /\ approved \subseteq Tasks

Init ==
    /\ row = [t \in Tasks |-> [status |-> "absent", decision |-> "none",
                               ended |-> FALSE]]
    /\ outcomes = [t \in Tasks |-> {}]
    /\ api = 0
    /\ open = {}
    /\ live = {}
    /\ cp = [t \in Tasks |-> "none"]
    /\ run = [t \in Tasks |-> [pc |-> "none", store |-> 0, end |-> ""]]
    /\ req = [r \in Requests |-> [pc |-> "unsent", kind |-> "none", task |-> "none",
                                  store |-> 0, at |-> "none", resumed |-> FALSE]]
    /\ restarts = 0
    /\ pushed = {}
    /\ prs = {}
    /\ approved = {}

-----------------------------------------------------------------------------
(* The store *)

\* get_store: the shared store, or a new one if its pool is closed.
ApiStore == IF api \in open THEN api ELSE api + 1

UseApiStore == api' = ApiStore /\ open' = open \cup {ApiStore}

SetStatus(t, s) == row' = [row EXCEPT ![t].status = s]

\* finish_task writes every column, the decision it was not given included.
FinishTask(t, s, d) ==
    row' = [row EXCEPT ![t] = [status |-> s, decision |-> d, ended |-> TRUE]]

CreateOutcome(t, o) == outcomes' = [outcomes EXCEPT ![t] = @ \cup {o}]

-----------------------------------------------------------------------------
(* run_task *)

RunGoes(t, s) == run' = [run EXCEPT ![t].pc = s]

RunIs(t, s) == run[t].pc = s

\* A query on a closed store raises: run_task is left, the row as it is.
RunQuery(t, s) == IF run[t].store \in open THEN RunGoes(t, s) ELSE RunGoes(t, "dead")

HasStore(t) == run[t].store \in open

\* POST /tasks
Create(t) ==
    /\ row[t].status = "absent"
    /\ SetStatus(t, "running")
    /\ UseApiStore
    /\ run' = [run EXCEPT ![t].pc = "starting", ![t].store = ApiStore]
    /\ UNCHANGED <<outcomes, live, cp, req, restarts, github, approved>>

RunStarts(t) ==
    /\ RunIs(t, "starting")
    /\ RunQuery(t, "provisioning")
    /\ UNCHANGED <<row, outcomes, memory, req, restarts, github, approved>>

\* Sandbox and clone, then the registries and the semantic store's connection.
Provision(t) ==
    /\ RunIs(t, "provisioning")
    /\ \/ live' = live \cup {t} /\ RunGoes(t, "graph")
       \/ RunGoes(t, "failing") /\ UNCHANGED live
       \/ RunGoes(t, "dead") /\ UNCHANGED live   \* the semantic store: not caught
    /\ UNCHANGED <<row, outcomes, api, open, cp, req, restarts, github, approved>>

FirstCheckpoint == IF BeforeWriteOps THEN "pre_commit" ELSE "pre_pr"

\* Slip: the graph is built without its checkpoints.
RunPausesNowhere(t) ==
    /\ RunIs(t, "graph")
    /\ prs' = prs \cup {t}
    /\ RunGoes(t, "done")
    /\ UNCHANGED <<row, outcomes, memory, req, restarts, pushed, approved>>

\* Slip: the registries are emptied although the graph is only paused.
RunPausesUnregistered(t) ==
    /\ RunIs(t, "graph")
    /\ HasStore(t)
    /\ \E p \in {FirstCheckpoint, "escalation"} : cp' = [cp EXCEPT ![t] = p]
    /\ SetStatus(t, "awaiting_hitl")
    /\ RunGoes(t, "paused")
    /\ live' = live \ {t}
    /\ UNCHANGED <<outcomes, api, open, req, restarts, github, approved>>

\* The graph reaches a HITL node, which writes the row; run_task returns and
\* leaves everything registered.
RunPauses(t) ==
    /\ RunIs(t, "graph")
    /\ HasStore(t)
    /\ \E p \in {FirstCheckpoint, "escalation"} : cp' = [cp EXCEPT ![t] = p]
    /\ SetStatus(t, "awaiting_hitl")
    /\ RunGoes(t, "paused")
    /\ UNCHANGED <<outcomes, api, open, live, req, restarts, github, approved>>

RunEnds(t) ==
    /\ RunIs(t, "graph")
    /\ \E o \in RunOutcomes :
          run' = [run EXCEPT ![t].pc = "recording", ![t].end = o]
    /\ live' = live \ {t}
    /\ UNCHANGED <<row, outcomes, api, open, cp, req, restarts, github, approved>>

\* An exception leaves the graph: a query of a node failed.
RunRaises(t) ==
    /\ RunIs(t, "graph")
    /\ RunGoes(t, "failing")
    /\ live' = live \ {t}
    /\ UNCHANGED <<row, outcomes, api, open, cp, req, restarts, github, approved>>

\* The outcome first; the model of the row rejects an unknown one.
RunRecords(t) ==
    /\ RunIs(t, "recording")
    /\ IF HasStore(t) /\ run[t].end \in ValidOutcomes
       THEN CreateOutcome(t, run[t].end) /\ RunGoes(t, "finishing")
       ELSE RunGoes(t, "dead") /\ UNCHANGED outcomes
    /\ UNCHANGED <<row, memory, req, restarts, github, approved>>

RunFinishes(t) ==
    /\ RunIs(t, "finishing")
    /\ RunQuery(t, "done")
    /\ IF HasStore(t) THEN FinishTask(t, StatusOf(run[t].end), "none")
                      ELSE UNCHANGED row
    /\ UNCHANGED <<outcomes, memory, req, restarts, github, approved>>

\* Slip: the outcome is written into the status.
RunFailsAs(t) ==
    /\ RunIs(t, "failing")
    /\ RunQuery(t, "noting")
    /\ IF HasStore(t) THEN FinishTask(t, "sandbox_failure", "none") ELSE UNCHANGED row
    /\ UNCHANGED <<outcomes, memory, req, restarts, github, approved>>

\* The row first, when set-up failed or the graph raised.
RunFails(t) ==
    /\ RunIs(t, "failing")
    /\ RunQuery(t, "noting")
    /\ IF HasStore(t) THEN FinishTask(t, "failed", "none") ELSE UNCHANGED row
    /\ UNCHANGED <<outcomes, memory, req, restarts, github, approved>>

RunNotes(t) ==
    /\ RunIs(t, "noting")
    /\ RunQuery(t, "done")
    /\ IF HasStore(t) THEN CreateOutcome(t, "sandbox_failure")
                      ELSE UNCHANGED outcomes
    /\ UNCHANGED <<row, memory, req, restarts, github, approved>>

RunStep(t) ==
    \/ RunStarts(t) \/ Provision(t) \/ RunPauses(t) \/ RunEnds(t) \/ RunRaises(t)
    \/ RunRecords(t) \/ RunFinishes(t) \/ RunFails(t) \/ RunNotes(t)

-----------------------------------------------------------------------------
(* POST /tasks/{id}/hitl/decision *)

InFlight(t) ==
    \E r \in Requests :
        req[r].task = t /\ req[r].pc \notin {"unsent", "ok", "error"}

At(r, s) == req[r].pc = s

Goes(r, s) == req' = [req EXCEPT ![r].pc = s]

Connected(r) == req[r].store \in open

\* resume_graph returns b.
Leaves(r, s, b) == req' = [req EXCEPT ![r].pc = s, ![r].resumed = b]

\* It swallows what the graph raises.
Unresumed(r) == Leaves(r, "answering", FALSE)

\* Slip: the status is not looked at.
CanDecideAnyTime(t) == row[t].decision = "none"

CanDecide(t) ==
    /\ row[t].decision = "none"
    /\ row[t].status = "awaiting_hitl"

\* A request that passes the two checks; the others are answered 404 or 409 and
\* change nothing.
Ask(r, t, kind) ==
    /\ At(r, "unsent")
    /\ PatientClients => ~ InFlight(t)
    /\ CanDecide(t)
    /\ UseApiStore
    /\ req' = [req EXCEPT ![r] =
                 [pc |-> IF kind = "approve" THEN "approving" ELSE "rejecting",
                  kind |-> kind, task |-> t, store |-> ApiStore, at |-> "none",
                  resumed |-> FALSE]]
    /\ UNCHANGED <<row, outcomes, live, cp, run, restarts, github, approved>>

\* A request whose store was closed under it is answered 500.
Breaks(r) ==
    /\ \/ req[r].pc \in {"approving", "marking", "rejecting", "noting", "restoring"}
       \/ At(r, "answering") /\ req[r].kind = "approve"
    /\ ~ Connected(r)
    /\ Goes(r, "error")
    /\ UNCHANGED <<row, outcomes, memory, run, restarts, github, approved>>

ApproveDecides(r) ==
    /\ At(r, "approving") /\ Connected(r)
    /\ row' = [row EXCEPT ![req[r].task].decision = "approve"]
    /\ approved' = approved \cup {req[r].task}
    /\ Goes(r, "marking")
    /\ UNCHANGED <<outcomes, memory, run, restarts, github>>

ApproveMarks(r) ==
    /\ At(r, "marking") /\ Connected(r)
    /\ SetStatus(req[r].task, "approved")
    /\ Goes(r, "resuming")
    /\ UNCHANGED <<outcomes, memory, run, restarts, github, approved>>

\* The request at position p of the graph; the checkpoint follows.
Advance(r, p) ==
    /\ req' = [req EXCEPT ![r].at = p,
                          ![r].pc = IF p \in ResumeOutcomes THEN "recording"
                                    ELSE "running"]
    /\ cp' = [cp EXCEPT ![req[r].task] = IF p = "ask_pr" THEN "pre_pr" ELSE p]

\* resume_graph: the graph goes on from its latest checkpoint.
Resume(r) ==
    /\ At(r, "resuming")
    /\ IF req[r].task \in live THEN Advance(r, cp[req[r].task])
                               ELSE Unresumed(r) /\ UNCHANGED cp
    /\ UNCHANGED <<row, outcomes, api, open, live, run, restarts, github, approved>>

RunsAt(r, p) == At(r, "running") /\ req[r].at = p

After(p) ==
    IF p = "pre_commit" THEN "ask_pr" ELSE IF p = "pre_pr" THEN "push" ELSE ""

Registered(r) == req[r].task \in live

\* The store the task is registered with.
TaskStoreOpen(r) == run[req[r].task].store \in open

\* A query of a node fails.
NodeRaises(r) ==
    /\ \/ At(r, "running") /\ req[r].at \in Interrupts \cup {"ask_pr"} /\ Registered(r)
       \/ At(r, "passing")
    /\ ~ TaskStoreOpen(r)
    /\ Unresumed(r)
    /\ UNCHANGED <<row, outcomes, memory, run, restarts, github, approved>>

\* The interrupted node is executed again, from its first line.
Reenters(r) ==
    /\ At(r, "running") /\ req[r].at \in Interrupts
    /\ Registered(r) /\ TaskStoreOpen(r)
    /\ SetStatus(req[r].task, "awaiting_hitl")
    /\ Goes(r, "passing")
    /\ UNCHANGED <<outcomes, memory, run, restarts, github, approved>>

\* Past interrupt(), which returns the approval.
Passes(r) ==
    /\ At(r, "passing") /\ TaskStoreOpen(r)
    /\ row' = [row EXCEPT ![req[r].task].status = "running",
                          ![req[r].task].decision =
                              IF req[r].at = "pre_pr" THEN "approve" ELSE @]
    /\ Advance(r, After(req[r].at))
    /\ UNCHANGED <<outcomes, api, open, live, run, restarts, github, approved>>

\* With no store registered the node writes no row.
PassesUnregistered(r) ==
    /\ At(r, "running") /\ req[r].at \in Interrupts
    /\ ~ Registered(r)
    /\ Advance(r, After(req[r].at))
    /\ UNCHANGED <<row, outcomes, api, open, live, run, restarts, github, approved>>

\* hitl_pre_pr after hitl_pre_commit_push: the graph pauses again, and the
\* request is answered.
AsksAgain(r) ==
    /\ RunsAt(r, "ask_pr")
    /\ Registered(r) => TaskStoreOpen(r)
    /\ IF Registered(r) THEN SetStatus(req[r].task, "awaiting_hitl")
                        ELSE UNCHANGED row
    /\ Leaves(r, "answering", TRUE)
    /\ UNCHANGED <<outcomes, memory, run, restarts, github, approved>>

\* git refuses to create the branch of a workspace twice.
Pushes(r) ==
    /\ RunsAt(r, "push")
    /\ \/ /\ Registered(r) /\ req[r].task \notin pushed
          /\ pushed' = pushed \cup {req[r].task}
          /\ Advance(r, "propose")
       \/ Advance(r, "github_delivery_failed") /\ UNCHANGED pushed
    /\ UNCHANGED <<row, outcomes, api, open, live, run, restarts, prs, approved>>

\* GitHub refuses a second pull request for a branch.
Proposes(r) ==
    /\ RunsAt(r, "propose")
    /\ \/ /\ Registered(r) /\ req[r].task \notin prs
          /\ prs' = prs \cup {req[r].task}
          /\ Advance(r, "pr_opened")
       \/ Advance(r, "github_delivery_failed") /\ UNCHANGED prs
    /\ UNCHANGED <<row, outcomes, api, open, live, run, restarts, pushed, approved>>

\* _post_graph_completion, on a store of its own.  The outcome model rejects what
\* it does not know, and the failure is only logged.
Records(r) ==
    /\ At(r, "recording")
    /\ IF req[r].at \in ValidOutcomes \cup {""}
       THEN /\ IF req[r].at = "" THEN UNCHANGED outcomes
                                 ELSE CreateOutcome(req[r].task, req[r].at)
            /\ Goes(r, "finishing")
       ELSE Goes(r, "cleaning") /\ UNCHANGED outcomes
    /\ UNCHANGED <<row, memory, run, restarts, github, approved>>

\* Slip: the completion uses the store the task is registered with.
FinishesShared(r) ==
    /\ At(r, "finishing")
    /\ IF TaskStoreOpen(r) THEN FinishTask(req[r].task, StatusOf(req[r].at), "none")
                           ELSE UNCHANGED row
    /\ Goes(r, "cleaning")
    /\ UNCHANGED <<outcomes, memory, run, restarts, github, approved>>

Finishes(r) ==
    /\ At(r, "finishing")
    /\ FinishTask(req[r].task, StatusOf(req[r].at), "none")
    /\ Goes(r, "cleaning")
    /\ UNCHANGED <<outcomes, memory, run, restarts, github, approved>>

Rejects(r) ==
    /\ At(r, "rejecting") /\ Connected(r)
    /\ FinishTask(req[r].task, "rejected", "reject")
    /\ Goes(r, "noting")
    /\ UNCHANGED <<outcomes, memory, run, restarts, github, approved>>

Notes(r) ==
    /\ At(r, "noting") /\ Connected(r)
    /\ CreateOutcome(req[r].task, "hitl_rejected")
    /\ Goes(r, "cleaning")
    /\ UNCHANGED <<row, memory, run, restarts, github, approved>>

\* cleanup_task_runtime, after the completion as after a rejection: the registries,
\* then, the sandbox torn down, the store.
Unregisters(r) ==
    /\ At(r, "cleaning")
    /\ live' = live \ {req[r].task}
    /\ Leaves(r, IF Registered(r) THEN "closing" ELSE "answering",
              req[r].kind = "approve")
    /\ UNCHANGED <<row, outcomes, api, open, cp, run, restarts, github, approved>>

Closes(r) ==
    /\ At(r, "closing")
    /\ open' = open \ {run[req[r].task].store}
    /\ Goes(r, "answering")
    /\ UNCHANGED <<row, outcomes, api, live, cp, run, restarts, github, approved>>

\* The answer reads the row again, and moves a task that is still "approved".
Answers(r) ==
    /\ At(r, "answering")
    /\ req[r].kind = "approve" => Connected(r)
    /\ Goes(r, IF req[r].resumed /\ row[req[r].task].status = "approved"
               THEN "restoring" ELSE "ok")
    /\ UNCHANGED <<row, outcomes, memory, run, restarts, github, approved>>

Restores(r) ==
    /\ At(r, "restoring") /\ Connected(r)
    /\ SetStatus(req[r].task, "running")
    /\ Goes(r, "ok")
    /\ UNCHANGED <<outcomes, memory, run, restarts, github, approved>>

RequestStep(r) ==
    \/ Breaks(r) \/ ApproveDecides(r) \/ ApproveMarks(r)
    \/ Resume(r) \/ NodeRaises(r) \/ Reenters(r) \/ Passes(r) \/ PassesUnregistered(r)
    \/ AsksAgain(r) \/ Pushes(r) \/ Proposes(r) \/ Records(r) \/ Finishes(r)
    \/ Rejects(r) \/ Notes(r) \/ Unregisters(r) \/ Closes(r) \/ Answers(r) \/ Restores(r)

-----------------------------------------------------------------------------
\* The back end stops and starts: what is in memory is gone, and nothing is
\* taken up again.
Restart ==
    /\ restarts < MaxRestarts
    /\ restarts' = restarts + 1
    /\ open' = {} /\ live' = {}
    /\ cp' = [t \in Tasks |-> "none"]
    /\ run' = [t \in Tasks |->
                 IF run[t].pc \in {"none", "paused", "done"} THEN run[t]
                 ELSE [run[t] EXCEPT !.pc = "dead"]]
    /\ req' = [r \in Requests |->
                 IF req[r].pc \in {"unsent", "ok"} THEN req[r]
                 ELSE [req[r] EXCEPT !.pc = "error"]]
    /\ UNCHANGED <<row, outcomes, api, github, approved>>

Next ==
    \/ \E t \in Tasks : Create(t) \/ RunStep(t)
    \/ \E r \in Requests : RequestStep(r)
    \/ \E r \in Requests, t \in Tasks, kind \in {"approve", "reject"} : Ask(r, t, kind)
    \/ Restart

\* The event loop runs whatever is due; clients and restarts are free.
Fairness ==
    /\ \A t \in Tasks : WF_vars(RunStep(t))
    /\ \A r \in Requests : WF_vars(RequestStep(r))

Spec == Init /\ [][Next]_vars /\ Fairness

-----------------------------------------------------------------------------
(* Properties *)

\* Nothing reaches GitHub for a task no person approved, whatever else runs, fails
\* or restarts (hitl.py: "HITL mandatory before any GitHub write").
NothingWrittenUnapproved == pushed \cup prs \subseteq approved

\* A row that says completed has its pull request and its outcome row behind it,
\* although three tables and GitHub are written one after another
\* (_post_graph_completion).
CompletedHasPr ==
    \A t \in Tasks :
        row[t].status = "completed" => t \in prs /\ "pr_opened" \in outcomes[t]

\* A task that waits for a person can be decided, and its graph can be resumed:
\* it is registered and its checkpoint is an interrupt (run_task: "The graph stays
\* registered so the HITL decision endpoint can resume it"), whatever other tasks
\* do, unless a decision of the task broke off half-way.
AwaitingCanBeDecided ==
    \A t \in Tasks :
        row[t].status = "awaiting_hitl" /\ ~ InFlight(t)
        /\ (\A r \in Requests : At(r, "error") => req[r].task # t)
            => CanDecide(t) /\ t \in live /\ cp[t] \in Interrupts

\* Once a rejection was answered the task has no pull request and stays rejected
\* (hitl_decision: "POST reject ends task without PR").
RejectionIsFinal ==
    \A r \in Requests :
        At(r, "ok") /\ req[r].kind = "reject" =>
            req[r].task \notin prs /\ row[req[r].task].status = "rejected"

\* An opened pull request is recorded, whatever other tasks do to the shared store
\* meanwhile (_post_graph_completion connects a store of its own for this).
OpenedIsRecorded ==
    \A t \in Tasks : t \in prs ~> row[t].status = "completed"

-----------------------------------------------------------------------------
(* The inductive invariants of the proofs *)

\* Who writes for a task was told to.
WriteInv ==
    /\ NothingWrittenUnapproved
    /\ \A r \in Requests :
          req[r].pc \in {"marking", "resuming", "running", "passing"} =>
              req[r].task \in approved

\* An outcome "pr_opened" on its way to the row.
RecordInv ==
    /\ CompletedHasPr
    /\ \A t \in Tasks : cp[t] = "pr_opened" => t \in prs
    /\ \A r \in Requests :
          /\ req[r].at = "pr_opened" => req[r].task \in prs
          /\ At(r, "finishing") /\ req[r].at = "pr_opened" =>
                 "pr_opened" \in outcomes[req[r].task]

\* run_task does nothing more for the task.
Quiet(t) == run[t].pc \in {"paused", "done", "dead"}

Resuming == {"marking", "resuming", "running", "passing", "recording", "finishing"}
Approving == Resuming \cup {"approving", "restoring"}
Rejected == {"noting", "cleaning", "closing", "answering", "ok"}
Active == RequestStates \ {"unsent", "ok", "error"}

\* One decision of a task at a time.
PatienceInv ==
    \A r, q \in Requests :
        r # q /\ req[r].pc \in Active /\ req[q].pc \in Active =>
            req[r].task # req[q].task

\* A row that awaits a decision has not been approved, and run_task is done with it.
TaskInv(t) ==
    /\ RunIs(t, "none") <=> row[t].status = "absent"
    /\ row[t].status = "awaiting_hitl" \/ t \in approved => Quiet(t)
    /\ t \in approved => ~ CanDecide(t)

\* What the row says at each step of a decision.
DecisionInv(r) ==
    /\ req[r].pc \in Approving => req[r].kind = "approve"
    /\ req[r].pc \in {"rejecting", "noting"} => req[r].kind = "reject"
    /\ req[r].pc \in Active \cup {"ok"} =>
           req[r].kind \in {"approve", "reject"} /\ Quiet(req[r].task)
    /\ req[r].pc \in {"approving", "rejecting"} => CanDecide(req[r].task)
    /\ req[r].pc \in Resuming => row[req[r].task].decision = "approve"
    /\ req[r].kind = "approve" /\ req[r].pc \in Active \ {"approving"} =>
           req[r].task \in approved
    /\ req[r].kind = "reject" /\ req[r].pc \in Rejected =>
           /\ row[req[r].task].status = "rejected"
           /\ row[req[r].task].decision = "reject"
           /\ req[r].task \notin approved

RejectionInv ==
    /\ PatienceInv
    /\ \A t \in Tasks : TaskInv(t)
    /\ \A r \in Requests : DecisionInv(r)

=============================================================================
