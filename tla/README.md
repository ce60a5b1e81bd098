# A TLA+ model of the multi-agent SDLC system

The system takes a GitHub issue, lets four LLM agents (Planner, Coder, Reviewer, QA) work on it inside
a Docker sandbox, asks a person before it writes to GitHub, and opens a pull request.
A task is one run of a LangGraph state machine started by a FastAPI back end; Postgres keeps
the task rows, outcome rows and the code index; a Next.js dashboard follows the task over a
WebSocket and sends the person's decisions.

The modules here model that machine from its source. TLC checks them on small instances, TLAPS
proves what holds for every value of the constants.

## 1. Inventory

| Component | State it keeps | Operations | What is hard about it | What makes it correct |
|---|---|---|---|---|
| Graph, `supervisor_only` (`orchestrator/supervisor_only.py`, `routing.py`, `hitl_nodes.py`) | `OrchestratorState`: outcome, status, plan, edit, verdict, report, retry counters, cost | 19 nodes, 5 routing functions, 6 interrupts | updates overwrite one another in merge order; a node is re-run from its start on resume; edges that do not look at a decision | only judged, approved edits are pushed, once; budgets hold; every escalation reaches a person |
| Failure bookkeeping (`bookkeeping.py`, `failure_modes/uncertainty.py`) | Pydantic, diff and test counters, `uncertainty_fired` | record failure/success/rejection, first trigger wins | counters are copied out of the state and back | a trigger fires at its threshold and once |
| Tool recording, loop detection (`recording.py`, `loop_detection.py`) | recorded calls, window per agent | record, check, replay at the end of a turn | several calls of one turn against one old window | a stuck or failing agent stops, and only one; no call counts for another agent |
| Graph, `hybrid` (`hybrid.py`) | the same state, plus the hand-off count and the span of the last review | peer edge Coder/Reviewer, supervisor classification | two loops sharing one budget | as above, and a hand-off follows the review that asked for it |
| Graph, `single_agent` (`orchestrator/__init__.py`) | one node's output | run end to end | no checkpoint before GitHub | the outcome says what happened |
| Task lifecycle (`orchestrator/__init__.py`, `hitl.py`, `registries.py`) | graph registry, in-memory checkpointer, sandbox/store registries | run_task, resume_graph, completion, clean-up | background tasks, restart, shared store | a task leaves "running", a decision is applied once |
| API (`api/main.py`) | store shared by its requests | create_task, hitl_decision, WebSocket | read-await-write on the task row | one decision per interrupt |
| Episodic store (`memory/episodic`) | tasks, decisions, outcomes, repo_facts | create, update, finish, upsert | last writer wins, optional columns | no lost decision, no illegal status |
| Semantic store (`memory/semantic`) | chunks with embeddings | index, delete, search | re-index while another task reads | a task sees one version of a file |
| Sandbox and janitor (`sandbox/`) | network, proxy and container per task | setup, run, teardown, sweep | partial set-up; sweep of live resources | no leak, nothing live removed |
| Guardrails (`guardrails/`) | rules | check a command or a write | - | a blocked call never runs |
| Trace stream (`tracing/`, `web/hooks/use-trace-stream.ts`) | subscriber queues, spans by id | subscribe, publish, merge | full queues, reconnects, late answers, duplicates | no gap in a queue, nothing shown twice, a page stops only when it has the decisions |
| Agents, LLM client (`agents/`, `llm/`) | - | one call each, with one fallback parse | what they raise | the exceptions the nodes expect |
| GitHub client (`github_client/`) | - | clone, commit and push, open PR | failure between steps | idempotent delivery |
| SWE-bench runner (`benchmarks/swebench`) | results file | run, resume, aggregate | partial runs | every instance counted once |
| KitOps, port discipline, secret filter, dashboard views | - | scripts and views | - | not modelled (section 8) |

They meet as follows. `create_task` inserts a row and starts `run_task` in the background. It
provisions a sandbox, registers sandbox, store and guardrail under the task id, compiles the graph
with an in-memory checkpointer and runs it. Nodes call the agents, which call the LLM and, through
the recording and guardrail proxies, the sandbox. At an interrupt `run_task` returns and everything
stays registered; `hitl_decision` writes the decision and resumes the graph inside the request, whose
answer waits for the delivery. Every node publishes trace events, which the broadcaster puts on the queues of the WebSocket
subscribers.

## 2. How the project is built

| Module | Models | Composes with |
|---|---|---|
| `AgentGraph` | the state of a task and the nodes both topologies share | - |
| `SupervisorGraph` | the `supervisor_only` graph | extends `AgentGraph`, implements `GatedDelivery` |
| `HybridGraph` | the `hybrid` graph with its peer hand-offs | extends `AgentGraph` |
| `GatedDelivery` | what delivery promises: ask, be allowed, push, propose | abstract |
| `AgentTurn` | the inside of one Coder, Reviewer or QA node, call by call | explains what `AgentGraph` takes as a choice |
| `TaskLifecycle` | run_task, the decision request, resume, completion, clean-up, restart | the graph is reduced to where it stops |
| `SandboxLifecycle` | the Docker objects of tasks and the janitor | run_task is reduced to when it sets up and takes down |
| `TraceStream` | publish, queues, sockets, and what a page shows | the graph is reduced to what its nodes publish and store |
| `..._proofs` | theorems | extend the module they are about |
| `MC...` | values of constants for TLC | extend their module |

Everything that is proved about is written without RECURSIVE operators, with its parameters as
constants under a named assumption.

Open, in the order of what it would add: the model call and pull request of the `single_agent` node; the
semantic store's delete-and-insert of one file beside another task's search; the benchmark runner's resume
from its results file.

## 3. The modules

**AgentGraph** is what both topologies share: the state of one task (`OrchestratorState`), the row of
the task and the counts of its outcome rows, what GitHub has seen, and the shared nodes. One node of
the code is one action: LangGraph runs a node to its end, merges the dict it returns and evaluates
the routing function on the merged state, and no other node of the task runs meanwhile. A HITL node
is two actions, `Interrupt` (the node up to `interrupt()`, including what it writes before) and
`Resume...` (the node again from its first line, then past the interrupt). Trace events, logging and
Langfuse calls are left out. Data is abstracted to what routing and bookkeeping look at:

| Variable | Code |
|---|---|
| `node`, `paused` | the node LangGraph runs next; an interrupt is pending |
| `status`, `outcome`, `plan`, `edit`, `review`, `report` | the fields of the same meaning; `edit` is its `diff_hash`, `review` its verdict, `report` whether `failed` is zero |
| `retries`, `cost` | `retry_counters["coder_0"]` (`step_index` stays 0), `total_cost_usd` |
| `pydFails`, `rejected`, `testFails`, `fired` | the uncertainty tracker's fields in the state |
| `task`, `rows` | `tasks.status`, `tasks.hitl_decision`; rows of `outcomes` per outcome |
| `commits`, `prs` | successful pushes and pull requests |
| `turns`, `spent`, `fresh`, `rejects` | history: Coder turns, money really spent, which of verdict and report are about the current edit, rejections per diff. No guard reads them |

How an agent turn can end is a family of operators: `Failed` (any exception), `Blocked`
(GuardrailViolation), `Invalid` (ValidationError), `OverBudget`, `ToolsEscalate` (the tool calls show
a loop or too many errors) and the successful turn of each agent. The order in which a node merges its
partial updates matters and is kept: see `ToolsEscalate`, `ReviewToolsEscalate`, `ReviewStored`.
`AgentFaults` says which exceptions which agent lets out. The operators marked "Slip" are plausible
mistakes; only the mutants use them.

**SupervisorGraph** adds the Coder and Reviewer nodes and edges, the specification, the properties and
the invariants of the proofs. `Spec` assumes weak fairness of the graph's own steps: asyncio runs a
coroutine that is due, and every external call in a node ends in a result or an exception. Nothing
obliges a person to decide.

**GatedDelivery** is the abstract specification: a process that works, asks, is allowed or not, pushes
and proposes. `SupervisorGraph!Gate` instantiates it with the refinement mapping.

**MCSupervisorGraph** gives the fault sets of the runs.

**TaskLifecycle** is everything around the graph, for any number of tasks and decision requests: `POST
/tasks`, the background coroutine `run_task`, `POST /tasks/{id}/hitl/decision`, the resumed graph,
`_post_graph_completion`, `cleanup_task_runtime`, and a restart of the back end. The graph itself is
reduced to where it stops: before its first interrupt it pauses, ends or raises; after one it goes from
checkpoint to checkpoint, pushes and proposes. Coroutines share one event loop, so a step runs from one
await to the next, and awaits that no other coroutine can tell apart are one step.

| Variable | Code |
|---|---|
| `row`, `outcomes` | the `tasks` row (`status`, `hitl_decision`, `ended_at`) and the `outcomes` rows run_task, the decision and the completion insert |
| `api`, `open` | `_store` of `api/main.py`, as the number of stores it has made; the stores whose `_pool` is not None |
| `live` | the task's entries in the registries (`_active_graphs`, `_active_stores`, `_active_sandboxes`), which are made and removed together |
| `cp` | where the latest checkpoint of the task's thread stands (`MemorySaver`) |
| `run[t]` | the coroutine of `run_task`: where it is, the store object it was given, the outcome of its graph |
| `req[r]` | a decision request: where it is, the store object it was given, the node the resumed graph is at, what `resume_graph` returned |
| `pushed`, `prs` | what GitHub has; a branch is created once per workspace, and GitHub refuses a second pull request for it |
| `approved` | history: the tasks with an approval written to the row. No guard reads it |

`Create`, the disjuncts of `RunStep` and of `RequestStep` follow the code in order; `RunFails` and
`RunNotes` are the two writes of both of run_task's error paths, `Records`, `Finishes` the two of the
completion. A query on a closed store raises: `RunQuery` leaves run_task with the row as it is,
`Breaks` answers the request 500, `NodeRaises` is swallowed by `resume_graph`. `Ask` is a request that
passes both checks of `hitl_decision`, from which to the first write there is no further test: that
window, and the one between any two writes, is where another request's steps can come. Requests that
fail the checks change nothing and are left out. Tasks are of the topologies with checkpoints.

`PatientClients` says that nobody sends a decision for a task while another is under way: the dashboard
disables its buttons meanwhile (`web/components/task/hitl-approval.tsx`). What needs it is said below.
`Spec` assumes weak fairness of every coroutine: the loop runs what is due, and each await ends.
Decisions and restarts are never forced. Deadlock is not checked in these runs: with every request
answered and every run_task returned or dead the system rightly stops.

Left out of this module: the window between the node's write of `awaiting_hitl` and its checkpoint, the
two connects of a race in `get_store`, the outcomes inserted by escalation nodes (AgentGraph has them),
failures of Postgres other than a closed pool, and branches left over from an earlier task for the same
issue.

**HybridGraph** is the second topology: the first Coder runs under the supervisor, and after a
`reject_with_changes` Reviewer and Coder hand the task to each other until the retries are used. Its
Coder and Reviewer nodes have none of the failure bookkeeping of `supervisor_only`, and catch every
exception the same way; Planner, QA, delivery and the human nodes are `AgentGraph`'s. `handoffs` is
`peer_handoff_count`, `reviewerSpan` is `last_reviewer_span_id`, where a review that could not get a
span clears it. `reviews` and `parents` are history: the spans of the reviews and what each peer Coder
hung under.

**AgentTurn** opens one agent node. `todo` holds the calls the agent's code still makes, in its order
(reads, analyses, the diff, the test files, the test run); each goes through the recording proxy and
the guardrail to the sandbox, succeeds or fails, and is recorded. Then the model answers, cannot be
parsed (a free run of the model with tools follows), or costs too much. At the end the node settles
the recordings one by one: `SettleCall` is one iteration of the loop of `recording.py`, with the window
read from the accumulated update when an earlier recording has written one. When a recording escalates,
the node merges the update of a successful turn over the one of the tool calls, so the state keeps its
old error windows (supervisor_only.py:699); the task ends then. `uncertainty_fired` has no variable here:
every return that sets it ends the task.

| Variable | Code |
|---|---|
| `turn`, `phase`, `todo` | the agent node that runs and where it is |
| `recordings` | `_tool_call_recordings[task_id]` |
| `toolHistory`, `errWindows` | `tool_call_history`, `tool_error_windows` of the state |
| `acc` | `accumulated_update` of the loop that settles a turn |
| `outcome`, `report` | the outcome the turn ends with, and whether the report QA stores says tests failed |
| `made`, `started` | history: every call with its result and turn, turns per agent |

A call is the pair the detector hashes, tool and arguments. Window sizes and thresholds are the code's.
A task ends here after three turns of an agent: one retry budget (`MaxAttempts`).

**SandboxLifecycle** follows the network, the proxy and the container of each task: `docker[t][k]` is what
Docker has, `handles[t]` what the SandboxManager remembers, `pc[t]` where run_task, the single_agent node
or resume_graph is. Every Docker call runs in an executor, so tasks, the janitor and a death of the
process come between any two. Docker is external: a running container is an endpoint of its network, a
network with endpoints cannot be removed, a container that failed to start may stay behind. Age is
relative: `old[t]` are the objects older than the janitor's limit, which grow old in the order they were
made, and whose cutoff is taken when a sweep starts. `GiveUp` is SandboxManager's own janitor, which
raises where the other one logs.

**TraceStream** follows one task, one page and its sockets: nodes publish live events and write
decisions; the broadcaster puts an event on the queue of each subscriber and drops one whose queue is
full; a node whose agent failed may publish no end at all (`FailNode`); the page opens a socket and a GET of the task together, on first load and after each reconnection,
and merges what both bring by span id and by content. The GET reads the row before the history, and its
answer may arrive any time later. `from` and `published` are history.

## 4. The runs

| Run | Instance | Distinct states | Shows |
|---|---|---|---|
| `graph_as_written` | two diffs, costs 0/1/4 under a budget of 9, three retries, both checkpoints, approve and reject, the exceptions the agents really raise | 41,960 | the graph's invariants and `NoAgentAfterOutcome` |
| `graph_gate` | both checkpoints, approvals only, every exception with a handler, ValidationErrors included | 39,570 | `FiredMeansAsked`, `ImplementsGatedDelivery`, `AnsweredTasksEnd` |
| `hybrid_peers` | as the first run, one checkpoint, hybrid topology | 50,490 | the budgets, the judged push, the hand-offs, `AnsweredTasksEnd` |
| `turn_task` | one file, one test file or none, diffs of two lengths, three failing calls, one tool call in a fallback | 1,833,298 | the windows and the detectors |
| `tasks_and_failures` | two tasks, two overlapping decisions, both checkpoints, one restart | 272,505 | `NothingWrittenUnapproved`, `CompletedHasPr` |
| `tasks_shared_store` | two tasks, three decisions, patient clients, one checkpoint | 38,868 | `RejectionIsFinal`, `RejectionInv`, `AwaitingCanBeDecided`, `OpenedIsRecorded` |
| `sandbox_sweeps` | two tasks of either kind, one refused removal, one death of the process, two sweeps | 4,397,163 | `CleanTeardownLeavesNothing`, `NoYoungSandboxLost`, `SweepReclaims` |
| `trace_pages` | two turns, queues of two, two sockets | 3,369,369 | `NoGapInStream`, `ShownOnce`, `StoppedPageShowsDecisions` |
| `graph_same_fix`, `task_two_decisions`, `turn_failing_tests`, `trace_cost` | one property each | refuted | a sentence of the repository that the code does not keep (section 7) |

The graph, both topologies:

- `OneDelivery`: at most one push and one pull request, in that order, and a final state that tells.
- `AwaitingIffPaused`: the row says `awaiting_hitl` exactly while an interrupt is pending.
- `EscalationsReachAHuman`: an escalation ends a task only if a person refused to go on.
- `PushedEditWasJudged`: the pushed edit was reviewed, and tested if accepted, as it stands.
- `RetryBudget`, `CostIsComplete`, `PeerCostIsComplete`: the two budgets, the second against what the turns
  cost as they report it.
- `NoAgentAfterOutcome`: once an outcome is set no agent runs.
- `GraphInv`: the inductive invariant of the proofs, so TLC sees it before TLAPS.
- `FiredMeansAsked`: after the uncertainty tracker fired only the human node is left.
- `AnsweredTasksEnd`: if every interrupt is answered, the task ends.
- `ImplementsGatedDelivery`: refinement, with the gate's own fairness.
- `PeerCoderAnswersItsReview`, `HandoffsFollowReviews`: a hand-off is a refusal of the edit in the state, and
  hangs under the review that asked for it, never under an older one.

One turn:

- `OwnCallsOnly`: the list of recordings, which all agents of a task share, never carries a call into the
  next agent's turn.
- `ErrorWindowIsRecent`: rebuilt for every recording and merged back once, the window is still the last
  ten results of its agent.
- `FailingAgentStops`, `StuckAgentStops`: no further turn after more than half of the recent calls failed,
  or after the third turn that ends in the same call.
- `LoopIsRepetition`: a reported loop was one.

The lifecycle:

- `NothingWrittenUnapproved`: no branch and no pull request for a task without a recorded approval,
  whatever overlaps, fails or restarts.
- `CompletedHasPr`: three tables and GitHub are written one after another; `completed` comes last.
- `AwaitingCanBeDecided`: a row that awaits a decision can be decided and its graph resumed. It holds with
  one checkpoint and no restart; with both checkpoints it does not (section 7).
- `RejectionIsFinal`: after an answered rejection no pull request appears and the row stays rejected,
  given patient clients; without them it is refuted.
- `OpenedIsRecorded`: an opened pull request ends as `completed` although another task's clean-up may
  close the shared store at any moment, because the completion connects a store of its own.

Sandboxes:

- `CleanTeardownLeavesNothing`: a failed set-up is taken down by what there are handles of, and that is
  everything it made, when Docker refused nothing and left nothing half-started.
- `NoYoungSandboxLost`: networks are swept whatever their age, and what saves a live one is that its
  containers are attached.
- `SweepReclaims`: one pass, containers before networks, takes every object that is
  stale, has no owner and is not held back by a young container.

The page:

- `NoGapInStream`: what a socket got and has queued is a contiguous piece of what was published.
- `ShownOnce`: reconnections and late answers show nothing twice.
- `StoppedPageShowsDecisions`: a page that stopped because the row said so has every decision, because the
  row is read first and written last.

Bounds of the graph. Two diffs are enough for "the same diff again" and "another diff". Three retries is
the code's own constant. Costs 0/1/4 and a limit of 9 reach the limit exactly, just below and above, on
different agents. All thresholds are the code's. Nothing else is bounded: every counter is limited by the
graph.

Bounds of a turn. One file gives each agent one read and the Reviewer two analyses and a second read:
windows of five and of ten calls fill within two turns. Three failures cross the error rate early and
late; a fallback with one tool call shows what it adds to the recordings.

Bounds of the lifecycle. Two tasks are what sharing a store takes: one closes it under the other. Two
requests overlap; a third is a decision after another one ended. One restart hits every position, since
any step may come before it. Store objects are numbered without bound; requests bound them.

Bounds of the sandboxes. Two tasks: one that lives beside one that is swept. A sweep is one pass over
both; a second one shows that what the first left is taken then. One refusal and one death come at every
position. The proofs need none of these bounds.

Bounds of the stream. A queue of two is full after one turn; two sockets are one reconnection, whose two
answers come in either order. Two turns have an event before and after any of these.

Deadlock is checked where the last state is a step of its own (the graphs). It is not checked in the other
runs: with every request answered, every task done and the bounds used up the system rightly stops.

`NoValidationFault` separates two worlds. As the agents are written no ValidationError reaches a node
(the first parse catches it, the fallback raises another error), and `RetryBudget`, `CostIsComplete`
and `PushedEditWasJudged` hold. With the handlers the nodes have (`graph_gate`) a ValidationError
below the threshold returns neither an outcome nor a status, so the graph goes on with the old edit;
those three are not claimed there.

Fairness is stated where liveness is checked: weak fairness of the graph's own steps and of every
coroutine, as above. `AgentTurn`, `SandboxLifecycle` and `TraceStream` state safety only; nothing there
promises that a janitor runs, that a queue is read or that a page reconnects.

## 5. The mutants

Each property has a mutant in PROJECT.json: a definition replaced by a slip (an escalation that halts,
a report not looked at, one attempt too many, a budget not compared, a checkpoint skipped, a teardown in
the wrong order, a sweep that forgets the proxies, a row read after the history), which the
run must then refute.

## 6. The proofs

`AgentGraph_proofs` has the lemmas about the nodes both topologies share: every way a turn can end, every
other node and every decision leave well-typed values. The two modules below extend it. All three are about
all values of the constants under `GraphAssumption` (NoEdit is not a diff, costs and limits are naturals,
the retry budget is positive).

`SupervisorGraph_proofs`:

1. `TypeCorrect`: the shared lemmas, and one for each of the topology's own agents.
2. `Safe`: `UndecidedInv` (agents run only while nothing is decided), `DeliveryInv` (what GitHub has seen
   at each node) and the three delivery properties are inductive together. `OneDelivery` alone is not: a
   second push is excluded only because every node before `run_open_pr` has seen none. The key lemmas are
   `PlannerStep`, `CoderStep`, `ReviewerStep`, `QaStep`: an agent step either stops the task at a halt or
   an escalation (`Stopped`) or goes on undecided (`GoesOn`) to a known node.
   Corollaries: `DeliveredOnce`, `AwaitingIsPaused`, `EscalationsAreSeen`, `NoAgentAfter`.
3. `Kept`: under `NoValidationFault`, `BudgetInv`, `CostInv` and `JudgedInv` are inductive relative to
   `Safe`. Corollaries: `GraphInvariant`, `RetriesAreBounded`, `CostIsTrue`, `PushesAreJudged`.
4. `GateRefined`: with approvals alone every step maps to a step of the gate or a stutter. This is the
   safety half of `ImplementsGatedDelivery`.

5. `FiredIsAsked`: `FiredMeansAsked` is inductive given types. A turn leaves the tracker as it was or fires
   it and escalates in one step (`Fires`), and routing sends every escalation to the human node.

Only model-checked: `AnsweredTasksEnd` and the fairness of the gate (liveness under fairness is out of the
prover's reach).

`HybridGraph_proofs`:

1. `HandoffInvariant`: `HybridInv` is inductive on its own, whatever the agents raise. `AttemptInv` and
   `MoneyInv` tie the counters to the nodes where an agent is due; `ChainInv` says that each hand-off so
   far hangs under its own review; `TurnInv` that Coder and Reviewer alternate: as many reviews as turns
   when a peer Coder is due, one less when the Reviewer is, and the span in the state is the last review's.
   `HandoffsFollowReviews` alone is not inductive: it says nothing of the span the next hand-off will take.
   A turn that stops the task leads to a node where no agent is due (`StopsAtStop`), from which none comes
   back (`PlainStepFrame`), so there only `ChainInv` and the bound on turns remain (`NoLongerDue`).
   Corollaries: `ChainIsInOrder`, `PeersAnswerReviews`, `PeerTurnsAreBounded`, `PeerCostIsTrue`.
2. `PeerPushesAreJudged`: `JudgedInv` is inductive relative to it, where QA raises no ValidationError
   (`QaReports`): the first two of those leave outcome and status alone and the task would be pushed
   without a report. Nothing is assumed of the other agents.
3. `HybridTypeCorrect`, from the shared lemmas and `HandoffInvariant`.

Only model-checked: its `AnsweredTasksEnd`.

`TaskLifecycle_proofs`, for any tasks, any requests, impatient clients and any number of restarts:

1. `TypeCorrect`, with `SentForATask`: a request that was sent is about a task.
2. `WritesAreApproved`: `WriteInv` adds that whoever is past the first write of an approval belongs to an
   approved task; `pushed \cup prs \subseteq approved` alone says nothing of a request on its way.
3. `CompletionsAreBacked`: `RecordInv` adds that a request, or a checkpoint, at `pr_opened` has its pull
   request, and its outcome when it comes to finish the row. A checkpoint matters because a second
   resume of a finished thread starts from it.

`TaskDecisions_proofs`, under `PatientClients`: `DecisionsKeepOrder` proves `RejectionInv`, that at most one
decision of a task is active, what row each step of a decision finds, and that run_task has returned
(`Quiet`) once the row awaits a decision: otherwise its last write could overwrite the rejection.
`RejectionsAreFinal` follows from it and from `WritesAreApproved`.

In the same module `AwaitingIsDecidable` proves `AwaitingCanBeDecided` for any tasks and requests, where
clients are patient, the graph has one checkpoint and the back end is not restarted; without the last two
it does not hold (section 7). `AwaitingInv` is inductive relative to `RejectionInv`. Its hard part is the
store: a resumed node that fails on a closed store leaves the row at `awaiting_hitl`, and the property
survives only because the request then fails too. `StoreInv` says why: at most the latest store is open,
and a decision's store is no older than its task's, so if the task's is open when the node starts
(`Reenters`) the two are the same.

Only model-checked of the lifecycle: `OpenedIsRecorded` (liveness).

`SandboxLifecycle_proofs`, for any tasks, topologies, refusals, deaths and sweeps, under
`SandboxAssumption` (the bounds are naturals):

1. `SandboxInvariant`. Three parts are about one task: `NewInv`; `OwnInv`, that every object of a task
   whose teardown is to come has a handle and that teardown has removed what its position says; `UpInv`,
   that what set-up started is up as long as no container is old. A step of a task changes no other task
   (`Frame`), so `TaskStep` is what one lemma per action proves. Three parts are about the sweep:
   `ListInv`, that the containers it goes through are old; `DoomInv`, that what it has to remove is of an
   ownerless task, and its containers are to be removed too; `SweepInv`, that what is still there is
   still on its list or its kind is still to come. Tasks cannot disturb them, because nobody gives an
   ownerless task anything (`Orphaned`).
2. `UpInv` and `SweepInv` are what the two hard steps need: `SweepNetwork` cannot take a young sandbox's
   network because its proxy is attached, and cannot be held off a doomed network because an attached
   container would be doomed too, and the containers are gone by then.
3. Corollaries: `SandboxTypeCorrect`, `TeardownIsClean`, `YoungSandboxesStay`, `SweepsReclaim`.

`AgentTurn_proofs`, for any files, test suites, diffs and bounds that `TurnAssumption` allows. The windows
of the trackers are the code's own numbers and stay numbers. `TurnInv` is inductive and has six parts:
`Types`, tight enough that the calls a turn still has to make are known; `TurnsInOrder`, that calls carry
the number of their turn, in order; `CallsAreRecorded`, that the recordings are the tail of the calls made;
`WindowsAreRecent`, that every window is the last results before the recording it has come to, and never
mostly failures; `HistoriesAreTurns`, that a history is the last calls of the turns of its agent, by an
injection from its positions to them (`LastCallsOfTurns`); and `LoopIsRepetition` itself.

1. `StepKinds` reduces Next to six kinds of step (a turn starts, a call is recorded, the turn moves on, the
   agent ends, a recording is settled, a turn is settled), so each part is shown six times and not once per
   action.
2. Settling goes recording by recording while the state keeps the old windows: `WindowOfNext` says that
   the window after the next recording is the window of one call more, and `LastCallsOfNextTurn` that the
   history gains an entry only when the last recording of the turn is settled.
3. `RepeatsAreCalls` carries repetitions of a history over to calls made, and `TurnEndsInHistory` the ends
   of turns into the history. A history is never trimmed in reach: it is no longer than the turns of its
   agent, and `MaxAttempts`, the retry budget, is below `LoopWindow`.
4. Corollaries: `TurnsAreTyped`, `RecordingsAreOwnCalls`, `WindowsAreTheLastResults`, `FailingAgentsStop`,
   `StuckAgentsStop`, `LoopsAreRepetitions`.

`TraceStream_proofs`, for any number of turns and reconnections and any bound on the queues:

1. `StreamsHaveNoGap` proves `NoGapInStream`. Its inductive invariant `StreamInv` says, event by event, that
   what a socket was sent and has queued is what was published after it subscribed (`Sent`), and that nothing
   was sent on a socket nobody has subscribed yet (`Unopened`), without which `Subscribe`, which keeps what
   the page got, would break the first. `SentIsSubSeq` turns the pointwise form into the property's.
2. `PageInvariant` adds `PageInv`, inductive relative to `StreamInv`: `PublishedInOrder` and
   `HistoryInOrder`, that what a task publishes and stores has increasing places and ids; `FetchesAreStored`,
   that an answer on its way that says the task is over has every decision as soon as it has read them;
   `OneSocket`, that at most one connection is being opened or open; and `PageShows`. An event without an
   id is a new one because the open connection is past every one that is shown (`Passed`): a second open
   connection would break it. `TaskStepsMove` reduces the steps of the task to publishing or storing the
   next event.
3. `StoppedPagesAreComplete` needs that an event whose id is shown is the event that is shown: the ids of
   decisions are above those of live spans, and one id names one stored event (`HistoryIds`).
4. `Picked` is the filter both ends use. It is written with ranks of positions and not with the recursive
   `SelectSeq`, so that `RanksNumber` and `PickedElements` can be proved for every sequence without
   induction; MCTraceStream has TLC compare the two on all sequences of up to four elements.
5. Corollaries: `StreamsAreTyped`, `EventsAreShownOnce`, `StoppedPagesAreComplete`.

Only model-checked: `OpenedIsRecorded`, `AnsweredTasksEnd` and the fairness half of
`ImplementsGatedDelivery`, which are liveness. Every invariant that a passing run checks is also proved.

## 7. Where the code and what is said of it differ

Shown by a run that TLC refutes; PROJECT.json quotes the lines.

- `SameFixTwiceEscalates`: the rejection count is overwritten when the Reviewer made tool calls.
- `RejectionIsFinal` with impatient clients: `hitl_decision` checks, awaits, and writes. Both requests pass the
  checks, the rejection is written between the two writes of the approval, and when it is answered 200 the
  row says approved. No pull request is open in that run; the approval was not refused, although a decision
  came second.
- `FailingRunIsReported`: `run_tests` raises when a test fails, so QA keeps what the model claimed before
  any test ran.
- `CostResyncs`: the reconstructed `node_end` events carry no cost, and in the run the page has nothing else
  of the turn. With Langfuse the live one does not help either: it has the span id of its `node_start` and is
  dropped as a duplicate (use-trace-stream.ts:142).

In the models as in the code, and without a run of its own. Deciding and delivering:

- An outright rejection by the Reviewer takes the edge of an acceptance: an approval pushes it.
- The edges out of the checkpoints are unconditional, so a graph resumed with a rejection would push.
  Latent: the API resumes only on approval.
- With both checkpoints the second one cannot be decided: the row has a decision, the answer is 409.
- A carried-out approval may be answered with an error: the clean-up closes the API's shared store, and
  other tasks lose the store they are registered with.
- A refused uncertainty escalation, and a resumed `halt_retry_exhausted`, insert their outcome twice.
- An approved escalation leads to END with the task running, the person's guidance unread: `Finishes`
  writes `running` and `ended_at`.
- `create_outcome` refuses `persistent_test_failure` and two other outcomes before the row is written, so
  such a task stays running.
- `finish_task` writes NULL over the approval of a completed task.
- After a restart a row still awaits a decision, but its graph and checkpoint were in memory.

Agents:

- In the hybrid topology a guardrail violation of the first Coder is caught as any exception
  (hybrid.py:1001): it is reported as a sandbox failure and nobody is asked. Its runs record no tool call.
- `peer_handoff_count` is said to count the hand-offs (`__init__.py:129`): after the first, each one is counted
  by the Reviewer that refuses (hybrid.py:469) and again by the peer Coder it goes to (hybrid.py:678).
- README and bookkeeping.py:44 describe a loop as three equal calls within the last five; the node keeps
  one window per turn (recording.py:273), so what counts is the last call of each turn. Three turns that
  end in reading the same file are a loop, three equal calls in one turn are not.
- `apply_diff` is recorded by the length of the diff: two different diffs of one length are one call.
- The free run of the model may apply the diff, and the Coder applies what it parsed from it again; the
  cost of a fallback that cannot be parsed is lost.
- One failing test report ends the task: no retry, nobody asked, although a counter for it exists.
- Reviewer and QA swallow the GuardrailViolations of their own tool calls.

Sandboxes and the page:

- The docstrings of both sweeps say that only stale resources go, those older than `max_age_seconds`
  (janitor.py:30-33, manager.py:512), but networks are removed at any age (janitor.py:80, manager.py:552).
  Only Docker's refusal spares those in use, so a network whose proxy is not up yet may go and its set-up
  then fails. `SweepNetwork` does what the code does; `SweepReclaims` asks for stale objects only, so it would
  hold of the documented sweep, too.
- A task that waits longer than the limit (600 s) for a person loses its sandbox, which run_task leaves up
  for the resume.
- The semantic store connects outside the try of run_task, and the single_agent node sets up outside
  its own: a failure leaves the sandbox to the janitor. A container that was created and could not
  be started is left, too, and its network with it.
- A subscriber whose queue was full is dropped, but its socket stays open and is pinged: the page waits.
- The GET and the socket of a page are started together: a turn stored after the one has read and published
  before the other subscribed is in neither, until the next reconnection.
- The row may say failed before the outcome is written, and outcomes are read after decisions: a page that
  stops on the row may lack the outcome's event. No live `task_complete` is ever published.
- A node whose agent was blocked or gave an invalid answer publishes no `node_end` (supervisor_only.py:573-610):
  its span stays open on the page.

## 8. Not modelled

- Text: prompts, the parsing of model answers, the guardrail rules (regular expressions), the secret
  filter, logging, prices. Whether a text is blocked, parsed or too dear is a choice of the models.
- The semantic store: statements of the database, one vector search and its ranking. Only its failure to
  connect is part of `SandboxLifecycle`.
- The GitHub client: calls of git and of a service, one after another, with no state that outlives them;
  the graph has their success and failure.
- The benchmark runner, its evaluation, charts, KitOps packaging, port discipline: sequential scripts
  over files.
- The single_agent node's own call of the model and pull request: it asks nobody and keeps nothing.
- What a tool call does to the files of the container, and the dashboard's views.
- Failures of Postgres inside a node: they abort the graph and belong to the task lifecycle, which has a
  closed pool as the one failure of the store.
- The window between a node's write of `awaiting_hitl` and its checkpoint, and the two connects of a race
  in `get_store`: what LangGraph does with a second invocation of a running thread is not defined by
  this repository.
