------------------------------ MODULE AgentTurn ------------------------------
(***************************************************************************)
(* What happens inside one agent node of the graph: the agent makes its    *)
(* tool calls through the recording proxy, the guardrail and the sandbox,  *)
(* asks the language model, falls back to a free run of the model when the *)
(* answer cannot be parsed, and the node then settles the turn: it feeds   *)
(* the recorded calls, one by one, to the tool-error tracker and to the    *)
(* loop detector.                                                          *)
(*                                                                         *)
(* AgentGraph takes the result of a turn as a choice; this module says     *)
(* where the choice comes from and what the state fields                   *)
(* tool_call_history and tool_error_windows hold between two turns.  One   *)
(* action is one tool call, one model call or one settled recording.       *)
(***************************************************************************)
EXTENDS Naturals, Sequences, FiniteSets

CONSTANTS
    Files,           \* target_files of the plan and touched_files of the edit
    TestSuites,      \* the values generated_test_contents takes, as sequences
    DiffLengths,     \* len(diff) of the edits the Coder may produce
    MaxFailures,     \* bound: tool calls that fail in one task
    MaxToolCalls     \* bound: tool calls of the fallback runs of one task

Agents == {"coder", "reviewer", "qa"}

\* DEFAULT_WINDOW_SIZE and DEFAULT_THRESHOLD of the loop detector,
\* _TOOL_ERROR_WINDOW_SIZE and _MAX_RETRIES_PER_STEP.  A person who approves
\* an exhausted budget starts it again; this module ends there.
LoopWindow == 5
LoopThreshold == 3
ErrorWindow == 10
MaxAttempts == 3

ASSUME TurnAssumption ==
    /\ Files \in Seq(STRING)
    /\ TestSuites \subseteq Seq(STRING)
    /\ DiffLengths \subseteq Nat
    /\ MaxFailures \in Nat
    /\ MaxToolCalls \in Nat

VARIABLES
    turn,        \* the agent of the current or the last turn, or "none"
    phase,       \* where the turn is
    todo,        \* the calls the code of the turn still makes
    recordings,  \* _tool_call_recordings of the task
    toolHistory, \* tool_call_history of OrchestratorState
    errWindows,  \* tool_error_windows of OrchestratorState
    acc,         \* accumulated_update, the part about the agent of the turn
    outcome,     \* what ended the task, or ""
    report,      \* test_report: "none", "pass" or "fail"
    \* History, read by the properties only
    made,        \* made[a]: every call of a, with its result and its turn
    started      \* started[a]: turns of a so far

vars == <<turn, phase, todo, recordings, toolHistory, errWindows, acc, outcome,
          report, made, started>>

-----------------------------------------------------------------------------
(* The calls of a turn.  A call is (tool_name, args_hash): apply_diff is   *)
(* recorded with the length of the diff as its only argument.              *)

Shorter(i, j) == IF i < j THEN i ELSE j

Reads == [i \in 1..Shorter(5, Len(Files)) |-> <<"read_file", Files[i]>>]

\* ruff, then mypy, on each of the first three files.
Analyses ==
    [i \in 1..(2 * Shorter(3, Len(Files))) |->
        <<IF i % 2 = 1 THEN "ruff" ELSE "mypy", Files[(i + 1) \div 2]>>]

CallsBeforeModel(a) ==
    [coder |-> Reads, reviewer |-> Reads \o Analyses \o Reads, qa |-> Reads][a]

CallsAfterModel(a, diff, tests) ==
    [coder    |-> <<<<"apply_diff", diff>>>>,
     reviewer |-> <<>>,
     qa       |-> [i \in 1..Len(tests) |-> <<"write_file", tests[i]>>]
                  \o <<<<"run_tests", "pytest">>>>][a]

FileNames == {Files[i] : i \in 1..Len(Files)}

\* The sandbox tools the model may use in a fallback run of its agent.
FileReads == {<<"read_file", f>> : f \in FileNames}
CoderTools == FileReads \cup {<<"apply_diff", n>> : n \in DiffLengths}
ReviewerTools == FileReads \cup {<<"ruff", f>> : f \in FileNames}
QaTools ==
    FileReads \cup {<<"run_tests", "pytest">>}
    \cup UNION {{<<"write_file", tests[i]>> : i \in 1..Len(tests)} : tests \in TestSuites}

Tools(a) == [coder |-> CoderTools, reviewer |-> ReviewerTools, qa |-> QaTools][a]

\* The guardrail looks at commands and at written content, never at reads.
Results(call) ==
    {"ok", "failed"} \cup (IF call[1] = "read_file" THEN {} ELSE {"blocked"})

LastOf(s, n) == SubSeq(s, IF Len(s) > n THEN Len(s) - n + 1 ELSE 1, Len(s))

FailedIn(results) == Cardinality({i \in 1..Len(results) : ~results[i]})

ResultsOf(a) == [i \in 1..Len(made[a]) |-> made[a][i].ok]

FailuresSoFar ==
    FailedIn(ResultsOf("coder")) + FailedIn(ResultsOf("reviewer"))
    + FailedIn(ResultsOf("qa"))

FreeCalls(a) == Cardinality({i \in 1..Len(made[a]) : made[a][i].free})

ToolCallsSoFar == FreeCalls("coder") + FreeCalls("reviewer") + FreeCalls("qa")

-----------------------------------------------------------------------------
(* The initial state, and the turns the graph's edges allow.               *)

NoAcc == [next |-> 1, history |-> <<>>, window |-> <<>>]

Init ==
    /\ turn = "none" /\ phase = "idle" /\ todo = <<>> /\ recordings = <<>>
    /\ toolHistory = [a \in Agents |-> <<>>]
    /\ errWindows = [a \in Agents |-> <<>>]
    /\ acc = NoAcc /\ outcome = "" /\ report = "none"
    /\ made = [a \in Agents |-> <<>>]
    /\ started = [a \in Agents |-> 0]

\* The Reviewer follows the Coder; after a review the Coder tries again,
\* within its retry budget, or QA runs, once.
Follows(a) ==
    \/ a = "coder" /\ turn \in {"none", "reviewer"} /\ started["coder"] < MaxAttempts
    \/ a = "reviewer" /\ turn = "coder"
    \/ a = "qa" /\ turn = "reviewer"

StartTurn(a) ==
    /\ phase = "idle" /\ Follows(a)
    /\ turn' = a /\ phase' = "reading" /\ todo' = CallsBeforeModel(a)
    /\ started' = [started EXCEPT ![a] = @ + 1]
    /\ UNCHANGED <<recordings, toolHistory, errWindows, acc, outcome,
                   report, made>>

\* The task is over: the node returns without settling, and without clearing
\* the recordings.
EndTask(o) ==
    /\ phase' = "over" /\ outcome' = o
    /\ UNCHANGED <<turn, todo, toolHistory, errWindows, acc, report, started>>

-----------------------------------------------------------------------------
(* Tool calls                                                              *)

\* RecordingSandboxProxy: every call is recorded, whatever becomes of it.
Record(call, result, free) ==
    /\ recordings' = Append(recordings, [call |-> call, ok |-> result = "ok"])
    /\ made' = [made EXCEPT ![turn] =
                   Append(@, [call |-> call, ok |-> result = "ok",
                              turn |-> started[turn], free |-> free])]

Exec(call, result) ==
    /\ result \in Results(call)
    /\ result = "ok" \/ FailuresSoFar < MaxFailures

\* QA takes the counts of the run when the run returns.  A run that raises
\* keeps the counts the model gave, and run_command raises on a non-zero exit.
ReportAfter(call, result) ==
    IF call[1] = "run_tests" /\ phase = "acting" /\ result = "ok"
    THEN "pass" ELSE report

\* A call the agent's own code makes.  Its exceptions are logged and dropped,
\* except those of the Coder's apply_diff.
Call ==
    /\ phase \in {"reading", "acting"} /\ todo # <<>>
    /\ \E result \in {"ok", "failed", "blocked"} :
        /\ Exec(Head(todo), result)
        /\ Record(Head(todo), result, FALSE)
        /\ IF turn = "coder" /\ phase = "acting" /\ result # "ok"
           THEN EndTask(IF result = "blocked" THEN "guardrail_block"
                        ELSE "sandbox_failure")
           ELSE /\ todo' = Tail(todo)
                /\ report' = ReportAfter(Head(todo), result)
                /\ UNCHANGED <<turn, phase, toolHistory, errWindows, acc,
                               outcome, started>>

\* A call the model makes in a fallback run: the tool turns an exception into
\* a message to the model.
ToolCall ==
    /\ phase = "fallback" /\ ToolCallsSoFar < MaxToolCalls
    /\ \E call \in Tools(turn), result \in {"ok", "failed", "blocked"} :
        Exec(call, result) /\ Record(call, result, TRUE)
    /\ UNCHANGED <<turn, phase, todo, toolHistory, errWindows, acc,
                   outcome, report, started>>

-----------------------------------------------------------------------------
(* The model                                                               *)

\* What the node reads of the state before the first recording.
Reconstructed ==
    [next |-> 1, history |-> toolHistory[turn], window |-> errWindows[turn]]

\* The agent has its answer: the counts the model claims, and the calls the
\* answer asks for.
TakeAnswer ==
    \E diff \in DiffLengths, tests \in TestSuites, claim \in {"pass", "fail"} :
        /\ phase' = "acting"
        /\ todo' = CallsAfterModel(turn, diff, tests)
        /\ report' = IF turn = "qa" THEN claim ELSE report
        /\ UNCHANGED <<turn, recordings, toolHistory, errWindows, acc,
                       outcome, made, started>>

\* chat_with_cache: it raises, or its answer parses, or it does not.
Ask ==
    /\ phase = "reading" /\ todo = <<>>
    /\ \/ EndTask("sandbox_failure") /\ UNCHANGED <<recordings, made>>
       \/ TakeAnswer
       \/ phase' = "fallback" /\ UNCHANGED <<turn, todo, recordings, toolHistory,
                 errWindows, acc, outcome, report, made, started>>

FallbackEnds ==
    /\ phase = "fallback"
    /\ \/ EndTask("sandbox_failure") /\ UNCHANGED <<recordings, made>>
       \/ TakeAnswer

\* The decision is stored and the budget compared: the node settles the turn,
\* or ends the task without settling it.
Persist ==
    /\ phase = "acting" /\ todo = <<>>
    /\ \/ \E o \in {"sandbox_failure", "cost_budget_exhausted"} :
            EndTask(o) /\ UNCHANGED <<recordings, made>>
       \/ /\ phase' = "settling"
          /\ acc' = Reconstructed
          /\ UNCHANGED <<turn, todo, recordings, toolHistory, errWindows,
                         outcome, report, made, started>>

-----------------------------------------------------------------------------
(* _process_tool_call_recordings                                           *)

\* Every recording starts from the window of the state.
WindowOfState(ok) == LastOf(Append(errWindows[turn], ok), ErrorWindow)

\* The window is not trimmed.
WindowUntrimmed(ok) == Append(acc.window, ok)

\* record_tool_call: the error window of the agent, which grows through the
\* turn, and the trigger on its rate.  A tracker that has fired records nothing,
\* but every return that sets uncertainty_fired ends the task: no turn finds it.
WindowWith(ok) == LastOf(Append(acc.window, ok), ErrorWindow)

\* The rate is looked at only once the window is full.
RateOfFullWindow(w) == Len(w) = ErrorWindow /\ 2 * FailedIn(w) > Len(w)

\* More than half of at least two results are failures.
ErrorRateExceeded(w) == Len(w) >= 2 /\ 2 * FailedIn(w) > Len(w)

\* _get_tool_call_history_update: the history before the turn and this call.
HistoryWith(call) == LastOf(Append(toolHistory[turn], call), LoopWindow)

\* More than the threshold, and the name of the tool without its arguments.
IsLongLoop(h) ==
    \E i \in 1..Len(h) : Cardinality({j \in 1..Len(h) : h[j] = h[i]}) > LoopThreshold
IsToolLoop(h) ==
    \E i \in 1..Len(h) : Cardinality({j \in 1..Len(h) : h[j][1] = h[i][1]}) >= LoopThreshold

\* LoopDetector.check on that history.
IsLoop(h) ==
    \E i \in 1..Len(h) : Cardinality({j \in 1..Len(h) : h[j] = h[i]}) >= LoopThreshold

\* _check_loop_detection: the history of the state, not of the turn.
LoopDetected(call) == IsLoop(HistoryWith(call))

Settled(window, history) ==
    /\ errWindows' = [errWindows EXCEPT ![turn] = window]
    /\ toolHistory' = [toolHistory EXCEPT ![turn] = history]

\* One iteration: the tracker first, then the loop detector, whose result wins.
\* The node merges success_update, made from the old state, over what escalates:
\* the error windows are the old ones again.
SettleCall ==
    /\ phase = "settling" /\ acc.next <= Len(recordings)
    /\ LET rec == recordings[acc.next]
           window == WindowWith(rec.ok)
           history == HistoryWith(rec.call)
           trigger == ErrorRateExceeded(window)
       IN IF LoopDetected(rec.call) \/ trigger
          THEN /\ outcome' = IF LoopDetected(rec.call) THEN "loop_detected"
                             ELSE "uncertainty_escalation"
               /\ toolHistory' = [toolHistory EXCEPT ![turn] = history]
               /\ phase' = "over" /\ recordings' = <<>> /\ acc' = NoAcc
               /\ UNCHANGED errWindows
          ELSE /\ acc' = [next |-> acc.next + 1, history |-> history, window |-> window]
               /\ UNCHANGED <<phase, outcome, recordings, toolHistory, errWindows>>
    /\ UNCHANGED <<turn, todo, report, made, started>>

\* The recordings outlive the turn.
SettleWithoutClearing ==
    /\ phase = "settling" /\ acc.next > Len(recordings)
    /\ Settled(acc.window, acc.history)
    /\ phase' = "idle" /\ acc' = NoAcc
    /\ UNCHANGED <<turn, todo, recordings, outcome, report, made, started>>

\* The recordings are cleared and the accumulated update is merged.
SettleTurn ==
    /\ phase = "settling" /\ acc.next > Len(recordings)
    /\ Settled(acc.window, acc.history)
    /\ phase' = "idle" /\ recordings' = <<>> /\ acc' = NoAcc
    /\ UNCHANGED <<turn, todo, outcome, report, made, started>>

Next ==
    \/ \E a \in Agents : StartTurn(a)
    \/ Call \/ ToolCall \/ Ask \/ FallbackEnds \/ Persist
    \/ SettleCall \/ SettleTurn

Spec == Init /\ [][Next]_vars

-----------------------------------------------------------------------------
(* Properties                                                              *)

\* The state between and within turns is of its type, and the windows keep
\* their bounds.
TurnTypeOK ==
    /\ turn \in Agents \cup {"none"}
    /\ phase \in {"idle", "reading", "fallback", "acting", "settling", "over"}
    /\ report \in {"none", "pass", "fail"}
    /\ outcome \in {"", "loop_detected", "uncertainty_escalation", "guardrail_block",
                    "sandbox_failure", "cost_budget_exhausted"}
    /\ (phase = "over") = (outcome # "")
    /\ \A a \in Agents :
        /\ Len(toolHistory[a]) <= LoopWindow /\ Len(errWindows[a]) <= ErrorWindow
        /\ started[a] \in 0..MaxAttempts

\* The calls of the current turn of the agent whose turn it is.
CallsOfTurn == {i \in 1..Len(made[turn]) : made[turn][i].turn = started[turn]}

\* The last call of each turn of a.
TurnEnds(a) ==
    {i \in 1..Len(made[a]) : i = Len(made[a]) \/ made[a][i + 1].turn # made[a][i].turn}

\* Nothing of one turn is left for the next: what the node settles is exactly
\* what its own agent called in this turn, and no recording waits between two
\* turns, where it would count for the agent that runs next.
OwnCallsOnly ==
    /\ phase = "idle" => recordings = <<>>
    /\ phase = "settling" =>
        recordings = [i \in 1..Cardinality(CallsOfTurn) |->
            LET m == made[turn][Len(made[turn]) - Cardinality(CallsOfTurn) + i]
            IN [call |-> m.call, ok |-> m.ok]]

\* The error window is rebuilt from the state for every recording and merged
\* back once: between turns it is still the last ten results of its agent.
ErrorWindowIsRecent ==
    phase = "idle" =>
        \A a \in Agents : errWindows[a] = LastOf(ResultsOf(a), ErrorWindow)

\* No agent goes on to another turn when at some point, from its second call
\* on, more than half of its last ten calls had failed.
FailingAgentStops ==
    phase = "idle" =>
        \A a \in Agents : \A n \in 2..Len(made[a]) :
            LET recent == LastOf(SubSeq(ResultsOf(a), 1, n), ErrorWindow)
            IN 2 * FailedIn(recent) <= Len(recent)

\* An agent whose turns end in the same call does not complete a third one:
\* the history keeps the last call of each turn.
StuckAgentStops ==
    phase = "idle" =>
        \A a \in Agents : \A i \in TurnEnds(a) :
            Cardinality({j \in TurnEnds(a) : made[a][j].call = made[a][i].call})
                < LoopThreshold

\* A reported loop is a repetition: its agent really made the call that is
\* reported, the same tool on the same arguments, three times.
LoopIsRepetition ==
    outcome = "loop_detected" =>
        Cardinality({j \in 1..Len(made[turn]) :
            made[turn][j].call = toolHistory[turn][Len(toolHistory[turn])]}) >= LoopThreshold

\* qa.py:550: "This ensures the TestReport reflects reality".  A test run that
\* failed is reported as one.
FailingRunIsReported ==
    (turn = "qa" /\ phase = "idle" /\ ~made["qa"][Len(made["qa"])].ok) => report = "fail"
=============================================================================
