------------------------ MODULE TaskLifecycle_proofs ------------------------
(* Theorems of TaskLifecycle, for any tasks, requests and restarts. *)
EXTENDS TaskLifecycle, TLAPS

\* A request that was sent is about a task.
SentForATask == \A r \in Requests : ~ At(r, "unsent") => req[r].task \in Tasks

TypeInv == TypeOK /\ SentForATask

LEMMA StatusKeepsRows ==
    ASSUME row \in [Tasks -> Rows], NEW t \in Tasks,
           NEW s \in {"running", "awaiting_hitl", "approved"}, SetStatus(t, s)
    PROVE  row' \in [Tasks -> Rows]
BY DEF Rows, SetStatus

LEMMA FinishKeepsRows ==
    ASSUME row \in [Tasks -> Rows], NEW t \in Tasks,
           NEW s \in {"running", "rejected", "completed", "failed"},
           NEW d \in {"none", "reject"}, FinishTask(t, s, d)
    PROVE  row' \in [Tasks -> Rows]
<1>1. [status |-> s, decision |-> d, ended |-> TRUE] \in Rows
  BY DEF Rows
<1> QED BY <1>1 DEF FinishTask

LEMMA OutcomeKeepsType ==
    ASSUME outcomes \in [Tasks -> SUBSET ValidOutcomes], NEW t \in Tasks,
           NEW o \in ValidOutcomes, CreateOutcome(t, o)
    PROVE  outcomes' \in [Tasks -> SUBSET ValidOutcomes]
<1>1. outcomes[t] \cup {o} \in SUBSET ValidOutcomes
  OBVIOUS
<1> QED BY <1>1 DEF CreateOutcome

LEMMA RunKeepsType ==
    ASSUME run \in [Tasks -> Runs], NEW t \in Tasks,
           NEW s \in RunStates, RunGoes(t, s) \/ RunQuery(t, s)
    PROVE  run' \in [Tasks -> Runs]
<1>1. "dead" \in RunStates
  BY DEF RunStates
<1>2. ASSUME NEW x \in RunStates, RunGoes(t, x)
      PROVE  run' \in [Tasks -> Runs]
  <2>1. [run[t] EXCEPT !.pc = x] \in Runs
    BY DEF Runs
  <2> QED BY <1>2, <2>1 DEF RunGoes
<1> QED
  BY <1>1, <1>2 DEF RunQuery

\* A step of a request changes its own entry, and not the task it is about.
LEMMA RequestKeepsType ==
    ASSUME req \in [Requests -> Reqs], SentForATask, NEW r \in Requests,
           ~ At(r, "unsent"), NEW x \in Reqs, x.task = req[r].task,
           req' = [req EXCEPT ![r] = x]
    PROVE  req' \in [Requests -> Reqs] /\ SentForATask'
<1>1. \A q \in Requests : req'[q] = IF q = r THEN x ELSE req[q]
  OBVIOUS
<1> QED
  BY <1>1 DEF SentForATask, At

LEMMA GoesIsTyped ==
    ASSUME req \in [Requests -> Reqs], SentForATask, NEW r \in Requests,
           ~ At(r, "unsent"), NEW s \in RequestStates, Goes(r, s)
    PROVE  req' \in [Requests -> Reqs] /\ SentForATask'
<1> DEFINE x == [req[r] EXCEPT !.pc = s]
<1>1. x \in Reqs /\ x.task = req[r].task
  BY DEF Reqs
<1>2. req' = [req EXCEPT ![r] = x]
  BY DEF Goes
<1> HIDE DEF x
<1> QED BY <1>1, <1>2, RequestKeepsType

LEMMA LeavesIsTyped ==
    ASSUME req \in [Requests -> Reqs], SentForATask, NEW r \in Requests,
           ~ At(r, "unsent"), NEW s \in RequestStates, NEW b \in BOOLEAN,
           Leaves(r, s, b)
    PROVE  req' \in [Requests -> Reqs] /\ SentForATask'
<1> DEFINE x == [req[r] EXCEPT !.pc = s, !.resumed = b]
<1>1. x \in Reqs /\ x.task = req[r].task
  BY DEF Reqs
<1>2. req' = [req EXCEPT ![r] = x]
  BY DEF Leaves
<1> HIDE DEF x
<1> QED BY <1>1, <1>2, RequestKeepsType

LEMMA AdvanceIsTyped ==
    ASSUME TypeInv, NEW r \in Requests, ~ At(r, "unsent"),
           NEW p \in Positions \cup {"none"}, Advance(r, p)
    PROVE  /\ req' \in [Requests -> Reqs] /\ SentForATask'
           /\ cp' \in [Tasks -> Positions \cup {"none"}]
<1>1. req \in [Requests -> Reqs] /\ SentForATask
  BY DEF TypeInv, TypeOK
<1>2. cp' \in [Tasks -> Positions \cup {"none"}]
  BY DEF TypeInv, TypeOK, Advance, Positions, Interrupts
<1> DEFINE s == IF p \in ResumeOutcomes THEN "recording" ELSE "running"
           x == [req[r] EXCEPT !.at = p, !.pc = s]
<1>3. x \in Reqs /\ x.task = req[r].task
  BY <1>1 DEF Reqs, RequestStates
<1>4. req' = [req EXCEPT ![r] = x]
  BY DEF Advance
<1> HIDE DEF x
<1> QED
  BY <1>1, <1>2, <1>3, <1>4, RequestKeepsType

\* A new request.
LEMMA AskIsTyped ==
    ASSUME TypeInv, NEW r \in Requests, NEW t \in Tasks,
           NEW kind \in {"approve", "reject"}, Ask(r, t, kind)
    PROVE  TypeInv'
<1> DEFINE new == [pc |-> IF kind = "approve" THEN "approving" ELSE "rejecting",
                   kind |-> kind, task |-> t, store |-> ApiStore, at |-> "none",
                   resumed |-> FALSE]
<1>1. ApiStore \in Nat
  BY DEF TypeInv, TypeOK, ApiStore
<1>2. new \in Reqs
  BY <1>1 DEF Reqs, RequestStates
<1>3. req' = [req EXCEPT ![r] = new]
  BY DEF Ask
<1>4. req' \in [Requests -> Reqs]
  BY <1>2, <1>3 DEF TypeInv, TypeOK
<1>5. SentForATask'
  BY <1>3 DEF TypeInv, TypeOK, SentForATask, At
<1>6. api' \in Nat /\ open' \subseteq Nat
  BY <1>1 DEF Ask, UseApiStore, TypeInv, TypeOK
<1> QED
  BY <1>4, <1>5, <1>6 DEF Ask, TypeInv, TypeOK, github

LEMMA CreateIsTyped ==
    ASSUME TypeInv, NEW t \in Tasks, Create(t)
    PROVE  TypeInv'
<1>1. ApiStore \in Nat
  BY DEF TypeInv, TypeOK, ApiStore
<1>2. [run[t] EXCEPT !.pc = "starting", !.store = ApiStore] \in Runs
  BY <1>1 DEF Runs, RunStates, TypeInv, TypeOK
<1>3. run' \in [Tasks -> Runs]
  BY <1>2 DEF Create, TypeInv, TypeOK
<1>4. row' \in [Tasks -> Rows]
  BY StatusKeepsRows DEF Create, TypeInv, TypeOK
<1>5. api' \in Nat /\ open' \subseteq Nat
  BY <1>1 DEF Create, UseApiStore, TypeInv, TypeOK
<1> QED
  BY <1>3, <1>4, <1>5 DEF Create, TypeInv, TypeOK, SentForATask, At, github

\* run_task.
LEMMA RunStepIsTyped ==
    ASSUME TypeInv, NEW t \in Tasks, RunStep(t)
    PROVE  TypeInv'
<1> USE DEF TypeInv, TypeOK
<1>0. /\ {"provisioning", "graph", "failing", "dead", "paused", "recording",
          "finishing", "done", "noting"} \subseteq RunStates
      /\ "sandbox_failure" \in ValidOutcomes
  BY DEF RunStates, ValidOutcomes
<1>a. SentForATask' /\ UNCHANGED req
  BY DEF RunStep, RunStarts, Provision, RunPauses, RunEnds, RunRaises, RunRecords,
         RunFinishes, RunFails, RunNotes, SentForATask, At
<1>b. UNCHANGED <<api, open, restarts, pushed, prs, approved>>
  BY DEF RunStep, RunStarts, Provision, RunPauses, RunEnds, RunRaises, RunRecords,
         RunFinishes, RunFails, RunNotes, memory, github
<1>1. CASE RunStarts(t)
  BY <1>0, <1>a, <1>b, <1>1, RunKeepsType DEF RunStarts, memory
<1>2. CASE Provision(t)
  BY <1>0, <1>a, <1>b, <1>2, RunKeepsType DEF Provision
<1>3. CASE RunPauses(t)
  <2>1. PICK p \in {FirstCheckpoint, "escalation"} : cp' = [cp EXCEPT ![t] = p]
    BY <1>3 DEF RunPauses
  <2>2. p \in Positions
    BY DEF FirstCheckpoint, Positions, Interrupts
  <2>3. cp' \in [Tasks -> Positions \cup {"none"}]
    BY <2>1, <2>2
  <2>4. row' \in [Tasks -> Rows]
    BY <1>3, StatusKeepsRows DEF RunPauses
  <2>5. run' \in [Tasks -> Runs]
    BY <1>0, <1>3, RunKeepsType DEF RunPauses
  <2> QED BY <1>3, <1>a, <1>b, <2>3, <2>4, <2>5 DEF RunPauses
<1>4. CASE RunEnds(t)
  <2>1. PICK o \in RunOutcomes :
            run' = [run EXCEPT ![t] = [run[t] EXCEPT !.pc = "recording", !.end = o]]
    BY <1>4 DEF RunEnds
  <2>2. [run[t] EXCEPT !.pc = "recording", !.end = o] \in Runs
    BY <1>0 DEF Runs
  <2>3. run' \in [Tasks -> Runs]
    BY <2>1, <2>2
  <2> QED BY <1>4, <1>a, <1>b, <2>3 DEF RunEnds
<1>5. CASE RunRaises(t)
  BY <1>0, <1>a, <1>b, <1>5, RunKeepsType DEF RunRaises
<1>6. CASE RunRecords(t)
  <2>1. run' \in [Tasks -> Runs]
    BY <1>0, <1>6, RunKeepsType DEF RunRecords
  <2>2. outcomes' \in [Tasks -> SUBSET ValidOutcomes]
    BY <1>6, OutcomeKeepsType DEF RunRecords
  <2> QED BY <1>6, <1>a, <1>b, <2>1, <2>2 DEF RunRecords, memory
<1>7. CASE RunFinishes(t)
  <2>1. run' \in [Tasks -> Runs]
    BY <1>0, <1>7, RunKeepsType DEF RunFinishes
  <2>2. row' \in [Tasks -> Rows]
    BY <1>7, FinishKeepsRows DEF RunFinishes, StatusOf
  <2> QED BY <1>7, <1>a, <1>b, <2>1, <2>2 DEF RunFinishes, memory
<1>8. CASE RunFails(t)
  <2>1. run' \in [Tasks -> Runs]
    BY <1>0, <1>8, RunKeepsType DEF RunFails
  <2>2. row' \in [Tasks -> Rows]
    BY <1>8, FinishKeepsRows DEF RunFails
  <2> QED BY <1>8, <1>a, <1>b, <2>1, <2>2 DEF RunFails, memory
<1>9. CASE RunNotes(t)
  <2>1. run' \in [Tasks -> Runs]
    BY <1>0, <1>9, RunKeepsType DEF RunNotes
  <2>2. outcomes' \in [Tasks -> SUBSET ValidOutcomes]
    BY <1>0, <1>9, OutcomeKeepsType DEF RunNotes
  <2> QED BY <1>9, <1>a, <1>b, <2>1, <2>2 DEF RunNotes, memory
<1> QED
  BY <1>1, <1>2, <1>3, <1>4, <1>5, <1>6, <1>7, <1>8, <1>9 DEF RunStep

\* hitl_decision and the graph it resumes.
LEMMA RequestStepIsTyped ==
    ASSUME TypeInv, NEW r \in Requests, RequestStep(r)
    PROVE  TypeInv'
<1> DEFINE t == req[r].task
<1>0. {"marking", "resuming", "running", "passing", "finishing", "noting",
       "cleaning", "closing", "answering", "restoring", "ok", "error"}
        \subseteq RequestStates
  BY DEF RequestStates
<1>a. ~ At(r, "unsent")
  BY DEF RequestStep, At, RunsAt, Breaks, ApproveDecides, ApproveMarks, Resume,
         NodeRaises, Reenters, Passes, PassesUnregistered, AsksAgain, Pushes,
         Proposes, Records, Finishes, Rejects, Notes, Unregisters, Closes, Answers,
         Restores
<1>b. t \in Tasks
  BY <1>a DEF TypeInv, SentForATask
<1>c. req \in [Requests -> Reqs] /\ row \in [Tasks -> Rows] /\ SentForATask
      /\ outcomes \in [Tasks -> SUBSET ValidOutcomes]
      /\ cp \in [Tasks -> Positions \cup {"none"}]
  BY DEF TypeInv, TypeOK
<1>d. ASSUME NEW s \in RequestStates, Goes(r, s)
      PROVE  req' \in [Requests -> Reqs] /\ SentForATask'
  BY <1>a, <1>c, <1>d, GoesIsTyped
<1>e. ASSUME NEW s \in RequestStates, NEW b \in BOOLEAN, Leaves(r, s, b)
      PROVE  req' \in [Requests -> Reqs] /\ SentForATask'
  BY <1>a, <1>c, <1>e, LeavesIsTyped
<1> HIDE DEF t
<1>1. CASE Breaks(r)
  BY <1>0, <1>1, <1>d DEF Breaks, TypeInv, TypeOK, memory, github
<1>2. CASE ApproveDecides(r)
  <2>1. [row[t] EXCEPT !.decision = "approve"] \in Rows
    BY <1>b, <1>c DEF Rows
  <2>2. row' \in [Tasks -> Rows]
    BY <1>2, <1>c, <2>1 DEF ApproveDecides, t
  <2> QED
    BY <1>0, <1>2, <1>b, <1>d, <2>2
       DEF ApproveDecides, TypeInv, TypeOK, memory, github, t
<1>3. CASE ApproveMarks(r)
  <2>1. row' \in [Tasks -> Rows]
    BY <1>3, <1>b, <1>c, StatusKeepsRows DEF ApproveMarks, t
  <2> QED
    BY <1>0, <1>3, <1>d, <2>1 DEF ApproveMarks, TypeInv, TypeOK, memory, github
<1>4. CASE Resume(r)
  <2>1. cp[t] \in Positions \cup {"none"}
    BY <1>b, <1>c
  <2>2. /\ req' \in [Requests -> Reqs] /\ SentForATask'
        /\ cp' \in [Tasks -> Positions \cup {"none"}]
    BY <1>0, <1>4, <1>a, <1>c, <1>e, <2>1, AdvanceIsTyped DEF Resume, Unresumed, t
  <2> QED BY <1>4, <2>2 DEF Resume, TypeInv, TypeOK, github
<1>5. CASE NodeRaises(r)
  BY <1>0, <1>5, <1>e DEF NodeRaises, Unresumed, TypeInv, TypeOK, memory, github
<1>6. CASE Reenters(r)
  <2>1. row' \in [Tasks -> Rows]
    BY <1>6, <1>b, <1>c, StatusKeepsRows DEF Reenters, t
  <2> QED BY <1>0, <1>6, <1>d, <2>1 DEF Reenters, TypeInv, TypeOK, memory, github
<1>p. \A p : After(p) \in Positions
  BY DEF After, Positions, ResumeOutcomes
<1>7. CASE Passes(r)
  <2>1. \A d \in {"none", "approve", "reject"} :
            [row[t] EXCEPT !.status = "running", !.decision = d] \in Rows
    BY <1>b, <1>c DEF Rows
  <2>2. row[t].decision \in {"none", "approve", "reject"}
    BY <1>b, <1>c DEF Rows
  <2>3. PICK d \in {"none", "approve", "reject"} :
            row' = [row EXCEPT ![t] = [row[t] EXCEPT !.status = "running",
                                                     !.decision = d]]
    BY <1>7, <2>2 DEF Passes, t
  <2>4. row' \in [Tasks -> Rows]
    BY <1>c, <2>1, <2>3
  <2>5. /\ req' \in [Requests -> Reqs] /\ SentForATask'
        /\ cp' \in [Tasks -> Positions \cup {"none"}]
    BY <1>7, <1>a, <1>p, AdvanceIsTyped DEF Passes
  <2> QED BY <1>7, <2>4, <2>5 DEF Passes, TypeInv, TypeOK, github
<1>8. CASE PassesUnregistered(r)
  <2>1. /\ req' \in [Requests -> Reqs] /\ SentForATask'
        /\ cp' \in [Tasks -> Positions \cup {"none"}]
    BY <1>8, <1>a, <1>p, AdvanceIsTyped DEF PassesUnregistered
  <2> QED BY <1>8, <2>1 DEF PassesUnregistered, TypeInv, TypeOK, github
<1>9. CASE AsksAgain(r)
  <2>1. row' \in [Tasks -> Rows]
    BY <1>9, <1>b, <1>c, StatusKeepsRows DEF AsksAgain, t
  <2>2. req' \in [Requests -> Reqs] /\ SentForATask'
    BY <1>0, <1>9, <1>e DEF AsksAgain
  <2> QED BY <1>9, <2>1, <2>2 DEF AsksAgain, TypeInv, TypeOK, memory, github
<1>q. {"propose", "github_delivery_failed", "pr_opened"} \subseteq Positions
  BY DEF Positions, ResumeOutcomes
<1>10. CASE Pushes(r)
  <2>1. /\ req' \in [Requests -> Reqs] /\ SentForATask'
        /\ cp' \in [Tasks -> Positions \cup {"none"}]
    BY <1>10, <1>a, <1>q, AdvanceIsTyped DEF Pushes
  <2> QED BY <1>10, <1>b, <2>1 DEF Pushes, TypeInv, TypeOK, t
<1>11. CASE Proposes(r)
  <2>1. /\ req' \in [Requests -> Reqs] /\ SentForATask'
        /\ cp' \in [Tasks -> Positions \cup {"none"}]
    BY <1>11, <1>a, <1>q, AdvanceIsTyped DEF Proposes
  <2> QED BY <1>11, <1>b, <2>1 DEF Proposes, TypeInv, TypeOK, t
<1>12. CASE Records(r)
  <2>1. outcomes' \in [Tasks -> SUBSET ValidOutcomes]
    BY <1>12, <1>b, <1>c, OutcomeKeepsType DEF Records, t
  <2>2. req' \in [Requests -> Reqs] /\ SentForATask'
    BY <1>0, <1>12, <1>d DEF Records
  <2> QED BY <1>12, <2>1, <2>2 DEF Records, TypeInv, TypeOK, memory, github
<1>13. CASE Finishes(r)
  <2>1. row' \in [Tasks -> Rows]
    BY <1>13, <1>b, <1>c, FinishKeepsRows DEF Finishes, StatusOf, t
  <2> QED BY <1>0, <1>13, <1>d, <2>1 DEF Finishes, TypeInv, TypeOK, memory, github
<1>14. CASE Rejects(r)
  <2>1. row' \in [Tasks -> Rows]
    BY <1>14, <1>b, <1>c, FinishKeepsRows DEF Rejects, t
  <2> QED BY <1>0, <1>14, <1>d, <2>1 DEF Rejects, TypeInv, TypeOK, memory, github
<1>15. CASE Notes(r)
  <2>1. outcomes' \in [Tasks -> SUBSET ValidOutcomes]
    BY <1>15, <1>b, <1>c, OutcomeKeepsType DEF Notes, ValidOutcomes, t
  <2> QED BY <1>0, <1>15, <1>d, <2>1 DEF Notes, TypeInv, TypeOK, memory, github
<1>16. CASE Unregisters(r)
  <2>1. req' \in [Requests -> Reqs] /\ SentForATask'
    BY <1>0, <1>16, <1>e DEF Unregisters
  <2> QED BY <1>16, <2>1 DEF Unregisters, TypeInv, TypeOK, github
<1>17. CASE Closes(r)
  BY <1>0, <1>17, <1>d DEF Closes, TypeInv, TypeOK, github
<1>18. CASE Answers(r)
  BY <1>0, <1>18, <1>d DEF Answers, TypeInv, TypeOK, memory, github
<1>19. CASE Restores(r)
  <2>1. row' \in [Tasks -> Rows]
    BY <1>19, <1>b, <1>c, StatusKeepsRows DEF Restores, t
  <2> QED BY <1>0, <1>19, <1>d, <2>1 DEF Restores, TypeInv, TypeOK, memory, github
<1> QED
  BY <1>1, <1>2, <1>3, <1>4, <1>5, <1>6, <1>7, <1>8, <1>9, <1>10, <1>11, <1>12,
     <1>13, <1>14, <1>15, <1>16, <1>17, <1>18, <1>19 DEF RequestStep

LEMMA RestartIsTyped ==
    ASSUME TypeInv, Restart
    PROVE  TypeInv'
<1> USE DEF TypeInv, TypeOK
<1>1. \A t \in Tasks : [run[t] EXCEPT !.pc = "dead"] \in Runs
  BY DEF Runs, RunStates
<1>2. run' \in [Tasks -> Runs]
  BY <1>1 DEF Restart
<1>3. \A r \in Requests : [req[r] EXCEPT !.pc = "error"] \in Reqs
  BY DEF Reqs, RequestStates
<1>4. req' \in [Requests -> Reqs]
  BY <1>3 DEF Restart
<1>5. \A r \in Requests : req'[r].task = req[r].task
                          /\ (At(r, "unsent") => req'[r] = req[r])
  BY DEF Restart, Reqs, At
<1>6. SentForATask'
  BY <1>5 DEF SentForATask, At
<1> QED
  BY <1>2, <1>4, <1>6 DEF Restart, github

LEMMA Typed == Spec => []TypeInv
<1>1. ASSUME Init PROVE TypeInv
  <2>1. row \in [Tasks -> Rows]
    BY <1>1 DEF Init, Rows
  <2>2. run \in [Tasks -> Runs]
    BY <1>1 DEF Init, Runs, RunStates
  <2>3. [pc |-> "unsent", kind |-> "none", task |-> "none", store |-> 0,
         at |-> "none", resumed |-> FALSE] \in Reqs
    BY DEF Reqs, RequestStates
  <2>4. req \in [Requests -> Reqs] /\ SentForATask
    BY <1>1, <2>3 DEF Init, SentForATask, At
  <2> QED BY <1>1, <2>1, <2>2, <2>4 DEF Init, TypeInv, TypeOK
<1>2. TypeInv /\ [Next]_vars => TypeInv'
  <2> SUFFICES ASSUME TypeInv, [Next]_vars
               PROVE  TypeInv'
    OBVIOUS
  <2>1. CASE UNCHANGED vars
    BY <2>1 DEF TypeInv, TypeOK, SentForATask, At, vars, memory, github
  <2>2. CASE Next
    BY <2>2, CreateIsTyped, RunStepIsTyped, RequestStepIsTyped, AskIsTyped,
       RestartIsTyped DEF Next
  <2> QED BY <2>1, <2>2
<1> QED
  BY <1>1, <1>2, PTL DEF Spec

\* Every reachable state of the task lifecycle is well typed, with any number of
\* tasks, requests and restarts.
THEOREM TypeCorrect == Spec => []TypeOK
<1>1. TypeInv => TypeOK
  BY DEF TypeInv
<1> QED
  BY <1>1, Typed, PTL

-----------------------------------------------------------------------------
(* What a step of a request leaves alone, and where it stands afterwards. *)

LEMMA GoesFields ==
    ASSUME TypeInv, NEW r \in Requests, NEW s, Goes(r, s)
    PROVE  /\ \A q \in Requests : q # r => req'[q] = req[q]
           /\ req'[r].pc = s
           /\ req'[r].task = req[r].task
           /\ req'[r].kind = req[r].kind
           /\ req'[r].at = req[r].at
<1>1. req[r] \in Reqs /\ req'[r] = [req[r] EXCEPT !.pc = s]
  BY DEF TypeInv, TypeOK, Goes
<1> QED
  BY <1>1 DEF Reqs, Goes, TypeInv, TypeOK

LEMMA AdvanceFields ==
    ASSUME TypeInv, NEW r \in Requests, NEW p, Advance(r, p)
    PROVE  /\ \A q \in Requests : q # r => req'[q] = req[q]
           /\ req'[r].pc = IF p \in ResumeOutcomes THEN "recording" ELSE "running"
           /\ req'[r].task = req[r].task
           /\ req'[r].kind = req[r].kind
           /\ req'[r].at = p
           /\ \A u \in Tasks : u # req[r].task => cp'[u] = cp[u]
           /\ req[r].task \in Tasks =>
                 cp'[req[r].task] = IF p = "ask_pr" THEN "pre_pr" ELSE p
<1> DEFINE s == IF p \in ResumeOutcomes THEN "recording" ELSE "running"
<1>1. req[r] \in Reqs /\ req'[r] = [req[r] EXCEPT !.at = p, !.pc = s]
  BY DEF TypeInv, TypeOK, Advance
<1>2. \A q \in Requests : q # r => req'[q] = req[q]
  BY DEF TypeInv, TypeOK, Advance
<1>3. req'[r].pc = s /\ req'[r].task = req[r].task
      /\ req'[r].kind = req[r].kind /\ req'[r].at = p
  BY <1>1 DEF Reqs
<1> QED
  BY <1>2, <1>3 DEF Advance, TypeInv, TypeOK

LEMMA LeavesFields ==
    ASSUME TypeInv, NEW r \in Requests, NEW s, NEW b, Leaves(r, s, b)
    PROVE  /\ \A q \in Requests : q # r => req'[q] = req[q]
           /\ req'[r].pc = s
           /\ req'[r].task = req[r].task
           /\ req'[r].kind = req[r].kind
           /\ req'[r].at = req[r].at
<1>1. req[r] \in Reqs /\ req'[r] = [req[r] EXCEPT !.pc = s, !.resumed = b]
  BY DEF TypeInv, TypeOK, Leaves
<1>2. \A q \in Requests : q # r => req'[q] = req[q]
  BY DEF TypeInv, TypeOK, Leaves
<1> QED
  BY <1>1, <1>2 DEF Reqs

LEMMA AskFields ==
    ASSUME TypeInv, NEW r \in Requests, NEW t \in Tasks,
           NEW kind \in {"approve", "reject"}, Ask(r, t, kind)
    PROVE  /\ \A q \in Requests : q # r => req'[q] = req[q]
           /\ req'[r].pc = IF kind = "approve" THEN "approving" ELSE "rejecting"
           /\ req'[r].task = t
           /\ req'[r].kind = kind
           /\ req'[r].at = "none"
BY DEF Ask, TypeInv, TypeOK

LEMMA RestartFields ==
    ASSUME TypeInv, Restart
    PROVE  \A q \in Requests :
              /\ req'[q].task = req[q].task
              /\ req'[q].kind = req[q].kind
              /\ req'[q].at = req[q].at
              /\ req'[q].pc \in {req[q].pc, "error"}
              /\ req'[q].pc \in {"unsent", "ok", "error"}
<1> SUFFICES ASSUME NEW q \in Requests
             PROVE  /\ req'[q].task = req[q].task
                    /\ req'[q].kind = req[q].kind
                    /\ req'[q].at = req[q].at
                    /\ req'[q].pc \in {req[q].pc, "error"}
                    /\ req'[q].pc \in {"unsent", "ok", "error"}
  OBVIOUS
<1>1. req[q] \in Reqs
  BY DEF TypeInv, TypeOK
<1>2. \/ req[q].pc \in {"unsent", "ok"} /\ req'[q] = req[q]
      \/ req'[q] = [req[q] EXCEPT !.pc = "error"]
  BY DEF Restart
<1> QED
  BY <1>1, <1>2 DEF Reqs

LEMMA SentRequest ==
    ASSUME TypeInv, NEW r \in Requests, RequestStep(r)
    PROVE  ~ At(r, "unsent") /\ req[r].task \in Tasks
<1>1. ~ At(r, "unsent")
  BY DEF RequestStep, At, RunsAt, Breaks, ApproveDecides, ApproveMarks, Resume,
         NodeRaises, Reenters, Passes, PassesUnregistered, AsksAgain, Pushes,
         Proposes, Records, Finishes, Rejects, Notes, Unregisters, Closes, Answers,
         Restores
<1> QED
  BY <1>1 DEF TypeInv, SentForATask

-----------------------------------------------------------------------------
(* Nothing is written that was not approved. *)

LEMMA RequestKeepsWriteInv ==
    ASSUME TypeInv, WriteInv, NEW r \in Requests, RequestStep(r)
    PROVE  WriteInv'
<1> DEFINE Told == {"marking", "resuming", "running", "passing"}
<1>0. req[r].task \in Tasks
  BY SentRequest
<1>a. ASSUME \A q \in Requests : q # r => req'[q] = req[q],
             req'[r].task = req[r].task,
             req'[r].pc \in Told => req[r].task \in approved',
             approved \subseteq approved',
             (pushed \cup prs)' \subseteq approved'
      PROVE  WriteInv'
  BY <1>a DEF WriteInv, NothingWrittenUnapproved
<1>b. req[r].pc \in Told => req[r].task \in approved
  BY DEF WriteInv
<1>c. pushed \cup prs \subseteq approved
  BY DEF WriteInv, NothingWrittenUnapproved
<1>1. CASE Breaks(r)
  BY <1>1, <1>a, <1>c, GoesFields DEF Breaks, github
<1>2. CASE ApproveDecides(r)
  BY <1>2, <1>a, <1>c, GoesFields DEF ApproveDecides, github
<1>3. CASE ApproveMarks(r)
  BY <1>3, <1>a, <1>b, <1>c, GoesFields DEF ApproveMarks, github, At
<1>4. CASE Resume(r)
  BY <1>4, <1>a, <1>b, <1>c, AdvanceFields, LeavesFields
     DEF Resume, Unresumed, github, At
<1>5. CASE NodeRaises(r)
  <2>1. Leaves(r, "answering", FALSE) /\ UNCHANGED <<pushed, prs, approved>>
    BY <1>5 DEF NodeRaises, Unresumed, github
  <2>2. /\ \A q \in Requests : q # r => req'[q] = req[q]
        /\ req'[r].pc = "answering" /\ req'[r].task = req[r].task
    BY <2>1, LeavesFields
  <2> QED BY <1>a, <1>c, <2>1, <2>2
<1>6. CASE Reenters(r)
  BY <1>6, <1>a, <1>b, <1>c, GoesFields DEF Reenters, github, At
<1>7. CASE Passes(r)
  BY <1>7, <1>a, <1>b, <1>c, AdvanceFields DEF Passes, github, At
<1>8. CASE PassesUnregistered(r)
  BY <1>8, <1>a, <1>b, <1>c, AdvanceFields DEF PassesUnregistered, github, At
<1>9. CASE AsksAgain(r)
  <2>1. Leaves(r, "answering", TRUE) /\ UNCHANGED <<pushed, prs, approved>>
    BY <1>9 DEF AsksAgain, github
  <2>2. /\ \A q \in Requests : q # r => req'[q] = req[q]
        /\ req'[r].pc = "answering" /\ req'[r].task = req[r].task
    BY <2>1, LeavesFields
  <2> QED BY <1>a, <1>c, <2>1, <2>2
<1>10. CASE Pushes(r)
  BY <1>10, <1>a, <1>b, <1>c, AdvanceFields DEF Pushes, RunsAt, At
<1>11. CASE Proposes(r)
  BY <1>11, <1>a, <1>b, <1>c, AdvanceFields DEF Proposes, RunsAt, At
<1>12. CASE Records(r)
  <2>1. PICK s \in {"finishing", "cleaning"} : Goes(r, s)
    BY <1>12 DEF Records
  <2>2. UNCHANGED <<pushed, prs, approved>>
    BY <1>12 DEF Records, github
  <2> QED BY <1>a, <1>c, <2>1, <2>2, GoesFields
<1>13. CASE Finishes(r)
  BY <1>13, <1>a, <1>c, GoesFields DEF Finishes, github
<1>14. CASE Rejects(r)
  BY <1>14, <1>a, <1>c, GoesFields DEF Rejects, github
<1>15. CASE Notes(r)
  BY <1>15, <1>a, <1>c, GoesFields DEF Notes, github
<1>16. CASE Unregisters(r)
  BY <1>16, <1>a, <1>c, LeavesFields DEF Unregisters, github
<1>17. CASE Closes(r)
  BY <1>17, <1>a, <1>c, GoesFields DEF Closes, github
<1>18. CASE Answers(r)
  BY <1>18, <1>a, <1>c, GoesFields DEF Answers, github
<1>19. CASE Restores(r)
  BY <1>19, <1>a, <1>c, GoesFields DEF Restores, github
<1> QED
  BY <1>1, <1>2, <1>3, <1>4, <1>5, <1>6, <1>7, <1>8, <1>9, <1>10, <1>11, <1>12,
     <1>13, <1>14, <1>15, <1>16, <1>17, <1>18, <1>19 DEF RequestStep

LEMMA RunFrame ==
    ASSUME NEW t \in Tasks, RunStep(t)
    PROVE  UNCHANGED <<api, open, req, restarts, pushed, prs, approved>>
BY DEF RunStep, RunStarts, Provision, RunPauses, RunEnds, RunRaises, RunRecords,
       RunFinishes, RunFails, RunNotes, memory, github

\* Nothing reaches GitHub for a task that no person approved, with any number of
\* tasks, overlapping decisions, failures and restarts.
THEOREM WritesAreApproved == Spec => []NothingWrittenUnapproved
<1>1. ASSUME Init PROVE WriteInv
  <2>1. \A r \in Requests : req[r].pc = "unsent"
    BY <1>1 DEF Init
  <2> QED BY <1>1, <2>1 DEF Init, WriteInv, NothingWrittenUnapproved
<1>2. TypeInv /\ WriteInv /\ [Next]_vars => WriteInv'
  <2> SUFFICES ASSUME TypeInv, WriteInv, [Next]_vars
               PROVE  WriteInv'
    OBVIOUS
  <2>1. CASE UNCHANGED vars
    BY <2>1 DEF WriteInv, NothingWrittenUnapproved, vars, github
  <2>2. ASSUME NEW t \in Tasks, Create(t) \/ RunStep(t)
        PROVE  WriteInv'
    <3>1. UNCHANGED <<req, pushed, prs, approved>>
      BY <2>2, RunFrame DEF Create, github
    <3> QED BY <3>1 DEF WriteInv, NothingWrittenUnapproved
  <2>3. ASSUME NEW r \in Requests, RequestStep(r)
        PROVE  WriteInv'
    BY <2>3, RequestKeepsWriteInv
  <2>4. ASSUME NEW r \in Requests, NEW t \in Tasks,
               NEW kind \in {"approve", "reject"}, Ask(r, t, kind)
        PROVE  WriteInv'
    <3>1. UNCHANGED <<pushed, prs, approved>>
      BY <2>4 DEF Ask, github
    <3> QED BY <2>4, <3>1, AskFields DEF WriteInv, NothingWrittenUnapproved
  <2>5. CASE Restart
    <3>1. UNCHANGED <<pushed, prs, approved>>
      BY <2>5 DEF Restart, github
    <3> QED BY <2>5, <3>1, RestartFields DEF WriteInv, NothingWrittenUnapproved
  <2> QED BY <2>1, <2>2, <2>3, <2>4, <2>5 DEF Next
<1>3. WriteInv => NothingWrittenUnapproved
  BY DEF WriteInv
<1> QED
  BY <1>1, <1>2, <1>3, Typed, PTL DEF Spec

-----------------------------------------------------------------------------
(* A completed row has its pull request and its outcome. *)

LEMMA StatusRow ==
    ASSUME TypeInv, NEW t \in Tasks, NEW s, SetStatus(t, s)
    PROVE  /\ row'[t].status = s
           /\ row'[t].decision = row[t].decision
           /\ \A u \in Tasks : u # t => row'[u] = row[u]
<1>1. row[t] \in Rows /\ row'[t] = [row[t] EXCEPT !.status = s]
  BY DEF TypeInv, TypeOK, SetStatus
<1>2. \A u \in Tasks : u # t => row'[u] = row[u]
  BY DEF TypeInv, TypeOK, SetStatus
<1> QED BY <1>1, <1>2 DEF Rows

LEMMA FinishRow ==
    ASSUME TypeInv, NEW t \in Tasks, NEW s, NEW d, FinishTask(t, s, d)
    PROVE  /\ row'[t].status = s
           /\ row'[t].decision = d
           /\ \A u \in Tasks : u # t => row'[u] = row[u]
BY DEF TypeInv, TypeOK, FinishTask

LEMMA OutcomesGrow ==
    ASSUME TypeInv, NEW t \in Tasks, NEW o, CreateOutcome(t, o)
    PROVE  /\ o \in outcomes'[t]
           /\ \A u \in Tasks : outcomes[u] \subseteq outcomes'[u]
BY DEF TypeInv, TypeOK, CreateOutcome

LEMMA RequestKeepsRecordInv ==
    ASSUME TypeInv, RecordInv, NEW r \in Requests, RequestStep(r)
    PROVE  RecordInv'
<1> DEFINE t == req[r].task
           Opened == "pr_opened"
<1>0. t \in Tasks /\ (req[r].at = Opened => t \in prs)
  BY SentRequest DEF RecordInv
\* What a step may do to the row, the outcomes, GitHub and the checkpoint ...
<1>w. ASSUME \A u \in Tasks : row'[u].status = "completed" =>
                 row[u].status = "completed" \/ (u \in prs /\ Opened \in outcomes[u]),
             prs \subseteq prs',
             \A u \in Tasks : outcomes[u] \subseteq outcomes'[u],
             \A u \in Tasks : cp'[u] = Opened => cp[u] = Opened \/ u \in prs',
             \A q \in Requests : q # r => req'[q] = req[q],
             req'[r].task = t,
             req'[r].at = Opened => t \in prs',
             req'[r].pc = "finishing" /\ req'[r].at = Opened => Opened \in outcomes'[t]
      PROVE  RecordInv'
  <2>1. CompletedHasPr'
    BY <1>w DEF RecordInv, CompletedHasPr
  <2>2. \A u \in Tasks : cp'[u] = Opened => u \in prs'
    BY <1>w DEF RecordInv
  <2>3. ASSUME NEW q \in Requests
        PROVE  /\ req'[q].at = Opened => req'[q].task \in prs'
               /\ req'[q].pc = "finishing" /\ req'[q].at = Opened =>
                      Opened \in outcomes'[req'[q].task]
    <3>1. CASE q = r
      BY <1>w, <3>1
    <3>2. CASE q # r
      <4>1. req'[q] = req[q]
        BY <1>w, <3>2
      <4>2. req[q].pc = "finishing" => req[q].task \in Tasks
        BY DEF TypeInv, SentForATask, At
      <4> QED BY <1>w, <4>1, <4>2 DEF RecordInv, At
    <3> QED BY <3>1, <3>2
  <2> QED BY <2>1, <2>2, <2>3 DEF RecordInv, At
\* ... and what it may do when it only moves on.
<1>m. ASSUME UNCHANGED <<outcomes, prs, cp>>,
             \A u \in Tasks : row'[u].status = "completed" => row[u].status = "completed",
             NEW s, s # "finishing", NEW b, Goes(r, s) \/ Leaves(r, s, b)
      PROVE  RecordInv'
  <2>1. /\ \A q \in Requests : q # r => req'[q] = req[q]
        /\ req'[r].pc = s /\ req'[r].task = t /\ req'[r].at = req[r].at
    BY <1>m, GoesFields, LeavesFields
  <2> QED BY <1>0, <1>m, <1>w, <2>1
\* A step along the graph.
<1>v. ASSUME NEW p, Advance(r, p), UNCHANGED outcomes, prs \subseteq prs',
             p = Opened => t \in prs',
             \A u \in Tasks : row'[u].status = "completed" => row[u].status = "completed"
      PROVE  RecordInv'
  <2>1. /\ \A q \in Requests : q # r => req'[q] = req[q]
        /\ req'[r].pc \in {"recording", "running"} /\ req'[r].task = t
        /\ req'[r].at = p
        /\ \A u \in Tasks : u # t => cp'[u] = cp[u]
        /\ cp'[t] = IF p = "ask_pr" THEN "pre_pr" ELSE p
    BY <1>0, <1>v, AdvanceFields
  <2>2. \A u \in Tasks : cp'[u] = Opened => cp[u] = Opened \/ u \in prs'
    BY <1>v, <2>1
  <2> QED BY <1>v, <1>w, <2>1, <2>2
<1>s. ASSUME NEW s \in {"running", "approved", "awaiting_hitl"}, SetStatus(t, s)
      PROVE  \A u \in Tasks : row'[u].status = "completed" => row[u].status = "completed"
  BY <1>0, <1>s, StatusRow
<1> HIDE DEF t
<1>1. CASE Breaks(r)
  BY <1>1, <1>m DEF Breaks, memory, github
<1>2. CASE ApproveDecides(r)
  <2>1. row' = [row EXCEPT ![t].decision = "approve"]
    BY <1>2 DEF ApproveDecides, t
  <2>2. row[t] \in Rows /\ row'[t] = [row[t] EXCEPT !.decision = "approve"]
        /\ \A u \in Tasks : u # t => row'[u] = row[u]
    BY <1>0, <2>1 DEF TypeInv, TypeOK
  <2>3. \A u \in Tasks : row'[u].status = row[u].status
    BY <2>2 DEF Rows
  <2> QED BY <1>2, <1>m, <2>3 DEF ApproveDecides, memory, github
<1>3. CASE ApproveMarks(r)
  BY <1>3, <1>m, <1>s DEF ApproveMarks, memory, github, t
<1>4. CASE Resume(r)
  <2>1. cp[t] = Opened => t \in prs
    BY <1>0 DEF RecordInv
  <2>2. CASE Advance(r, cp[t])
    BY <1>4, <1>v, <2>1, <2>2 DEF Resume, github
  <2>3. CASE Leaves(r, "answering", FALSE) /\ UNCHANGED cp
    BY <1>4, <1>m, <2>3 DEF Resume, github
  <2> QED BY <1>4, <2>2, <2>3 DEF Resume, Unresumed, t
<1>5. CASE NodeRaises(r)
  BY <1>5, <1>m DEF NodeRaises, Unresumed, memory, github
<1>6. CASE Reenters(r)
  BY <1>6, <1>m, <1>s DEF Reenters, memory, github, t
<1>p. \A x : After(x) # Opened
  BY DEF After
<1>7. CASE Passes(r)
  <2>1. PICK d : row' = [row EXCEPT ![t] = [row[t] EXCEPT !.status = "running",
                                                          !.decision = d]]
    BY <1>7 DEF Passes, t
  <2>2. row[t] \in Rows
        /\ row'[t] = [row[t] EXCEPT !.status = "running", !.decision = d]
        /\ \A u \in Tasks : u # t => row'[u] = row[u]
    BY <1>0, <2>1 DEF TypeInv, TypeOK
  <2>3. row'[t].status = "running"
    BY <2>2 DEF Rows
  <2> QED BY <1>7, <1>p, <1>v, <2>2, <2>3 DEF Passes, github
<1>8. CASE PassesUnregistered(r)
  BY <1>8, <1>p, <1>v DEF PassesUnregistered, github
<1>9. CASE AsksAgain(r)
  BY <1>9, <1>m, <1>s DEF AsksAgain, memory, github, t
<1>10. CASE Pushes(r)
  <2>1. PICK p \in {"propose", "github_delivery_failed"} : Advance(r, p)
    BY <1>10 DEF Pushes
  <2> QED BY <1>10, <1>v, <2>1 DEF Pushes
<1>11. CASE Proposes(r)
  <2>1. PICK p : Advance(r, p) /\ (p = Opened => t \in prs') /\ prs \subseteq prs'
    BY <1>11 DEF Proposes, t
  <2> QED BY <1>11, <1>v, <2>1 DEF Proposes
<1>12. CASE Records(r)
  <2>1. PICK s \in {"finishing", "cleaning"} : Goes(r, s)
    BY <1>12 DEF Records
  <2>2. \A u \in Tasks : outcomes[u] \subseteq outcomes'[u]
    BY <1>0, <1>12, OutcomesGrow DEF Records, t
  <2>3. req[r].at = Opened => Opened \in outcomes'[t]
    BY <1>0, <1>12, OutcomesGrow DEF Records, ValidOutcomes, t
  <2>4. /\ \A q \in Requests : q # r => req'[q] = req[q]
        /\ req'[r].task = t /\ req'[r].at = req[r].at
    BY <2>1, GoesFields DEF t
  <2>5. UNCHANGED <<row, prs, cp>>
    BY <1>12 DEF Records, memory, github
  <2> QED BY <1>0, <1>w, <2>2, <2>3, <2>4, <2>5
<1>13. CASE Finishes(r)
  <2>1. FinishTask(t, StatusOf(req[r].at), "none") /\ Goes(r, "cleaning")
        /\ UNCHANGED <<outcomes, prs, cp>> /\ req[r].pc = "finishing"
    BY <1>13 DEF Finishes, memory, github, At, t
  <2>2. row'[t].status = StatusOf(req[r].at)
        /\ \A u \in Tasks : u # t => row'[u] = row[u]
    BY <1>0, <2>1, FinishRow
  <2>3. row'[t].status = "completed" => t \in prs /\ Opened \in outcomes[t]
    BY <1>0, <2>1, <2>2 DEF StatusOf, RecordInv, At, t
  <2>4. /\ \A q \in Requests : q # r => req'[q] = req[q]
        /\ req'[r].task = t /\ req'[r].at = req[r].at /\ req'[r].pc = "cleaning"
    BY <2>1, GoesFields DEF t
  <2>5. \A u \in Tasks : row'[u].status = "completed" =>
            row[u].status = "completed" \/ (u \in prs /\ Opened \in outcomes[u])
    BY <2>2, <2>3
  <2> QED BY <1>0, <1>w, <2>1, <2>4, <2>5
<1>14. CASE Rejects(r)
  <2>1. row'[t].status = "rejected" /\ \A u \in Tasks : u # t => row'[u] = row[u]
    BY <1>0, <1>14, FinishRow DEF Rejects, t
  <2> QED BY <1>14, <1>m, <2>1 DEF Rejects, memory, github
<1>15. CASE Notes(r)
  <2>1. /\ CreateOutcome(t, "hitl_rejected") /\ Goes(r, "cleaning")
        /\ UNCHANGED <<row, prs, cp>>
    BY <1>15 DEF Notes, memory, github, t
  <2>2. \A u \in Tasks : outcomes[u] \subseteq outcomes'[u]
    BY <1>0, <2>1, OutcomesGrow
  <2>3. /\ \A q \in Requests : q # r => req'[q] = req[q]
        /\ req'[r].task = t /\ req'[r].at = req[r].at /\ req'[r].pc = "cleaning"
    BY <2>1, GoesFields DEF t
  <2> QED BY <1>0, <1>w, <2>1, <2>2, <2>3
<1>16. CASE Unregisters(r)
  <2>1. \E s \in {"closing", "answering"}, b \in BOOLEAN : Leaves(r, s, b)
    BY <1>16 DEF Unregisters
  <2> QED BY <1>16, <1>m, <2>1 DEF Unregisters, github
<1>17. CASE Closes(r)
  BY <1>17, <1>m DEF Closes, github
<1>18. CASE Answers(r)
  BY <1>18, <1>m DEF Answers, memory, github
<1>19. CASE Restores(r)
  BY <1>19, <1>m, <1>s DEF Restores, memory, github, t
<1> QED
  BY <1>1, <1>2, <1>3, <1>4, <1>5, <1>6, <1>7, <1>8, <1>9, <1>10, <1>11, <1>12,
     <1>13, <1>14, <1>15, <1>16, <1>17, <1>18, <1>19 DEF RequestStep

LEMMA RunKeepsRecordInv ==
    ASSUME TypeInv, RecordInv, NEW t \in Tasks, RunStep(t)
    PROVE  RecordInv'
<1>a. UNCHANGED <<req, prs>>
  BY RunFrame
<1>w. ASSUME \A u \in Tasks : row'[u].status = "completed" => row[u].status = "completed",
             \A u \in Tasks : outcomes[u] \subseteq outcomes'[u],
             \A u \in Tasks : cp'[u] = "pr_opened" => cp[u] = "pr_opened"
      PROVE  RecordInv'
  <2>1. \A r \in Requests : req[r].pc = "finishing" => req[r].task \in Tasks
    BY DEF TypeInv, SentForATask, At
  <2> QED BY <1>a, <1>w, <2>1 DEF RecordInv, CompletedHasPr, At
<1>1. CASE RunStarts(t) \/ Provision(t) \/ RunEnds(t) \/ RunRaises(t)
  <2>1. UNCHANGED <<row, outcomes, cp>>
    BY <1>1 DEF RunStarts, Provision, RunEnds, RunRaises, memory
  <2> QED BY <1>w, <2>1
<1>2. CASE RunPauses(t)
  <2>1. PICK p \in {FirstCheckpoint, "escalation"} : cp' = [cp EXCEPT ![t] = p]
    BY <1>2 DEF RunPauses
  <2>2. \A u \in Tasks : cp'[u] = "pr_opened" => cp[u] = "pr_opened"
    BY <2>1 DEF FirstCheckpoint, TypeInv, TypeOK
  <2>3. \A u \in Tasks : row'[u].status = "completed" => row[u].status = "completed"
    BY <1>2, StatusRow DEF RunPauses
  <2>4. UNCHANGED outcomes
    BY <1>2 DEF RunPauses
  <2> QED BY <1>w, <2>2, <2>3, <2>4
<1>3. CASE RunRecords(t) \/ RunNotes(t)
  <2>1. /\ (\E o : CreateOutcome(t, o)) \/ UNCHANGED outcomes
        /\ UNCHANGED <<row, cp>>
    BY <1>3 DEF RunRecords, RunNotes, memory
  <2>2. \A u \in Tasks : outcomes[u] \subseteq outcomes'[u]
    BY <2>1, OutcomesGrow
  <2> QED BY <1>w, <2>1, <2>2
<1>4. CASE RunFinishes(t) \/ RunFails(t)
  <2>1. run[t].end # "pr_opened"
    BY DEF TypeInv, TypeOK, Runs, RunOutcomes
  <2>2. UNCHANGED <<outcomes, cp>>
        /\ ((\E s \in {"running", "failed"} : FinishTask(t, s, "none")) \/ UNCHANGED row)
    BY <1>4, <2>1 DEF RunFinishes, RunFails, StatusOf, memory
  <2>3. \A u \in Tasks : row'[u].status = "completed" => row[u].status = "completed"
    BY <2>2, FinishRow
  <2> QED BY <1>w, <2>2, <2>3
<1> QED
  BY <1>1, <1>2, <1>3, <1>4 DEF RunStep

\* A row that says completed has a pull request and an outcome "pr_opened", with
\* any number of tasks, decisions, failures and restarts: of the tables and
\* GitHub, written one after another, the row is the last.
THEOREM CompletionsAreBacked == Spec => []CompletedHasPr
<1>1. ASSUME Init PROVE RecordInv
  <2>1. \A t \in Tasks : row[t].status = "absent" /\ cp[t] = "none"
    BY <1>1 DEF Init
  <2>2. \A r \in Requests : req[r].pc = "unsent" /\ req[r].at = "none"
    BY <1>1 DEF Init
  <2> QED BY <2>1, <2>2 DEF RecordInv, CompletedHasPr, At
<1>2. TypeInv /\ RecordInv /\ [Next]_vars => RecordInv'
  <2> SUFFICES ASSUME TypeInv, RecordInv, [Next]_vars
               PROVE  RecordInv'
    OBVIOUS
  <2>1. CASE UNCHANGED vars
    BY <2>1 DEF RecordInv, CompletedHasPr, At, vars, memory, github
  <2>2. ASSUME NEW t \in Tasks, Create(t)
        PROVE  RecordInv'
    <3>1. UNCHANGED <<outcomes, cp, req, prs>>
      BY <2>2 DEF Create, github
    <3>2. \A u \in Tasks : row'[u].status = "completed" => row[u].status = "completed"
      BY <2>2, StatusRow DEF Create
    <3> QED BY <3>1, <3>2 DEF RecordInv, CompletedHasPr, At
  <2>3. ASSUME NEW t \in Tasks, RunStep(t)
        PROVE  RecordInv'
    BY <2>3, RunKeepsRecordInv
  <2>4. ASSUME NEW r \in Requests, RequestStep(r)
        PROVE  RecordInv'
    BY <2>4, RequestKeepsRecordInv
  <2>5. ASSUME NEW r \in Requests, NEW t \in Tasks,
               NEW kind \in {"approve", "reject"}, Ask(r, t, kind)
        PROVE  RecordInv'
    <3>1. UNCHANGED <<row, outcomes, cp, prs>>
      BY <2>5 DEF Ask, github
    <3> QED BY <2>5, <3>1, AskFields DEF RecordInv, CompletedHasPr, At
  <2>6. CASE Restart
    <3>1. UNCHANGED <<row, outcomes, prs>> /\ \A t \in Tasks : cp'[t] = "none"
      BY <2>6 DEF Restart, github
    <3> QED BY <2>6, <3>1, RestartFields DEF RecordInv, CompletedHasPr, At
  <2> QED BY <2>1, <2>2, <2>3, <2>4, <2>5, <2>6 DEF Next
<1>3. RecordInv => CompletedHasPr
  BY DEF RecordInv
<1> QED
  BY <1>1, <1>2, <1>3, Typed, PTL DEF Spec
=============================================================================
