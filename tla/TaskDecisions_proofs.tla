------------------------ MODULE TaskDecisions_proofs ------------------------
(* RejectionIsFinal, where clients are patient: the invariant relates the row of  *)
(* a task, its run_task and the one decision request that is under way.           *)
EXTENDS TaskLifecycle_proofs

LEMMA RunGoesField ==
    ASSUME TypeInv, NEW t \in Tasks, NEW s, RunGoes(t, s)
    PROVE  /\ run'[t].pc = s
           /\ \A u \in Tasks : u # t => run'[u] = run[u]
<1>1. run[t] \in Runs /\ run'[t] = [run[t] EXCEPT !.pc = s]
  BY DEF TypeInv, TypeOK, RunGoes
<1>2. \A u \in Tasks : u # t => run'[u] = run[u]
  BY DEF TypeInv, TypeOK, RunGoes
<1> QED BY <1>1, <1>2 DEF Runs

\* A request that takes a step is under way.
LEMMA StepIsActive ==
    ASSUME TypeInv, NEW r \in Requests, RequestStep(r)
    PROVE  req[r].pc \in Active
<1>1. req[r].pc \in RequestStates
  BY DEF TypeInv, TypeOK, Reqs
<1>2. req[r].pc \notin {"unsent", "ok", "error"}
  BY DEF RequestStep, At, RunsAt, Breaks, ApproveDecides, ApproveMarks, Resume,
         NodeRaises, Reenters, Passes, PassesUnregistered, AsksAgain, Pushes,
         Proposes, Records, Finishes, Rejects, Notes, Unregisters, Closes, Answers,
         Restores
<1> QED BY <1>1, <1>2 DEF Active

\* A request that is not under way says nothing about the row, unless it is an
\* answered rejection.
LEMMA Idle ==
    ASSUME NEW q \in Requests, req'[q].pc \in {"unsent", "error"}
    PROVE  DecisionInv(q)'
BY DEF DecisionInv, Active, Approving, Resuming, Rejected

\* What is left to show for a step of a request: its own task and itself.
LEMMA RequestKeepsInv ==
    ASSUME TypeInv, TypeInv', RejectionInv, NEW r \in Requests, RequestStep(r),
           \A q \in Requests : q # r => req'[q] = req[q],
           req'[r].task = req[r].task,
           \A u \in Tasks : u # req[r].task =>
               row'[u] = row[u] /\ (u \in approved' <=> u \in approved),
           run' = run,
           \/ row' = row /\ approved' = approved
           \/ ~ (req[r].kind = "reject" /\ req[r].pc \in Rejected),
           DecisionInv(r)', TaskInv(req[r].task)'
    PROVE  RejectionInv'
<1> DEFINE t == req[r].task
<1>0. t \in Tasks /\ req[r].pc \in Active
  BY SentRequest, StepIsActive
<1>1. PatienceInv'
  <2> SUFFICES ASSUME NEW a \in Requests, NEW b \in Requests, a # b,
                      req'[a].pc \in Active, req'[b].pc \in Active
               PROVE  req'[a].task # req'[b].task
    BY DEF PatienceInv
  <2>1. req[a].pc \in Active /\ req[b].pc \in Active
    BY <1>0
  <2>2. req'[a].task = req[a].task /\ req'[b].task = req[b].task
    OBVIOUS
  <2> QED BY <2>1, <2>2 DEF RejectionInv, PatienceInv
<1>2. \A u \in Tasks : TaskInv(u)'
  <2> SUFFICES ASSUME NEW u \in Tasks, u # t
               PROVE  TaskInv(u)'
    OBVIOUS
  <2>1. TaskInv(u)
    BY DEF RejectionInv
  <2>2. row'[u] = row[u] /\ run'[u] = run[u] /\ (u \in approved' <=> u \in approved)
    OBVIOUS
  <2> QED BY <2>1, <2>2 DEF TaskInv, RunIs, Quiet, CanDecide
<1>3. ASSUME NEW q \in Requests, q # r
      PROVE  DecisionInv(q)'
  <2>1. DecisionInv(q) /\ req'[q] = req[q]
    BY <1>3 DEF RejectionInv
  <2>2. CASE req[q].pc \in {"unsent", "error"}
    BY <2>1, <2>2, Idle
  <2>3. CASE req[q].pc \notin {"unsent", "error"} /\ req[q].task # t
    <3>1. req[q].task \in Tasks
      BY <2>3 DEF TypeInv, SentForATask, At
    <3>2. /\ row'[req[q].task] = row[req[q].task]
          /\ run'[req[q].task] = run[req[q].task]
          /\ req[q].task \in approved' <=> req[q].task \in approved
      BY <2>3, <3>1
    <3> QED BY <2>1, <3>2 DEF DecisionInv, Quiet, CanDecide
  <2>4. CASE req[q].pc \notin {"unsent", "error"} /\ req[q].task = t
    <3>1. req[q].pc \notin Active
      BY <1>0, <1>3, <2>4 DEF RejectionInv, PatienceInv
    <3>2. req[q].pc \in RequestStates
      BY DEF TypeInv, TypeOK, Reqs
    <3>3. req[q].pc = "ok"
      BY <2>4, <3>1, <3>2 DEF Active
    <3>4. req[q].kind \in {"approve", "reject"} /\ Quiet(t)
      BY <2>1, <2>4, <3>3 DEF DecisionInv
    <3>5. CASE req[q].kind = "approve"
      BY <2>1, <2>4, <3>3, <3>4, <3>5
         DEF DecisionInv, Approving, Resuming, Active, Quiet
    <3>6. CASE req[q].kind = "reject"
      <4>1. row[t].status = "rejected" /\ row[t].decision = "reject" /\ t \notin approved
        BY <2>1, <2>4, <3>3, <3>6 DEF DecisionInv, Rejected
      <4>2. req[r].kind \in {"approve", "reject"} /\ DecisionInv(r)
        BY <1>0 DEF RejectionInv, DecisionInv
      <4>3. req[r].pc \notin {"approving", "rejecting"}
        BY <4>1, <4>2 DEF DecisionInv, CanDecide
      <4>4. req[r].kind = "reject"
        BY <1>0, <4>1, <4>2, <4>3 DEF DecisionInv
      <4>5. req[r].pc \in Rejected
        BY <1>0, <4>2, <4>3, <4>4
           DEF DecisionInv, Approving, Resuming, Rejected, Active, RequestStates
      <4>6. row' = row /\ approved' = approved
        BY <4>4, <4>5
      <4> QED BY <2>1, <2>4, <4>6 DEF DecisionInv, Quiet, CanDecide
    <3> QED BY <3>4, <3>5, <3>6
  <2> QED BY <2>2, <2>3, <2>4
<1> QED
  BY <1>1, <1>2, <1>3 DEF RejectionInv

\* A step of a decision request.
LEMMA RequestStepKeepsInv ==
    ASSUME TypeInv, TypeInv', RejectionInv, NEW r \in Requests, RequestStep(r)
    PROVE  RejectionInv'
<1> DEFINE t == req[r].task
<1>0. t \in Tasks /\ req[r].pc \in Active
  BY SentRequest, StepIsActive
<1>a. DecisionInv(r) /\ TaskInv(t)
  BY <1>0 DEF RejectionInv
<1>q. Quiet(t) /\ req[r].kind \in {"approve", "reject"}
  BY <1>0, <1>a DEF DecisionInv
\* Steps that write neither the row nor the approvals.
<1>b. ASSUME UNCHANGED <<row, approved, run>>,
             \A q \in Requests : q # r => req'[q] = req[q],
             req'[r].task = t, req'[r].kind = req[r].kind, DecisionInv(r)'
      PROVE  RejectionInv'
  <2>1. TaskInv(t)'
    BY <1>a, <1>b DEF TaskInv, RunIs, Quiet, CanDecide
  <2> QED BY <1>b, <2>1, RequestKeepsInv
\* Steps of an approval that write the row.
<1>c. ASSUME req[r].kind = "approve", UNCHANGED run, approved' = approved,
             \A u \in Tasks : u # t => row'[u] = row[u],
             \A q \in Requests : q # r => req'[q] = req[q],
             req'[r].task = t, t \in approved,
             row'[t].status # "absent",
             row'[t].decision = "approve" \/ row'[t].status # "awaiting_hitl",
             DecisionInv(r)'
      PROVE  RejectionInv'
  <2>1. TaskInv(t)'
    BY <1>a, <1>c, <1>q DEF TaskInv, RunIs, Quiet, CanDecide
  <2> QED BY <1>c, <2>1, RequestKeepsInv
<1> HIDE DEF t
<1>1. CASE Breaks(r)
  <2>1. UNCHANGED <<row, approved, run>> /\ Goes(r, "error")
    BY <1>1 DEF Breaks
  <2>2. DecisionInv(r)'
    BY <2>1, GoesFields, Idle
  <2> QED BY <1>b, <2>1, <2>2, GoesFields DEF t
<1>2. CASE ApproveDecides(r)
  <2>1. /\ req[r].pc = "approving" /\ Goes(r, "marking") /\ run' = run
        /\ approved' = approved \cup {t}
        /\ row' = [row EXCEPT ![t].decision = "approve"]
    BY <1>2 DEF ApproveDecides, At, t
  <2>2. row[t] \in Rows /\ row'[t] = [row[t] EXCEPT !.decision = "approve"]
    BY <1>0, <2>1 DEF TypeInv, TypeOK
  <2>3. row'[t].decision = "approve" /\ row'[t].status = row[t].status
    BY <2>2 DEF Rows
  <2>4. \A u \in Tasks : u # t => row'[u] = row[u]
    BY <2>1 DEF TypeInv, TypeOK
  <2>5. /\ \A q \in Requests : q # r => req'[q] = req[q]
        /\ req'[r].pc = "marking" /\ req'[r].task = t /\ req'[r].kind = req[r].kind
    BY <2>1, GoesFields DEF t
  <2>6. CanDecide(t) /\ req[r].kind = "approve"
    BY <1>a, <2>1 DEF DecisionInv, Approving, t
  <2>7. DecisionInv(r)'
    BY <1>q, <2>1, <2>3, <2>5, <2>6 DEF DecisionInv, Quiet
  <2>8. TaskInv(t)'
    <3>1. t' = t
      BY <2>5 DEF t
    <3>2. Quiet(t)' /\ ~ RunIs(t, "none")'
      BY <1>q, <2>1, <3>1 DEF Quiet, RunIs
    <3>3. row'[t].status = "awaiting_hitl" /\ ~ CanDecide(t)'
      BY <2>3, <2>6, <3>1 DEF CanDecide
    <3> QED BY <3>1, <3>2, <3>3 DEF TaskInv
  <2> QED BY <2>1, <2>4, <2>5, <2>6, <2>7, <2>8, RequestKeepsInv DEF t
<1>3. CASE ApproveMarks(r)
  <2>1. /\ req[r].pc = "marking" /\ Goes(r, "resuming") /\ UNCHANGED run
        /\ approved' = approved /\ SetStatus(t, "approved")
    BY <1>3 DEF ApproveMarks, At, t
  <2>2. /\ row'[t].status = "approved" /\ row'[t].decision = row[t].decision
        /\ \A u \in Tasks : u # t => row'[u] = row[u]
    BY <1>0, <2>1, StatusRow
  <2>3. /\ \A q \in Requests : q # r => req'[q] = req[q]
        /\ req'[r].pc = "resuming" /\ req'[r].task = t /\ req'[r].kind = req[r].kind
    BY <2>1, GoesFields DEF t
  <2>4. req[r].kind = "approve" /\ t \in approved /\ row[t].decision = "approve"
    BY <1>0, <1>a, <2>1 DEF DecisionInv, Approving, Resuming, t
  <2>5. DecisionInv(r)'
    BY <1>q, <2>1, <2>2, <2>3, <2>4 DEF DecisionInv, Quiet, Rejected
  <2> QED BY <1>c, <2>1, <2>2, <2>3, <2>4, <2>5
\* The steps of the resumed graph that leave the row alone.
<1>d. ASSUME req[r].pc \in {"resuming", "running", "passing", "recording"},
             UNCHANGED <<row, approved, run>>,
             \A q \in Requests : q # r => req'[q] = req[q],
             req'[r].task = t, req'[r].kind = req[r].kind,
             req'[r].pc \in {"running", "recording", "finishing", "cleaning",
                             "answering"}
      PROVE  RejectionInv'
  <2>1. req[r].kind = "approve" /\ t \in approved /\ row[t].decision = "approve"
    BY <1>0, <1>a, <1>d DEF DecisionInv, Approving, Resuming, t
  <2>2. DecisionInv(r)'
    BY <1>q, <1>d, <2>1 DEF DecisionInv, Quiet, Rejected
  <2> QED BY <1>b, <1>d, <2>2
<1>4. CASE Resume(r)
  <2>1. req[r].pc = "resuming" /\ UNCHANGED <<row, approved, run>>
    BY <1>4 DEF Resume, At
  <2>2. CASE Advance(r, cp[t])
    BY <1>d, <2>1, <2>2, AdvanceFields DEF t
  <2>3. CASE Leaves(r, "answering", FALSE)
    BY <1>d, <2>1, <2>3, LeavesFields DEF t
  <2> QED BY <1>4, <2>2, <2>3 DEF Resume, Unresumed, t
<1>5. CASE NodeRaises(r)
  <2>1. /\ req[r].pc \in {"running", "passing"} /\ UNCHANGED <<row, approved, run>>
        /\ Leaves(r, "answering", FALSE)
    BY <1>5 DEF NodeRaises, Unresumed, At
  <2> QED BY <1>d, <2>1, LeavesFields DEF t
<1>6. CASE Reenters(r)
  <2>1. /\ req[r].pc = "running" /\ Goes(r, "passing") /\ UNCHANGED run
        /\ approved' = approved /\ SetStatus(t, "awaiting_hitl")
    BY <1>6 DEF Reenters, At, t
  <2>2. /\ row'[t].status = "awaiting_hitl" /\ row'[t].decision = row[t].decision
        /\ \A u \in Tasks : u # t => row'[u] = row[u]
    BY <1>0, <2>1, StatusRow
  <2>3. /\ \A q \in Requests : q # r => req'[q] = req[q]
        /\ req'[r].pc = "passing" /\ req'[r].task = t /\ req'[r].kind = req[r].kind
    BY <2>1, GoesFields DEF t
  <2>4. req[r].kind = "approve" /\ t \in approved /\ row[t].decision = "approve"
    BY <1>0, <1>a, <2>1 DEF DecisionInv, Approving, Resuming, t
  <2>5. DecisionInv(r)'
    BY <1>q, <2>1, <2>2, <2>3, <2>4 DEF DecisionInv, Quiet, Rejected
  <2> QED BY <1>c, <2>1, <2>2, <2>3, <2>4, <2>5
<1>7. CASE Passes(r)
  <2> DEFINE d == IF req[r].at = "pre_pr" THEN "approve" ELSE row[t].decision
  <2>1. /\ req[r].pc = "passing" /\ Advance(r, After(req[r].at)) /\ UNCHANGED run
        /\ approved' = approved
        /\ row' = [row EXCEPT ![t] = [row[t] EXCEPT !.status = "running",
                                                    !.decision = d]]
    BY <1>7 DEF Passes, At, t
  <2>2. req[r].kind = "approve" /\ t \in approved /\ row[t].decision = "approve"
    BY <1>0, <1>a, <2>1 DEF DecisionInv, Approving, Resuming, t
  <2>3. row[t] \in Rows
        /\ row'[t] = [row[t] EXCEPT !.status = "running", !.decision = "approve"]
    BY <1>0, <2>1, <2>2 DEF TypeInv, TypeOK
  <2>4. row'[t].status = "running" /\ row'[t].decision = "approve"
    BY <2>3 DEF Rows
  <2>5. \A u \in Tasks : u # t => row'[u] = row[u]
    BY <2>1 DEF TypeInv, TypeOK
  <2>6. /\ \A q \in Requests : q # r => req'[q] = req[q]
        /\ req'[r].pc \in {"running", "recording"} /\ req'[r].task = t
        /\ req'[r].kind = req[r].kind
    BY <2>1, AdvanceFields DEF t
  <2>7. DecisionInv(r)'
    BY <1>q, <2>1, <2>2, <2>4, <2>6 DEF DecisionInv, Quiet, Rejected
  <2> QED BY <1>c, <2>1, <2>2, <2>4, <2>5, <2>6, <2>7
<1>8. CASE PassesUnregistered(r)
  <2>1. /\ req[r].pc = "running" /\ UNCHANGED <<row, approved, run>>
        /\ Advance(r, After(req[r].at))
    BY <1>8 DEF PassesUnregistered, At
  <2> QED BY <1>d, <2>1, AdvanceFields DEF t
<1>9. CASE AsksAgain(r)
  <2>1. /\ req[r].pc = "running" /\ Leaves(r, "answering", TRUE) /\ UNCHANGED run
        /\ approved' = approved /\ (SetStatus(t, "awaiting_hitl") \/ row' = row)
    BY <1>9 DEF AsksAgain, RunsAt, At, t
  <2>2. /\ row'[t].status \in {"awaiting_hitl", row[t].status}
        /\ row'[t].decision = row[t].decision
        /\ \A u \in Tasks : u # t => row'[u] = row[u]
    BY <1>0, <2>1, StatusRow
  <2>3. /\ \A q \in Requests : q # r => req'[q] = req[q]
        /\ req'[r].pc = "answering" /\ req'[r].task = t /\ req'[r].kind = req[r].kind
    BY <2>1, LeavesFields DEF t
  <2>4. req[r].kind = "approve" /\ t \in approved /\ row[t].decision = "approve"
    BY <1>0, <1>a, <2>1 DEF DecisionInv, Approving, Resuming, t
  <2>5. DecisionInv(r)'
    BY <1>q, <2>1, <2>3, <2>4
       DEF DecisionInv, Quiet, Rejected, Approving, Resuming
  <2>6. row'[t].status # "absent"
    BY <1>a, <1>q, <2>2 DEF TaskInv, RunIs, Quiet
  <2> QED BY <1>c, <2>1, <2>2, <2>3, <2>4, <2>5, <2>6
<1>10. CASE Pushes(r)
  <2>1. req[r].pc = "running" /\ UNCHANGED <<row, approved, run>>
    BY <1>10 DEF Pushes, RunsAt, At
  <2>2. PICK p : Advance(r, p)
    BY <1>10 DEF Pushes
  <2> QED BY <1>d, <2>1, <2>2, AdvanceFields DEF t
<1>11. CASE Proposes(r)
  <2>1. req[r].pc = "running" /\ UNCHANGED <<row, approved, run>>
    BY <1>11 DEF Proposes, RunsAt, At
  <2>2. PICK p : Advance(r, p)
    BY <1>11 DEF Proposes
  <2> QED BY <1>d, <2>1, <2>2, AdvanceFields DEF t
<1>12. CASE Records(r)
  <2>1. req[r].pc = "recording" /\ UNCHANGED <<row, approved, run>>
    BY <1>12 DEF Records, At
  <2>2. PICK s \in {"finishing", "cleaning"} : Goes(r, s)
    BY <1>12 DEF Records
  <2> QED BY <1>d, <2>1, <2>2, GoesFields DEF t
<1>13. CASE Finishes(r)
  <2>1. /\ req[r].pc = "finishing" /\ Goes(r, "cleaning") /\ UNCHANGED run
        /\ approved' = approved /\ FinishTask(t, StatusOf(req[r].at), "none")
    BY <1>13 DEF Finishes, At, t
  <2>2. /\ row'[t].status \in {"completed", "failed", "running"}
        /\ \A u \in Tasks : u # t => row'[u] = row[u]
    BY <1>0, <2>1, FinishRow DEF StatusOf
  <2>3. /\ \A q \in Requests : q # r => req'[q] = req[q]
        /\ req'[r].pc = "cleaning" /\ req'[r].task = t /\ req'[r].kind = req[r].kind
    BY <2>1, GoesFields DEF t
  <2>4. req[r].kind = "approve" /\ t \in approved
    BY <1>0, <1>a, <2>1 DEF DecisionInv, Approving, Resuming, t
  <2>5. DecisionInv(r)'
    BY <1>q, <2>1, <2>3, <2>4 DEF DecisionInv, Quiet, Rejected, Approving, Resuming
  <2> QED BY <1>c, <2>1, <2>2, <2>3, <2>4, <2>5
<1>14. CASE Rejects(r)
  <2>1. /\ req[r].pc = "rejecting" /\ Goes(r, "noting") /\ run' = run
        /\ approved' = approved /\ FinishTask(t, "rejected", "reject")
    BY <1>14 DEF Rejects, At, t
  <2>2. /\ row'[t].status = "rejected" /\ row'[t].decision = "reject"
        /\ \A u \in Tasks : u # t => row'[u] = row[u]
    BY <1>0, <2>1, FinishRow
  <2>3. /\ \A q \in Requests : q # r => req'[q] = req[q]
        /\ req'[r].pc = "noting" /\ req'[r].task = t /\ req'[r].kind = req[r].kind
    BY <2>1, GoesFields DEF t
  <2>4. req[r].kind = "reject" /\ CanDecide(t)
    BY <1>a, <2>1 DEF DecisionInv, t
  <2>5. t \notin approved
    BY <1>a, <2>4 DEF TaskInv
  <2>6. DecisionInv(r)'
    BY <1>q, <2>1, <2>2, <2>3, <2>4, <2>5
       DEF DecisionInv, Quiet, Approving, Resuming
  <2>7. TaskInv(t)'
    <3>1. t' = t
      BY <2>3 DEF t
    <3>2. Quiet(t)' /\ ~ RunIs(t, "none")'
      BY <1>q, <2>1, <3>1 DEF Quiet, RunIs
    <3>3. t \notin approved'
      BY <2>1, <2>5
    <3> QED BY <2>2, <3>1, <3>2, <3>3 DEF TaskInv
  <2> QED
    BY <2>1, <2>2, <2>3, <2>6, <2>7, RequestKeepsInv DEF Rejected, t
\* The end of both kinds of decision.
<1>e. ASSUME req[r].pc \in {"noting", "cleaning", "closing", "answering"},
             UNCHANGED <<row, approved, run>>,
             \A q \in Requests : q # r => req'[q] = req[q],
             req'[r].task = t, req'[r].kind = req[r].kind,
             req'[r].pc \in {"cleaning", "closing", "answering", "ok"}
      PROVE  RejectionInv'
  <2>1. /\ req[r].kind = "reject" => /\ row[t].status = "rejected"
                                     /\ row[t].decision = "reject"
                                     /\ t \notin approved
        /\ req[r].kind = "approve" => t \in approved
    BY <1>0, <1>a, <1>e DEF DecisionInv, Rejected, t
  <2>2. DecisionInv(r)'
    BY <1>q, <1>e, <2>1 DEF DecisionInv, Quiet, Approving, Resuming, Active
  <2> QED BY <1>b, <1>e, <2>2
<1>15. CASE Notes(r)
  BY <1>15, <1>e, GoesFields DEF Notes, At, t
<1>16. CASE Unregisters(r)
  <2>1. /\ req[r].pc = "cleaning" /\ UNCHANGED <<row, approved, run>>
        /\ \E s \in {"closing", "answering"}, b \in BOOLEAN : Leaves(r, s, b)
    BY <1>16 DEF Unregisters, At
  <2> QED BY <1>e, <2>1, LeavesFields DEF t
<1>17. CASE Closes(r)
  BY <1>17, <1>e, GoesFields DEF Closes, At, t
<1>18. CASE Answers(r)
  <2>1. req[r].pc = "answering" /\ UNCHANGED <<row, approved, run>>
    BY <1>18 DEF Answers, At
  <2>2. CASE Goes(r, "ok")
    BY <1>e, <2>1, <2>2, GoesFields DEF t
  <2>3. CASE Goes(r, "restoring") /\ row[t].status = "approved"
    <3>1. /\ \A q \in Requests : q # r => req'[q] = req[q]
          /\ req'[r].pc = "restoring" /\ req'[r].task = t
          /\ req'[r].kind = req[r].kind
      BY <2>3, GoesFields DEF t
    <3>2. req[r].kind = "approve" /\ t \in approved
      BY <1>0, <1>a, <1>q, <2>1, <2>3 DEF DecisionInv, Rejected, t
    <3>3. DecisionInv(r)'
      BY <1>q, <2>1, <3>1, <3>2 DEF DecisionInv, Quiet, Resuming, Rejected
    <3> QED BY <1>b, <2>1, <3>1, <3>3
  <2> QED BY <1>18, <2>2, <2>3 DEF Answers, t
<1>19. CASE Restores(r)
  <2>1. /\ req[r].pc = "restoring" /\ Goes(r, "ok") /\ UNCHANGED run
        /\ approved' = approved /\ SetStatus(t, "running")
    BY <1>19 DEF Restores, At, t
  <2>2. /\ row'[t].status = "running"
        /\ \A u \in Tasks : u # t => row'[u] = row[u]
    BY <1>0, <2>1, StatusRow
  <2>3. /\ \A q \in Requests : q # r => req'[q] = req[q]
        /\ req'[r].pc = "ok" /\ req'[r].task = t /\ req'[r].kind = req[r].kind
    BY <2>1, GoesFields DEF t
  <2>4. req[r].kind = "approve" /\ t \in approved
    BY <1>0, <1>a, <2>1 DEF DecisionInv, Approving, t
  <2>5. DecisionInv(r)'
    BY <1>q, <2>1, <2>3, <2>4
       DEF DecisionInv, Quiet, Rejected, Approving, Resuming, Active
  <2> QED BY <1>c, <2>1, <2>2, <2>3, <2>4, <2>5
<1> QED
  BY <1>1, <1>2, <1>3, <1>4, <1>5, <1>6, <1>7, <1>8, <1>9, <1>10, <1>11, <1>12,
     <1>13, <1>14, <1>15, <1>16, <1>17, <1>18, <1>19 DEF RequestStep

-----------------------------------------------------------------------------
(* run_task, new tasks, new requests and restarts. *)

LEMMA RunStepKeepsInv ==
    ASSUME TypeInv, RejectionInv, NEW t \in Tasks, RunStep(t)
    PROVE  RejectionInv'
<1> DEFINE Busy == {"starting", "provisioning", "graph", "recording", "finishing",
                    "failing", "noting"}
<1>1. /\ req' = req /\ approved' = approved
      /\ run[t].pc \in Busy
  BY RunFrame
     DEF RunStep, RunStarts, Provision, RunPauses, RunEnds, RunRaises, RunRecords,
         RunFinishes, RunFails, RunNotes, RunIs
<1>2. ~ Quiet(t) /\ TaskInv(t)
  BY <1>1 DEF Quiet, RejectionInv
<1>3. t \notin approved /\ row[t].status \notin {"awaiting_hitl", "absent"}
  BY <1>1, <1>2 DEF TaskInv, RunIs
<1>a. ASSUME \A u \in Tasks : u # t => row'[u] = row[u] /\ run'[u] = run[u],
             row'[t].status \notin {"awaiting_hitl", "absent"} \/ run'[t].pc = "paused",
             row'[t].status # "absent", run'[t].pc # "none"
      PROVE  RejectionInv'
  <2>1. PatienceInv'
    BY <1>1 DEF RejectionInv, PatienceInv
  <2>2. \A u \in Tasks : u # t => TaskInv(u)'
    BY <1>1, <1>a DEF RejectionInv, TaskInv, RunIs, Quiet, CanDecide
  <2>3. TaskInv(t)'
    BY <1>1, <1>3, <1>a DEF TaskInv, RunIs, Quiet
  <2>4. ASSUME NEW q \in Requests
        PROVE  DecisionInv(q)'
    <3>1. DecisionInv(q) /\ req'[q] = req[q]
      BY <1>1 DEF RejectionInv
    <3>2. CASE req[q].pc \in {"unsent", "error"}
      BY <3>1, <3>2, Idle
    <3>3. CASE req[q].pc \notin {"unsent", "error"}
      <4>1. req[q].pc \in Active \cup {"ok"} /\ req[q].task \in Tasks
        BY <3>3 DEF Active, TypeInv, TypeOK, Reqs, SentForATask, At
      <4>2. req[q].task # t
        BY <1>2, <3>1, <4>1 DEF DecisionInv
      <4>3. row'[req[q].task] = row[req[q].task]
            /\ run'[req[q].task] = run[req[q].task]
        BY <1>a, <4>1, <4>2
      <4> QED BY <1>1, <3>1, <4>3 DEF DecisionInv, Quiet, CanDecide
    <3> QED BY <3>2, <3>3
  <2> QED BY <2>1, <2>2, <2>3, <2>4 DEF RejectionInv
\* Steps that leave the row alone.
<1>b. ASSUME row' = row, NEW s, s # "none", RunGoes(t, s)
      PROVE  RejectionInv'
  <2>1. run'[t].pc = s /\ \A u \in Tasks : u # t => run'[u] = run[u]
    BY <1>b, RunGoesField
  <2> QED BY <1>3, <1>a, <1>b, <2>1
\* Steps that finish the row.
<1>c. ASSUME NEW w \in {"running", "failed", "completed"}, NEW d,
             FinishTask(t, w, d), NEW s, s # "none", RunGoes(t, s)
      PROVE  RejectionInv'
  <2>1. run'[t].pc = s /\ \A u \in Tasks : u # t => run'[u] = run[u]
    BY <1>c, RunGoesField
  <2>2. row'[t].status = w /\ \A u \in Tasks : u # t => row'[u] = row[u]
    BY <1>c, FinishRow
  <2> QED BY <1>a, <1>c, <2>1, <2>2
<1>4. CASE RunStarts(t)
  BY <1>4, <1>b DEF RunStarts, RunQuery
<1>5. CASE Provision(t)
  BY <1>5, <1>b DEF Provision
<1>6. CASE RunPauses(t)
  <2>1. RunGoes(t, "paused") /\ SetStatus(t, "awaiting_hitl")
    BY <1>6 DEF RunPauses
  <2>2. run'[t].pc = "paused" /\ \A u \in Tasks : u # t => run'[u] = run[u]
    BY <2>1, RunGoesField
  <2>3. row'[t].status = "awaiting_hitl" /\ \A u \in Tasks : u # t => row'[u] = row[u]
    BY <2>1, StatusRow
  <2> QED BY <1>a, <2>2, <2>3
<1>7. CASE RunEnds(t)
  <2>1. PICK o : run' = [run EXCEPT ![t] = [run[t] EXCEPT !.pc = "recording", !.end = o]]
    BY <1>7 DEF RunEnds
  <2>2. row' = row
    BY <1>7 DEF RunEnds
  <2>3. run[t] \in Runs /\ run'[t] = [run[t] EXCEPT !.pc = "recording", !.end = o]
    BY <2>1 DEF TypeInv, TypeOK
  <2>4. run'[t].pc = "recording" /\ \A u \in Tasks : u # t => run'[u] = run[u]
    BY <2>1, <2>3 DEF Runs, TypeInv, TypeOK
  <2> QED BY <1>3, <1>a, <2>2, <2>4
<1>8. CASE RunRaises(t)
  BY <1>8, <1>b DEF RunRaises
<1>9. CASE RunRecords(t)
  BY <1>9, <1>b DEF RunRecords
<1>10. CASE RunFinishes(t)
  <2>1. \E s \in {"done", "dead"} : RunGoes(t, s)
    BY <1>10 DEF RunFinishes, RunQuery
  <2>2. StatusOf(run[t].end) \in {"running", "failed", "completed"}
    BY DEF StatusOf
  <2> QED BY <1>10, <1>b, <1>c, <2>1, <2>2 DEF RunFinishes
<1>11. CASE RunFails(t)
  <2>1. \E s \in {"noting", "dead"} : RunGoes(t, s)
    BY <1>11 DEF RunFails, RunQuery
  <2> QED BY <1>11, <1>b, <1>c, <2>1 DEF RunFails
<1>12. CASE RunNotes(t)
  BY <1>12, <1>b DEF RunNotes, RunQuery
<1> QED
  BY <1>4, <1>5, <1>6, <1>7, <1>8, <1>9, <1>10, <1>11, <1>12 DEF RunStep

LEMMA CreateKeepsInv ==
    ASSUME TypeInv, RejectionInv, NEW t \in Tasks, Create(t)
    PROVE  RejectionInv'
<1>1. /\ req' = req /\ approved' = approved /\ row[t].status = "absent"
      /\ SetStatus(t, "running")
      /\ run' = [run EXCEPT ![t] = [run[t] EXCEPT !.pc = "starting",
                                                  !.store = ApiStore]]
  BY DEF Create
<1>2. RunIs(t, "none") /\ ~ Quiet(t) /\ t \notin approved
  BY <1>1 DEF RejectionInv, TaskInv, RunIs, Quiet
<1>3. row'[t].status = "running" /\ \A u \in Tasks : u # t => row'[u] = row[u]
  BY <1>1, StatusRow
<1>4. run[t] \in Runs
      /\ run'[t] = [run[t] EXCEPT !.pc = "starting", !.store = ApiStore]
  BY <1>1 DEF TypeInv, TypeOK
<1>5. run'[t].pc = "starting" /\ \A u \in Tasks : u # t => run'[u] = run[u]
  BY <1>1, <1>4 DEF Runs, TypeInv, TypeOK
<1>6. PatienceInv'
  BY <1>1 DEF RejectionInv, PatienceInv
<1>7. \A u \in Tasks : u # t => TaskInv(u)'
  BY <1>1, <1>3, <1>5 DEF RejectionInv, TaskInv, RunIs, Quiet, CanDecide
<1>8. TaskInv(t)'
  BY <1>1, <1>2, <1>3, <1>5 DEF TaskInv, RunIs, Quiet
<1>9. ASSUME NEW q \in Requests
      PROVE  DecisionInv(q)'
  <2>1. DecisionInv(q) /\ req'[q] = req[q]
    BY <1>1 DEF RejectionInv
  <2>2. CASE req[q].pc \in {"unsent", "error"}
    BY <2>1, <2>2, Idle
  <2>3. CASE req[q].pc \notin {"unsent", "error"}
    <3>1. req[q].pc \in Active \cup {"ok"} /\ req[q].task \in Tasks
      BY <2>3 DEF Active, TypeInv, TypeOK, Reqs, SentForATask, At
    <3>2. req[q].task # t
      BY <1>2, <2>1, <3>1 DEF DecisionInv
    <3>3. row'[req[q].task] = row[req[q].task] /\ run'[req[q].task] = run[req[q].task]
      BY <1>3, <1>5, <3>1, <3>2
    <3> QED BY <1>1, <2>1, <3>3 DEF DecisionInv, Quiet, CanDecide
  <2> QED BY <2>2, <2>3
<1> QED BY <1>6, <1>7, <1>8, <1>9 DEF RejectionInv

LEMMA AskKeepsInv ==
    ASSUME PatientClients, TypeInv, RejectionInv, NEW r \in Requests, NEW t \in Tasks,
           NEW kind \in {"approve", "reject"}, Ask(r, t, kind)
    PROVE  RejectionInv'
<1>1. /\ UNCHANGED <<row, run>> /\ approved' = approved
      /\ CanDecide(t) /\ ~ InFlight(t) /\ req[r].pc = "unsent"
  BY DEF Ask, At
<1>2. /\ \A q \in Requests : q # r => req'[q] = req[q]
      /\ req'[r].pc = IF kind = "approve" THEN "approving" ELSE "rejecting"
      /\ req'[r].task = t /\ req'[r].kind = kind
  BY AskFields
<1>3. \A q \in Requests : req[q].task = t => req[q].pc \notin Active
  BY <1>1 DEF InFlight, Active
<1>4. Quiet(t) /\ t \notin approved
  BY <1>1 DEF RejectionInv, TaskInv, CanDecide
<1>5. PatienceInv'
  <2> SUFFICES ASSUME NEW a \in Requests, NEW b \in Requests, a # b,
                      req'[a].pc \in Active, req'[b].pc \in Active
               PROVE  req'[a].task # req'[b].task
    BY DEF PatienceInv
  <2>1. CASE a = r
    BY <1>2, <1>3, <2>1
  <2>2. CASE b = r
    BY <1>2, <1>3, <2>2
  <2>3. CASE a # r /\ b # r
    BY <1>2, <2>3 DEF RejectionInv, PatienceInv
  <2> QED BY <2>1, <2>2, <2>3
<1>6. \A u \in Tasks : TaskInv(u)'
  BY <1>1 DEF RejectionInv, TaskInv, RunIs, Quiet, CanDecide
<1>7. ASSUME NEW q \in Requests, q # r
      PROVE  DecisionInv(q)'
  <2>1. DecisionInv(q) /\ req'[q] = req[q]
    BY <1>2, <1>7 DEF RejectionInv
  <2> QED BY <1>1, <2>1 DEF DecisionInv, Quiet, CanDecide
<1>8. DecisionInv(r)'
  <2>1. CanDecide(t)' /\ Quiet(t)'
    BY <1>1, <1>4 DEF CanDecide, Quiet
  <2>2. CASE kind = "approve"
    BY <1>2, <2>1, <2>2 DEF DecisionInv, Approving, Resuming, Rejected, CanDecide, Quiet
  <2>3. CASE kind = "reject"
    BY <1>2, <2>1, <2>3 DEF DecisionInv, Approving, Resuming, Rejected, CanDecide, Quiet
  <2> QED BY <2>2, <2>3
<1> QED BY <1>5, <1>6, <1>7, <1>8 DEF RejectionInv

LEMMA RestartKeepsInv ==
    ASSUME TypeInv, RejectionInv, Restart
    PROVE  RejectionInv'
<1>1. row' = row /\ approved' = approved
  BY DEF Restart
<1>2. ASSUME NEW u \in Tasks
      PROVE  /\ Quiet(u) => Quiet(u)'
             /\ run'[u].pc = "none" <=> run[u].pc = "none"
  <2>1. run[u] \in Runs
    BY DEF TypeInv, TypeOK
  <2>2. \/ run[u].pc \in {"none", "paused", "done"} /\ run'[u] = run[u]
        \/ run[u].pc \notin {"none", "paused", "done"}
           /\ run'[u] = [run[u] EXCEPT !.pc = "dead"]
    BY DEF Restart
  <2> QED BY <2>1, <2>2 DEF Runs, Quiet
<1>3. PatienceInv'
  BY RestartFields DEF PatienceInv, Active
<1>4. \A u \in Tasks : TaskInv(u)'
  BY <1>1, <1>2 DEF RejectionInv, TaskInv, RunIs, CanDecide
<1>5. ASSUME NEW q \in Requests
      PROVE  DecisionInv(q)'
  <2>1. CASE req'[q].pc \in {"unsent", "error"}
    BY <2>1, Idle
  <2>2. CASE req'[q].pc \notin {"unsent", "error"}
    <3>1. req'[q].pc = "ok" /\ req[q].pc = "ok" /\ req'[q].task = req[q].task
          /\ req'[q].kind = req[q].kind
      BY <2>2, RestartFields
    <3>2. req[q].task \in Tasks /\ DecisionInv(q)
      BY <3>1 DEF TypeInv, SentForATask, At, RejectionInv
    <3>3. Quiet(req[q].task) /\ Quiet(req[q].task)'
      BY <1>2, <3>1, <3>2 DEF DecisionInv, Quiet
    <3> QED
      BY <1>1, <3>1, <3>2, <3>3
         DEF DecisionInv, Approving, Resuming, Rejected, Active, Quiet
  <2> QED BY <2>1, <2>2
<1> QED BY <1>3, <1>4, <1>5 DEF RejectionInv

\* Where no client decides while a decision of the task is under way, one decision
\* of a task is active at most, each of its steps finds the row it expects, and
\* run_task writes no more once the row awaits a decision.
THEOREM DecisionsKeepOrder ==
    ASSUME PatientClients
    PROVE  Spec => []RejectionInv
<1>1. ASSUME Init PROVE RejectionInv
  <2>1. \A r \in Requests : req[r].pc = "unsent"
    BY <1>1 DEF Init
  <2>2. \A t \in Tasks : TaskInv(t)
    BY <1>1 DEF Init, TaskInv, RunIs
  <2>3. PatienceInv /\ \A r \in Requests : DecisionInv(r)
    BY <2>1 DEF PatienceInv, DecisionInv, Active, Approving, Resuming, Rejected
  <2> QED BY <2>2, <2>3 DEF RejectionInv
<1>2. TypeInv /\ TypeInv' /\ RejectionInv /\ [Next]_vars => RejectionInv'
  <2> SUFFICES ASSUME TypeInv, TypeInv', RejectionInv, [Next]_vars
               PROVE  RejectionInv'
    OBVIOUS
  <2>1. CASE UNCHANGED vars
    <3>1. UNCHANGED <<row, run, req>> /\ approved' = approved
      BY <2>1 DEF vars
    <3> QED
      BY <3>1 DEF RejectionInv, PatienceInv, TaskInv, DecisionInv, RunIs, Quiet,
                  CanDecide
  <2>2. CASE Next
    BY <2>2, CreateKeepsInv, RunStepKeepsInv, RequestStepKeepsInv, AskKeepsInv,
       RestartKeepsInv DEF Next
  <2> QED BY <2>1, <2>2
<1> QED BY <1>1, <1>2, Typed, PTL DEF Spec

\* Where no client decides while a decision of the task is under way, an answered
\* rejection is final: no pull request, and a row that stays rejected.
THEOREM RejectionsAreFinal ==
    ASSUME PatientClients
    PROVE  Spec => []RejectionIsFinal
<1>1. RejectionInv /\ NothingWrittenUnapproved => RejectionIsFinal
  <2> SUFFICES ASSUME RejectionInv, NothingWrittenUnapproved, NEW r \in Requests,
                      At(r, "ok"), req[r].kind = "reject"
               PROVE  req[r].task \notin prs /\ row[req[r].task].status = "rejected"
    BY DEF RejectionIsFinal
  <2> QED BY DEF RejectionInv, DecisionInv, Rejected, At, NothingWrittenUnapproved
<1> QED
  BY <1>1, DecisionsKeepOrder, WritesAreApproved, PTL

-----------------------------------------------------------------------------
(* AwaitingCanBeDecided, where clients are patient, the graph has one checkpoint  *)
(* and the back end is not restarted: what a paused task has in memory, and which *)
(* store a decision and the task it is about hold.                                *)

\* Nobody stands at the first of two checkpoints.
PositionInv ==
    /\ \A t \in Tasks : cp[t] \notin {"pre_commit", "ask_pr"}
    /\ \A r \in Requests : req[r].at \notin {"pre_commit", "ask_pr"}

\* Only the latest store can be open, and a decision has a store at least as young
\* as its task's: where both are open they are the same.
StoreInv ==
    /\ open \subseteq {api}
    /\ \A t \in Tasks : run[t].store <= api
    /\ \A r \in Requests :
          /\ req[r].store <= api
          /\ req[r].pc \in Active => run[req[r].task].store <= req[r].store

\* A graph that runs is registered, and its row undecided.
PauseInv(t) ==
    /\ RunIs(t, "graph") => t \in live
    /\ ~ Quiet(t) => row[t].decision = "none"

\* The row awaits a decision during the one that is under way only before the
\* graph is resumed, while an interrupted node runs again, and where that node
\* failed: then the store of the request is closed too.
ResumeInv(r) ==
    /\ req[r].pc \in {"resuming", "running", "recording", "finishing", "cleaning",
                      "closing", "restoring"} =>
           row[req[r].task].status # "awaiting_hitl"
    /\ At(r, "passing") => req[r].store = run[req[r].task].store
    /\ At(r, "answering") /\ row[req[r].task].status = "awaiting_hitl" =>
           req[r].kind = "approve" /\ ~ Connected(r)

AwaitingInv ==
    /\ AwaitingCanBeDecided
    /\ PositionInv
    /\ StoreInv
    /\ \A t \in Tasks : PauseInv(t)
    /\ \A r \in Requests : ResumeInv(r)

-----------------------------------------------------------------------------
(* What a step of a request changes. *)

LEMMA RequestShape ==
    ASSUME NEW r \in Requests, RequestStep(r)
    PROVE  \/ \E s : Goes(r, s)
           \/ \E p : Advance(r, p)
           \/ \E s, b : Leaves(r, s, b)
BY DEF RequestStep, Breaks, ApproveDecides, ApproveMarks, Resume, NodeRaises,
       Reenters, Passes, PassesUnregistered, AsksAgain, Pushes, Proposes, Records,
       Finishes, Rejects, Notes, Unregisters, Closes, Answers, Restores, Unresumed

\* A request keeps its task, its kind and its store.
LEMMA RequestFields ==
    ASSUME TypeInv, NEW r \in Requests, RequestStep(r)
    PROVE  /\ \A q \in Requests : q # r => req'[q] = req[q]
           /\ req'[r].task = req[r].task
           /\ req'[r].kind = req[r].kind
           /\ req'[r].store = req[r].store
<1>1. req[r] \in Reqs
  BY DEF TypeInv, TypeOK
<1>2. ASSUME NEW s, Goes(r, s)
      PROVE  req'[r].store = req[r].store
  <2>1. req'[r] = [req[r] EXCEPT !.pc = s]
    BY <1>2 DEF Goes, TypeInv, TypeOK
  <2> QED BY <1>1, <2>1 DEF Reqs
<1>3. ASSUME NEW p, Advance(r, p)
      PROVE  req'[r].store = req[r].store
  <2> DEFINE s == IF p \in ResumeOutcomes THEN "recording" ELSE "running"
  <2>1. req'[r] = [req[r] EXCEPT !.at = p, !.pc = s]
    BY <1>3 DEF Advance, TypeInv, TypeOK
  <2> QED BY <1>1, <2>1 DEF Reqs
<1>4. ASSUME NEW s, NEW b, Leaves(r, s, b)
      PROVE  req'[r].store = req[r].store
  <2>1. req'[r] = [req[r] EXCEPT !.pc = s, !.resumed = b]
    BY <1>4 DEF Leaves, TypeInv, TypeOK
  <2> QED BY <1>1, <2>1 DEF Reqs
<1>5. CASE \E s : Goes(r, s)
  BY <1>2, <1>5, GoesFields
<1>6. CASE \E p : Advance(r, p)
  BY <1>3, <1>6, AdvanceFields
<1>7. CASE \E s, b : Leaves(r, s, b)
  BY <1>4, <1>7, LeavesFields
<1> QED BY <1>5, <1>6, <1>7, RequestShape

\* It is not taken back.
LEMMA RequestIsSent ==
    ASSUME TypeInv, NEW r \in Requests, RequestStep(r)
    PROVE  req'[r].pc # "unsent"
<1> DEFINE Went == \E s \in RequestStates \ {"unsent"} : Goes(r, s)
           Left == \E s \in RequestStates \ {"unsent"}, b \in BOOLEAN : Leaves(r, s, b)
<1>1. Went \/ (\E p : Advance(r, p)) \/ Left
  <2>1. CASE Answers(r)
    <3>1. Goes(r, "restoring") \/ Goes(r, "ok")
      BY <2>1 DEF Answers
    <3> QED BY <3>1 DEF RequestStates
  <2>2. CASE Unregisters(r)
    <3>1. \E s \in {"closing", "answering"}, b \in BOOLEAN : Leaves(r, s, b)
      BY <2>2 DEF Unregisters
    <3> QED BY <3>1 DEF RequestStates
  <2>3. CASE \/ Resume(r) \/ NodeRaises(r) \/ AsksAgain(r)
    <3>1. (\E p : Advance(r, p)) \/ \E b \in BOOLEAN : Leaves(r, "answering", b)
      BY <2>3 DEF Resume, NodeRaises, AsksAgain, Unresumed
    <3> QED BY <3>1 DEF RequestStates
  <2>4. CASE Passes(r) \/ PassesUnregistered(r) \/ Pushes(r) \/ Proposes(r)
    BY <2>4 DEF Passes, PassesUnregistered, Pushes, Proposes
  <2>5. CASE \/ Breaks(r) \/ ApproveDecides(r) \/ ApproveMarks(r) \/ Reenters(r)
             \/ Records(r) \/ Finishes(r) \/ Rejects(r) \/ Notes(r) \/ Closes(r)
             \/ Restores(r)
    <3>1. \E s \in {"error", "marking", "resuming", "passing", "finishing",
                    "cleaning", "noting", "answering", "ok"} : Goes(r, s)
      BY <2>5 DEF Breaks, ApproveDecides, ApproveMarks, Reenters, Records, Finishes,
                  Rejects, Notes, Closes, Restores
    <3> QED BY <3>1 DEF RequestStates
  <2> QED BY <2>1, <2>2, <2>3, <2>4, <2>5 DEF RequestStep
<1>2. CASE Went
  BY <1>2, GoesFields
<1>3. CASE \E p : Advance(r, p)
  <2>1. req'[r].pc \in {"recording", "running"}
    BY <1>3, AdvanceFields
  <2> QED BY <2>1
<1>4. CASE Left
  BY <1>4, LeavesFields
<1> QED BY <1>1, <1>2, <1>3, <1>4

\* It opens no store, and touches no other task.
LEMMA RequestFrame ==
    ASSUME TypeInv, NEW r \in Requests, RequestStep(r)
    PROVE  /\ run' = run /\ api' = api /\ open' \subseteq open
           /\ \A u \in Tasks : u # req[r].task =>
                 /\ row'[u] = row[u]
                 /\ cp'[u] = cp[u]
                 /\ u \in live' <=> u \in live
<1> DEFINE t == req[r].task
<1>0. t \in Tasks
  BY SentRequest
<1>1. run' = run /\ api' = api /\ open' \subseteq open
  BY DEF RequestStep, Breaks, ApproveDecides, ApproveMarks, Resume, NodeRaises,
         Reenters, Passes, PassesUnregistered, AsksAgain, Pushes, Proposes, Records,
         Finishes, Rejects, Notes, Unregisters, Closes, Answers, Restores, memory
<1>2. live' = live \/ live' = live \ {t}
  BY DEF RequestStep, Breaks, ApproveDecides, ApproveMarks, Resume, NodeRaises,
         Reenters, Passes, PassesUnregistered, AsksAgain, Pushes, Proposes, Records,
         Finishes, Rejects, Notes, Unregisters, Closes, Answers, Restores, memory
<1>3. cp' = cp \/ \E p : Advance(r, p)
  BY DEF RequestStep, Breaks, ApproveDecides, ApproveMarks, Resume, NodeRaises,
         Reenters, Passes, PassesUnregistered, AsksAgain, Pushes, Proposes, Records,
         Finishes, Rejects, Notes, Unregisters, Closes, Answers, Restores, memory
<1>4. row' = row \/ \E w : row' = [row EXCEPT ![t] = w]
  BY DEF RequestStep, Breaks, ApproveDecides, ApproveMarks, Resume, NodeRaises,
         Reenters, Passes, PassesUnregistered, AsksAgain, Pushes, Proposes, Records,
         Finishes, Rejects, Notes, Unregisters, Closes, Answers, Restores,
         SetStatus, FinishTask
<1>5. \A u \in Tasks : u # t => row'[u] = row[u]
  BY <1>4 DEF TypeInv, TypeOK
<1>6. \A u \in Tasks : u # t => cp'[u] = cp[u]
  BY <1>0, <1>3, AdvanceFields
<1> QED BY <1>1, <1>2, <1>5, <1>6

\* A request after its step: where it ends, its task does not await a decision.
LEMMA RequestKeepsResumeInv ==
    ASSUME TypeInv, RejectionInv, PositionInv, StoreInv, NEW r \in Requests,
           ResumeInv(r), RequestStep(r)
    PROVE  /\ ResumeInv(r)'
           /\ req'[r].pc = "ok" => row'[req[r].task].status # "awaiting_hitl"
<1> DEFINE t == req[r].task
           awaits == row[t].status = "awaiting_hitl"
<1>0. t \in Tasks /\ req[r].pc \in Active /\ DecisionInv(r)
  BY SentRequest, StepIsActive DEF RejectionInv
<1>f. req'[r].task = t /\ req'[r].kind = req[r].kind /\ req'[r].store = req[r].store
      /\ run' = run
  BY RequestFields, RequestFrame
\* Steps after which the row awaits nothing.
<1>a. ASSUME row'[t].status # "awaiting_hitl", req'[r].pc # "passing"
      PROVE  ResumeInv(r)' /\ row'[t].status # "awaiting_hitl"
  BY <1>a, <1>f DEF ResumeInv, At
\* Steps of which nothing is asked.
<1>b. ASSUME req'[r].pc \in {"marking", "noting", "error"}
      PROVE  ResumeInv(r)' /\ req'[r].pc # "ok"
  BY <1>b DEF ResumeInv, At
\* Steps that leave alone a row that awaits nothing.
<1>c. ASSUME req[r].pc \in {"resuming", "running", "recording", "cleaning", "closing"},
             row' = row, req'[r].pc # "passing"
      PROVE  ResumeInv(r)' /\ row'[t].status # "awaiting_hitl"
  <2>1. ~ awaits
    BY <1>c DEF ResumeInv
  <2> QED BY <1>a, <1>c, <2>1
<1>1. CASE Breaks(r)
  <2>1. Goes(r, "error")
    BY <1>1 DEF Breaks
  <2> QED BY <1>b, <2>1, GoesFields
<1>2. CASE ApproveDecides(r)
  <2>1. Goes(r, "marking")
    BY <1>2 DEF ApproveDecides
  <2> QED BY <1>b, <2>1, GoesFields
<1>3. CASE ApproveMarks(r)
  <2>1. Goes(r, "resuming") /\ SetStatus(t, "approved")
    BY <1>3 DEF ApproveMarks
  <2>2. req'[r].pc = "resuming" /\ row'[t].status = "approved"
    BY <1>0, <2>1, GoesFields, StatusRow
  <2> QED BY <1>a, <2>2
<1>4. CASE Resume(r)
  <2>1. req[r].pc = "resuming" /\ row' = row
        /\ (Advance(r, cp[t]) \/ Leaves(r, "answering", FALSE))
    BY <1>4 DEF Resume, At, Unresumed
  <2>2. CASE Advance(r, cp[t])
    BY <1>c, <2>1, <2>2, AdvanceFields
  <2>3. CASE Leaves(r, "answering", FALSE)
    <3>1. req'[r].pc = "answering"
      BY <2>3, LeavesFields
    <3> QED BY <1>c, <2>1, <3>1
  <2> QED BY <2>1, <2>2, <2>3
<1>5. CASE NodeRaises(r)
  <2>1. /\ row' = row /\ open' = open /\ Leaves(r, "answering", FALSE)
        /\ req[r].pc \in {"running", "passing"} /\ run[t].store \notin open
    BY <1>5 DEF NodeRaises, Unresumed, At, memory, TaskStoreOpen
  <2>2. req'[r].pc = "answering"
    BY <2>1, LeavesFields
  <2>3. CASE req[r].pc = "running"
    BY <1>c, <2>1, <2>2, <2>3
  <2>4. CASE req[r].pc = "passing"
    <3>1. req[r].store \notin open /\ req[r].kind = "approve"
      BY <1>0, <2>1, <2>4 DEF ResumeInv, At, DecisionInv, Approving, Resuming
    <3>2. ~ Connected(r)' /\ req'[r].kind = "approve"
      BY <1>f, <2>1, <3>1 DEF Connected
    <3> QED BY <2>2, <3>2 DEF ResumeInv, At
  <2> QED BY <2>1, <2>3, <2>4
<1>6. CASE Reenters(r)
  <2>1. Goes(r, "passing") /\ run[t].store \in open
    BY <1>6 DEF Reenters, TaskStoreOpen
  <2>2. req'[r].pc = "passing"
    BY <2>1, GoesFields
  <2>3. req[r].store \in Nat /\ api \in Nat
    BY DEF TypeInv, TypeOK, Reqs
  <2>4. run[t].store = api /\ run[t].store <= req[r].store /\ req[r].store <= api
    BY <1>0, <2>1 DEF StoreInv
  <2>5. req[r].store = run[t].store
    BY <2>3, <2>4
  <2> QED BY <1>f, <2>2, <2>5 DEF ResumeInv, At
<1>7. CASE Passes(r)
  <2> DEFINE d == IF req[r].at = "pre_pr" THEN "approve" ELSE row[t].decision
  <2>1. /\ Advance(r, After(req[r].at))
        /\ row' = [row EXCEPT ![t] = [row[t] EXCEPT !.status = "running",
                                                    !.decision = d]]
    BY <1>7 DEF Passes
  <2>2. row[t] \in Rows
        /\ row'[t] = [row[t] EXCEPT !.status = "running", !.decision = d]
    BY <1>0, <2>1 DEF TypeInv, TypeOK
  <2>3. row'[t].status = "running"
    BY <2>2 DEF Rows
  <2>4. req'[r].pc # "passing"
    BY <2>1, AdvanceFields
  <2> QED BY <1>a, <2>3, <2>4
<1>8. CASE PassesUnregistered(r)
  <2>1. req[r].pc = "running" /\ row' = row /\ Advance(r, After(req[r].at))
    BY <1>8 DEF PassesUnregistered, At
  <2>2. req'[r].pc # "passing"
    BY <2>1, AdvanceFields
  <2> QED BY <1>c, <2>1, <2>2
<1>9. CASE AsksAgain(r)
  BY <1>9 DEF AsksAgain, RunsAt, PositionInv
<1>10. CASE Pushes(r)
  <2>1. req[r].pc = "running" /\ row' = row /\ \E p : Advance(r, p)
    BY <1>10 DEF Pushes, RunsAt, At
  <2>2. req'[r].pc # "passing"
    BY <2>1, AdvanceFields
  <2> QED BY <1>c, <2>1, <2>2
<1>11. CASE Proposes(r)
  <2>1. req[r].pc = "running" /\ row' = row /\ \E p : Advance(r, p)
    BY <1>11 DEF Proposes, RunsAt, At
  <2>2. req'[r].pc # "passing"
    BY <2>1, AdvanceFields
  <2> QED BY <1>c, <2>1, <2>2
<1>12. CASE Records(r)
  <2>1. /\ req[r].pc = "recording" /\ row' = row
        /\ \E s \in {"finishing", "cleaning"} : Goes(r, s)
    BY <1>12 DEF Records, At
  <2>2. req'[r].pc # "passing"
    BY <2>1, GoesFields
  <2> QED BY <1>c, <2>1, <2>2
<1>13. CASE Finishes(r)
  <2>1. Goes(r, "cleaning") /\ FinishTask(t, StatusOf(req[r].at), "none")
    BY <1>13 DEF Finishes
  <2>2. req'[r].pc = "cleaning"
    BY <2>1, GoesFields
  <2>3. row'[t].status = StatusOf(req[r].at)
    BY <1>0, <2>1, FinishRow
  <2>4. StatusOf(req[r].at) # "awaiting_hitl"
    BY DEF StatusOf
  <2> QED BY <1>a, <2>2, <2>3, <2>4
<1>14. CASE Rejects(r)
  <2>1. Goes(r, "noting")
    BY <1>14 DEF Rejects
  <2> QED BY <1>b, <2>1, GoesFields
<1>15. CASE Notes(r)
  <2>1. req[r].pc = "noting" /\ Goes(r, "cleaning") /\ row' = row
    BY <1>15 DEF Notes, At
  <2>2. row[t].status = "rejected"
    BY <1>0, <2>1 DEF DecisionInv, Rejected
  <2>3. req'[r].pc = "cleaning"
    BY <2>1, GoesFields
  <2> QED BY <1>a, <2>1, <2>2, <2>3
<1>16. CASE Unregisters(r)
  <2>1. /\ req[r].pc = "cleaning" /\ row' = row
        /\ \E s \in {"closing", "answering"}, b \in BOOLEAN : Leaves(r, s, b)
    BY <1>16 DEF Unregisters, At
  <2>2. req'[r].pc # "passing"
    BY <2>1, LeavesFields
  <2> QED BY <1>c, <2>1, <2>2
<1>17. CASE Closes(r)
  <2>1. req[r].pc = "closing" /\ Goes(r, "answering") /\ row' = row
    BY <1>17 DEF Closes, At
  <2>2. req'[r].pc = "answering"
    BY <2>1, GoesFields
  <2> QED BY <1>c, <2>1, <2>2
<1>18. CASE Answers(r)
  <2>1. /\ At(r, "answering") /\ row' = row
        /\ req[r].kind = "approve" => Connected(r)
        /\ Goes(r, "ok") \/ Goes(r, "restoring")
    BY <1>18 DEF Answers
  <2>2. ~ awaits
    BY <2>1 DEF ResumeInv
  <2>3. req'[r].pc \in {"ok", "restoring"}
    BY <2>1, GoesFields
  <2> QED BY <1>a, <2>1, <2>2, <2>3
<1>19. CASE Restores(r)
  <2>1. Goes(r, "ok") /\ SetStatus(t, "running")
    BY <1>19 DEF Restores
  <2>2. req'[r].pc = "ok" /\ row'[t].status = "running"
    BY <1>0, <2>1, GoesFields, StatusRow
  <2> QED BY <1>a, <2>2
<1> QED
  BY <1>1, <1>2, <1>3, <1>4, <1>5, <1>6, <1>7, <1>8, <1>9, <1>10, <1>11, <1>12,
     <1>13, <1>14, <1>15, <1>16, <1>17, <1>18, <1>19 DEF RequestStep

\* No request comes to the first of two checkpoints.
LEMMA RequestKeepsPosition ==
    ASSUME TypeInv, PositionInv, NEW r \in Requests, RequestStep(r)
    PROVE  PositionInv'
<1> DEFINE t == req[r].task
           Free(p) == p \notin {"pre_commit", "ask_pr"}
<1>0. t \in Tasks
  BY SentRequest
<1>1. ASSUME req'[r].at = req[r].at, cp' = cp
      PROVE  PositionInv'
  BY <1>1, RequestFields DEF PositionInv
<1>2. ASSUME NEW p, Free(p), Advance(r, p)
      PROVE  PositionInv'
  <2>1. req'[r].at = p /\ cp'[t] = p
    BY <1>0, <1>2, AdvanceFields
  <2> QED BY <1>2, <2>1, RequestFields, RequestFrame DEF PositionInv
<1>3. CASE \E s : Goes(r, s) /\ cp' = cp
  BY <1>1, <1>3, GoesFields
<1>4. CASE \E s, b : Leaves(r, s, b) /\ cp' = cp
  BY <1>1, <1>4, LeavesFields
<1>5. Free(After(req[r].at))
  BY DEF PositionInv, After
<1>6. Free(cp[t])
  BY <1>0 DEF PositionInv
<1> HIDE DEF Free, t
<1>7. CASE Resume(r)
  BY <1>2, <1>4, <1>6, <1>7 DEF Resume, Unresumed, t
<1>8. CASE Passes(r) \/ PassesUnregistered(r)
  BY <1>2, <1>5, <1>8 DEF Passes, PassesUnregistered
<1>9. CASE Pushes(r) \/ Proposes(r)
  BY <1>2, <1>9 DEF Pushes, Proposes, Free
<1>10. CASE NodeRaises(r) \/ AsksAgain(r) \/ Unregisters(r)
  BY <1>4, <1>10 DEF NodeRaises, AsksAgain, Unregisters, Unresumed, memory
<1>11. CASE \/ Breaks(r) \/ ApproveDecides(r) \/ ApproveMarks(r) \/ Reenters(r)
            \/ Records(r) \/ Finishes(r) \/ Rejects(r) \/ Notes(r) \/ Closes(r)
            \/ Answers(r) \/ Restores(r)
  BY <1>3, <1>11
     DEF Breaks, ApproveDecides, ApproveMarks, Reenters, Records, Finishes, Rejects,
         Notes, Closes, Answers, Restores, memory
<1> QED BY <1>7, <1>8, <1>9, <1>10, <1>11 DEF RequestStep

\* A step of a request keeps what makes a paused task decidable: its own task has a
\* decision under way before and, unless the request ends, after it.
LEMMA RequestKeepsAwaiting ==
    ASSUME TypeInv, TypeInv', RejectionInv, AwaitingInv, NEW r \in Requests,
           RequestStep(r)
    PROVE  AwaitingInv'
<1> DEFINE t == req[r].task
<1>0. t \in Tasks /\ req[r].pc \in Active /\ DecisionInv(r)
  BY SentRequest, StepIsActive DEF RejectionInv
<1>1. /\ \A q \in Requests : q # r => req'[q] = req[q]
      /\ req'[r].task = t /\ req'[r].store = req[r].store
  BY RequestFields
<1>2. /\ run' = run /\ api' = api /\ open' \subseteq open
      /\ \A u \in Tasks : u # t =>
            row'[u] = row[u] /\ cp'[u] = cp[u] /\ (u \in live' <=> u \in live)
  BY RequestFrame
<1>3. Quiet(t)
  BY <1>0 DEF DecisionInv
<1>4. PositionInv'
  BY RequestKeepsPosition DEF AwaitingInv
<1>5. StoreInv'
  BY <1>0, <1>1, <1>2 DEF AwaitingInv, StoreInv
<1>6. ASSUME NEW u \in Tasks
      PROVE  PauseInv(u)'
  BY <1>2, <1>3 DEF AwaitingInv, PauseInv, RunIs, Quiet
<1>7. /\ ResumeInv(r)'
      /\ req'[r].pc = "ok" => row'[t].status # "awaiting_hitl"
  BY <1>1, RequestKeepsResumeInv DEF AwaitingInv
<1>8. ASSUME NEW q \in Requests, q # r
      PROVE  ResumeInv(q)'
  <2>1. ResumeInv(q) /\ req'[q] = req[q]
    BY <1>1, <1>8 DEF AwaitingInv
  <2>2. CASE req[q].pc \in Active
    <3>1. req[q].task # t
      BY <1>0, <1>8, <2>2 DEF RejectionInv, PatienceInv
    <3>2. req[q].task \in Tasks
      BY <2>2 DEF TypeInv, SentForATask, At, Active
    <3>3. row'[req[q].task] = row[req[q].task]
      BY <1>2, <3>1, <3>2
    <3> QED BY <1>2, <2>1, <3>3 DEF ResumeInv, At, Connected
  <2>3. CASE req[q].pc \notin Active
    <3>1. req[q].pc \in {"unsent", "ok", "error"}
      BY <2>3 DEF Active, TypeInv, TypeOK, Reqs
    <3> QED BY <2>1, <3>1 DEF ResumeInv, At
  <2> QED BY <2>2, <2>3
<1>9. ASSUME NEW u \in Tasks, row'[u].status = "awaiting_hitl", ~ InFlight(u)',
             \A q \in Requests : At(q, "error")' => req'[q].task # u
      PROVE  CanDecide(u)' /\ u \in live' /\ cp'[u] \in Interrupts
  <2>1. u # t
    <3> SUFFICES ASSUME u = t
                 PROVE  FALSE
      OBVIOUS
    <3>1. req'[r].pc \in {"unsent", "ok", "error"}
      BY <1>1, <1>9 DEF InFlight
    <3>2. req'[r].pc # "error" /\ req'[r].pc # "ok"
      BY <1>1, <1>7, <1>9 DEF At
    <3>3. req'[r].pc # "unsent"
      BY RequestIsSent
    <3> QED BY <3>1, <3>2, <3>3
  <2>2. row'[u] = row[u] /\ cp'[u] = cp[u] /\ (u \in live' <=> u \in live)
    BY <1>2, <2>1
  <2>3. ASSUME NEW q \in Requests, req[q].task = u
        PROVE  req[q].pc \in {"unsent", "ok"}
    <3>1. req'[q] = req[q]
      BY <1>1, <2>1, <2>3
    <3> QED BY <1>9, <2>3, <3>1 DEF InFlight, At
  <2>4. ~ InFlight(u) /\ \A q \in Requests : At(q, "error") => req[q].task # u
    BY <2>3 DEF InFlight, At
  <2>5. CanDecide(u) /\ u \in live /\ cp[u] \in Interrupts
    BY <1>9, <2>2, <2>4 DEF AwaitingInv, AwaitingCanBeDecided
  <2> QED BY <2>2, <2>5 DEF CanDecide
<1>10. AwaitingCanBeDecided'
  BY <1>9 DEF AwaitingCanBeDecided
<1> QED BY <1>4, <1>5, <1>6, <1>7, <1>8, <1>10 DEF AwaitingInv

-----------------------------------------------------------------------------
(* run_task, new tasks and new requests. *)

\* A step of run_task touches no other task and keeps its store.
LEMMA RunStepFrame ==
    ASSUME TypeInv, NEW t \in Tasks, RunStep(t)
    PROVE  /\ run'[t].store = run[t].store
           /\ \A u \in Tasks : u # t =>
                 /\ run'[u] = run[u] /\ row'[u] = row[u] /\ cp'[u] = cp[u]
                 /\ u \in live' <=> u \in live
<1>1. (\E s : RunGoes(t, s))
      \/ \E o : run' = [run EXCEPT ![t] = [run[t] EXCEPT !.pc = "recording", !.end = o]]
  BY DEF RunStep, RunStarts, Provision, RunPauses, RunEnds, RunRaises, RunRecords,
         RunFinishes, RunFails, RunNotes, RunQuery
<1>2. \/ row' = row
      \/ \E s : SetStatus(t, s)
      \/ \E s, d : FinishTask(t, s, d)
  BY DEF RunStep, RunStarts, Provision, RunPauses, RunEnds, RunRaises, RunRecords,
         RunFinishes, RunFails, RunNotes
<1>3. cp' = cp \/ \E p : cp' = [cp EXCEPT ![t] = p]
  BY DEF RunStep, RunStarts, Provision, RunPauses, RunEnds, RunRaises, RunRecords,
         RunFinishes, RunFails, RunNotes, memory
<1>4. live' \in {live, live \cup {t}, live \ {t}}
  BY DEF RunStep, RunStarts, Provision, RunPauses, RunEnds, RunRaises, RunRecords,
         RunFinishes, RunFails, RunNotes, memory
<1>5. run[t] \in Runs
  BY DEF TypeInv, TypeOK
<1>6. ASSUME NEW s, RunGoes(t, s)
      PROVE  run'[t].store = run[t].store
  <2>1. run'[t] = [run[t] EXCEPT !.pc = s]
    BY <1>6 DEF RunGoes, TypeInv, TypeOK
  <2> QED BY <1>5, <2>1 DEF Runs
<1>7. ASSUME NEW o,
             run' = [run EXCEPT ![t] = [run[t] EXCEPT !.pc = "recording", !.end = o]]
      PROVE  /\ run'[t].store = run[t].store
             /\ \A u \in Tasks : u # t => run'[u] = run[u]
  <2>1. run'[t] = [run[t] EXCEPT !.pc = "recording", !.end = o]
    BY <1>7 DEF TypeInv, TypeOK
  <2> QED BY <1>5, <1>7, <2>1 DEF Runs, TypeInv, TypeOK
<1>8. /\ run'[t].store = run[t].store
      /\ \A u \in Tasks : u # t => run'[u] = run[u]
  BY <1>1, <1>6, <1>7, RunGoesField
<1>9. \A u \in Tasks : u # t => row'[u] = row[u]
  BY <1>2, StatusRow, FinishRow
<1>10. \A u \in Tasks : u # t => cp'[u] = cp[u]
  BY <1>3 DEF TypeInv, TypeOK
<1> QED BY <1>4, <1>8, <1>9, <1>10

\* Where a step of run_task leaves its own task.
LEMMA RunKeepsPauseInv ==
    ASSUME ~ BeforeWriteOps, TypeInv, RejectionInv, NEW t \in Tasks, PauseInv(t),
           cp[t] \notin {"pre_commit", "ask_pr"}, RunStep(t)
    PROVE  /\ PauseInv(t)'
           /\ cp'[t] \notin {"pre_commit", "ask_pr"}
           /\ row'[t].status = "awaiting_hitl" =>
                 CanDecide(t)' /\ t \in live' /\ cp'[t] \in Interrupts
<1>1. ~ Quiet(t) /\ row[t].decision = "none" /\ row[t].status # "awaiting_hitl"
  <2>1. ~ Quiet(t)
    BY DEF RunStep, RunStarts, Provision, RunPauses, RunEnds, RunRaises, RunRecords,
           RunFinishes, RunFails, RunNotes, RunIs, Quiet
  <2> QED BY <2>1 DEF PauseInv, RejectionInv, TaskInv
\* Steps that neither pause nor finish.
<1>a. ASSUME row' = row, cp' = cp, NEW s, s # "graph", RunGoes(t, s)
      PROVE  /\ PauseInv(t)'
             /\ cp'[t] \notin {"pre_commit", "ask_pr"}
             /\ row'[t].status # "awaiting_hitl"
  <2>1. run'[t].pc = s
    BY <1>a, RunGoesField
  <2> QED BY <1>1, <1>a, <2>1 DEF PauseInv, RunIs
<1>b. ASSUME NEW w \in {"running", "completed", "failed"}, FinishTask(t, w, "none"),
             cp' = cp, NEW s, s # "graph", RunGoes(t, s)
      PROVE  /\ PauseInv(t)'
             /\ cp'[t] \notin {"pre_commit", "ask_pr"}
             /\ row'[t].status # "awaiting_hitl"
  <2>1. run'[t].pc = s
    BY <1>b, RunGoesField
  <2>2. row'[t].status = w /\ row'[t].decision = "none"
    BY <1>b, FinishRow
  <2> QED BY <1>b, <2>1, <2>2 DEF PauseInv, RunIs
<1>2. CASE RunStarts(t)
  BY <1>2, <1>a DEF RunStarts, RunQuery, memory
<1>3. CASE Provision(t)
  <2>1. row' = row /\ cp' = cp
    BY <1>3 DEF Provision
  <2>2. CASE live' = live \cup {t} /\ RunGoes(t, "graph")
    BY <1>1, <2>1, <2>2 DEF PauseInv
  <2>3. CASE RunGoes(t, "failing") \/ RunGoes(t, "dead")
    BY <1>a, <2>1, <2>3
  <2> QED BY <1>3, <2>2, <2>3 DEF Provision
<1>4. CASE RunPauses(t)
  <2>1. /\ RunIs(t, "graph") /\ SetStatus(t, "awaiting_hitl") /\ live' = live
        /\ RunGoes(t, "paused")
        /\ \E p \in {"pre_pr", "escalation"} : cp' = [cp EXCEPT ![t] = p]
    BY <1>4 DEF RunPauses, FirstCheckpoint
  <2>2. t \in live'
    BY <2>1 DEF PauseInv
  <2>3. cp'[t] \in {"pre_pr", "escalation"}
    BY <2>1 DEF TypeInv, TypeOK
  <2>4. row'[t].status = "awaiting_hitl" /\ row'[t].decision = "none"
    BY <1>1, <2>1, StatusRow
  <2>5. run'[t].pc = "paused"
    BY <2>1, RunGoesField
  <2> QED BY <2>2, <2>3, <2>4, <2>5 DEF PauseInv, RunIs, CanDecide, Interrupts
<1>5. CASE RunEnds(t)
  <2>1. PICK o : run' = [run EXCEPT ![t] = [run[t] EXCEPT !.pc = "recording", !.end = o]]
    BY <1>5 DEF RunEnds
  <2>2. row' = row /\ cp' = cp
    BY <1>5 DEF RunEnds
  <2>3. run[t] \in Runs /\ run'[t] = [run[t] EXCEPT !.pc = "recording", !.end = o]
    BY <2>1 DEF TypeInv, TypeOK
  <2>4. run'[t].pc = "recording"
    BY <2>3 DEF Runs
  <2> QED BY <1>1, <2>2, <2>4 DEF PauseInv, RunIs
<1>6. CASE RunRaises(t)
  BY <1>6, <1>a DEF RunRaises
<1>7. CASE RunRecords(t)
  BY <1>7, <1>a DEF RunRecords, memory
<1>8. CASE RunFinishes(t)
  <2>1. \E s \in {"done", "dead"} : RunGoes(t, s)
    BY <1>8 DEF RunFinishes, RunQuery
  <2>2. StatusOf(run[t].end) \in {"running", "failed", "completed"}
    BY DEF StatusOf
  <2> QED BY <1>8, <1>a, <1>b, <2>1, <2>2 DEF RunFinishes, memory
<1>9. CASE RunFails(t)
  <2>1. \E s \in {"noting", "dead"} : RunGoes(t, s)
    BY <1>9 DEF RunFails, RunQuery
  <2> QED BY <1>9, <1>a, <1>b, <2>1 DEF RunFails, memory
<1>10. CASE RunNotes(t)
  BY <1>10, <1>a DEF RunNotes, RunQuery, memory
<1> QED
  BY <1>2, <1>3, <1>4, <1>5, <1>6, <1>7, <1>8, <1>9, <1>10 DEF RunStep

\* The parts about requests do not depend on a task without a decision under way.
LEMMA OtherResumeInv ==
    ASSUME TypeInv, RejectionInv, AwaitingInv, NEW t \in Tasks, ~ Quiet(t),
           req' = req,
           \A n \in Nat : n <= api /\ n \in open' => n \in open,
           \A u \in Tasks : u # t => run'[u] = run[u] /\ row'[u] = row[u],
           NEW q \in Requests
    PROVE  /\ ResumeInv(q)'
           /\ req'[q].pc \in Active => run'[req'[q].task] = run[req[q].task]
<1>1. ResumeInv(q)
  BY DEF AwaitingInv
<1>2. CASE req[q].pc \in Active
  <2>1. req[q].task \in Tasks /\ Quiet(req[q].task)
    BY <1>2 DEF TypeInv, SentForATask, At, Active, RejectionInv, DecisionInv
  <2>2. run'[req[q].task] = run[req[q].task] /\ row'[req[q].task] = row[req[q].task]
    BY <2>1
  <2>3. req[q].store \in Nat /\ req[q].store <= api
    BY DEF TypeInv, TypeOK, Reqs, AwaitingInv, StoreInv
  <2>4. ~ Connected(q) => ~ Connected(q)'
    BY <2>3 DEF Connected
  <2> QED BY <1>1, <2>2, <2>4 DEF ResumeInv, At
<1>3. CASE req[q].pc \notin Active
  <2>1. req[q].pc \in {"unsent", "ok", "error"}
    BY <1>3 DEF Active, TypeInv, TypeOK, Reqs
  <2> QED BY <1>3, <2>1 DEF ResumeInv, At
<1> QED BY <1>2, <1>3

LEMMA RunStepKeepsAwaiting ==
    ASSUME ~ BeforeWriteOps, TypeInv, RejectionInv, AwaitingInv, NEW t \in Tasks,
           RunStep(t)
    PROVE  AwaitingInv'
<1>1. req' = req /\ api' = api /\ open' = open
  BY RunFrame
<1>2. ~ Quiet(t)
  BY DEF RunStep, RunStarts, Provision, RunPauses, RunEnds, RunRaises, RunRecords,
         RunFinishes, RunFails, RunNotes, RunIs, Quiet
<1>3. /\ run'[t].store = run[t].store
      /\ \A u \in Tasks : u # t =>
            /\ run'[u] = run[u] /\ row'[u] = row[u] /\ cp'[u] = cp[u]
            /\ u \in live' <=> u \in live
  BY RunStepFrame
<1>4. PauseInv(t) /\ cp[t] \notin {"pre_commit", "ask_pr"}
  BY DEF AwaitingInv, PositionInv
<1>5. /\ PauseInv(t)'
      /\ cp'[t] \notin {"pre_commit", "ask_pr"}
      /\ row'[t].status = "awaiting_hitl" =>
            CanDecide(t)' /\ t \in live' /\ cp'[t] \in Interrupts
  BY <1>4, RunKeepsPauseInv
<1>6. ASSUME NEW u \in Tasks
      PROVE  PauseInv(u)'
  <2>1. CASE u = t
    BY <1>5, <2>1
  <2>2. CASE u # t
    BY <1>3, <2>2 DEF AwaitingInv, PauseInv, RunIs, Quiet
  <2> QED BY <2>1, <2>2
<1>7. PositionInv'
  BY <1>1, <1>3, <1>5 DEF AwaitingInv, PositionInv
<1>8. ASSUME NEW q \in Requests
      PROVE  /\ ResumeInv(q)'
             /\ req'[q].pc \in Active => run'[req'[q].task] = run[req[q].task]
  BY <1>1, <1>2, <1>3, OtherResumeInv
<1>9. StoreInv'
  <2>1. open' \subseteq {api'}
    BY <1>1 DEF AwaitingInv, StoreInv
  <2>2. \A u \in Tasks : run'[u].store <= api'
    BY <1>1, <1>3 DEF AwaitingInv, StoreInv
  <2> QED BY <1>1, <1>8, <2>1, <2>2 DEF AwaitingInv, StoreInv
<1>10. ASSUME NEW u \in Tasks, row'[u].status = "awaiting_hitl", ~ InFlight(u)',
              \A q \in Requests : At(q, "error")' => req'[q].task # u
       PROVE  CanDecide(u)' /\ u \in live' /\ cp'[u] \in Interrupts
  <2>1. CASE u = t
    BY <1>5, <1>10, <2>1
  <2>2. CASE u # t
    <3>1. ~ InFlight(u) /\ \A q \in Requests : At(q, "error") => req[q].task # u
      BY <1>1, <1>10 DEF InFlight, At
    <3>2. row[u].status = "awaiting_hitl"
      BY <1>3, <1>10, <2>2
    <3>3. CanDecide(u) /\ u \in live /\ cp[u] \in Interrupts
      BY <3>1, <3>2 DEF AwaitingInv, AwaitingCanBeDecided
    <3> QED BY <1>3, <2>2, <3>3 DEF CanDecide
  <2> QED BY <2>1, <2>2
<1>11. AwaitingCanBeDecided'
  BY <1>10 DEF AwaitingCanBeDecided
<1> QED BY <1>6, <1>7, <1>8, <1>9, <1>11 DEF AwaitingInv

\* get_store keeps the open store or makes one younger than all others.
LEMMA StoreUsed ==
    ASSUME TypeInv, StoreInv, UseApiStore
    PROVE  /\ ApiStore \in Nat /\ api' = ApiStore /\ api <= ApiStore
           /\ open' \subseteq {api'}
           /\ \A n \in Nat : n <= api /\ n \in open' => n \in open
<1>1. api \in Nat
  BY DEF TypeInv, TypeOK
<1>2. CASE api \in open
  BY <1>1, <1>2 DEF UseApiStore, ApiStore, StoreInv
<1>3. CASE api \notin open
  <2>1. api' = api + 1 /\ open' = {api + 1} /\ ApiStore = api + 1
    BY <1>3 DEF UseApiStore, ApiStore, StoreInv
  <2> QED BY <1>1, <2>1
<1> QED BY <1>2, <1>3

LEMMA CreateKeepsAwaiting ==
    ASSUME TypeInv, RejectionInv, AwaitingInv, NEW t \in Tasks, Create(t),
           row[t].decision = "none"
    PROVE  AwaitingInv'
<1>1. /\ req' = req /\ live' = live /\ cp' = cp /\ row[t].status = "absent"
      /\ SetStatus(t, "running") /\ UseApiStore
      /\ run' = [run EXCEPT ![t] = [run[t] EXCEPT !.pc = "starting",
                                                  !.store = ApiStore]]
  BY DEF Create
<1>2. ~ Quiet(t)
  BY <1>1 DEF RejectionInv, TaskInv, RunIs, Quiet
<1>3. /\ row'[t].status = "running" /\ row'[t].decision = "none"
      /\ \A u \in Tasks : u # t => row'[u] = row[u]
  BY <1>1, StatusRow
<1>4. run[t] \in Runs
      /\ run'[t] = [run[t] EXCEPT !.pc = "starting", !.store = ApiStore]
  BY <1>1 DEF TypeInv, TypeOK
<1>5. /\ run'[t].pc = "starting" /\ run'[t].store = ApiStore
      /\ \A u \in Tasks : u # t => run'[u] = run[u]
  BY <1>1, <1>4 DEF Runs, TypeInv, TypeOK
<1>6. /\ ApiStore \in Nat /\ api' = ApiStore /\ api <= ApiStore
      /\ open' \subseteq {api'}
      /\ \A n \in Nat : n <= api /\ n \in open' => n \in open
  BY <1>1, StoreUsed DEF AwaitingInv
<1>7. ASSUME NEW q \in Requests
      PROVE  /\ ResumeInv(q)'
             /\ req'[q].pc \in Active => run'[req'[q].task] = run[req[q].task]
  BY <1>1, <1>2, <1>3, <1>5, <1>6, OtherResumeInv
<1>8. StoreInv'
  <2>1. api \in Nat
    BY DEF TypeInv, TypeOK
  <2>2. ASSUME NEW u \in Tasks
        PROVE  run'[u].store <= api'
    <3>1. run[u].store \in Nat
      BY DEF TypeInv, TypeOK, Runs
    <3>2. CASE u = t
      BY <1>5, <1>6, <3>2
    <3>3. CASE u # t
      <4>1. run'[u] = run[u] /\ run[u].store <= api
        BY <1>5, <3>3 DEF AwaitingInv, StoreInv
      <4> QED BY <1>6, <2>1, <3>1, <4>1
    <3> QED BY <3>2, <3>3
  <2>3. ASSUME NEW q \in Requests
        PROVE  /\ req'[q].store <= api'
               /\ req'[q].pc \in Active => run'[req'[q].task].store <= req'[q].store
    <3>1. req[q].store \in Nat /\ req[q].store <= api
      BY DEF TypeInv, TypeOK, Reqs, AwaitingInv, StoreInv
    <3>2. req'[q].store <= api'
      BY <1>1, <1>6, <2>1, <3>1
    <3>3. req[q].pc \in Active => run[req[q].task].store <= req[q].store
      BY DEF AwaitingInv, StoreInv
    <3> QED BY <1>1, <1>7, <3>2, <3>3
  <2> QED BY <1>6, <2>2, <2>3 DEF StoreInv
<1>9. PositionInv'
  BY <1>1 DEF AwaitingInv, PositionInv
<1>10. ASSUME NEW u \in Tasks
       PROVE  PauseInv(u)'
  <2>1. CASE u = t
    BY <1>3, <1>5, <2>1 DEF PauseInv, RunIs
  <2>2. CASE u # t
    BY <1>1, <1>3, <1>5, <2>2 DEF AwaitingInv, PauseInv, RunIs, Quiet
  <2> QED BY <2>1, <2>2
<1>11. ASSUME NEW u \in Tasks, row'[u].status = "awaiting_hitl", ~ InFlight(u)',
              \A q \in Requests : At(q, "error")' => req'[q].task # u
       PROVE  CanDecide(u)' /\ u \in live' /\ cp'[u] \in Interrupts
  <2>1. row'[u] = row[u]
    BY <1>3, <1>11
  <2>2. ~ InFlight(u) /\ \A q \in Requests : At(q, "error") => req[q].task # u
    BY <1>1, <1>11 DEF InFlight, At
  <2>3. CanDecide(u) /\ u \in live /\ cp[u] \in Interrupts
    BY <1>11, <2>1, <2>2 DEF AwaitingInv, AwaitingCanBeDecided
  <2> QED BY <1>1, <2>1, <2>3 DEF CanDecide
<1>12. AwaitingCanBeDecided'
  BY <1>11 DEF AwaitingCanBeDecided
<1> QED BY <1>7, <1>8, <1>9, <1>10, <1>12 DEF AwaitingInv

LEMMA AskKeepsAwaiting ==
    ASSUME TypeInv, RejectionInv, AwaitingInv, NEW r \in Requests, NEW t \in Tasks,
           NEW kind \in {"approve", "reject"}, Ask(r, t, kind)
    PROVE  AwaitingInv'
<1>1. /\ UNCHANGED <<row, run, live, cp>> /\ UseApiStore /\ CanDecide(t)
      /\ req[r].pc = "unsent"
  BY DEF Ask, At
<1>2. /\ \A q \in Requests : q # r => req'[q] = req[q]
      /\ req'[r].pc \in {"approving", "rejecting"} /\ req'[r].task = t
      /\ req'[r].at = "none"
  BY AskFields
<1>3. req'[r].store = ApiStore
  BY DEF Ask, TypeInv, TypeOK
<1>4. /\ ApiStore \in Nat /\ api' = ApiStore /\ api <= ApiStore
      /\ open' \subseteq {api'}
      /\ \A n \in Nat : n <= api /\ n \in open' => n \in open
  BY <1>1, StoreUsed DEF AwaitingInv
<1>5. api \in Nat /\ \A u \in Tasks : run[u].store \in Nat /\ run[u].store <= api
  BY DEF TypeInv, TypeOK, Runs, AwaitingInv, StoreInv
<1>6. ASSUME NEW q \in Requests
      PROVE  /\ req'[q].store <= api'
             /\ req'[q].pc \in Active => run'[req'[q].task].store <= req'[q].store
  <2>1. CASE q = r
    BY <1>1, <1>2, <1>3, <1>4, <1>5, <2>1
  <2>2. CASE q # r
    <3>1. req[q].store \in Nat /\ req[q].store <= api
          /\ (req[q].pc \in Active => run[req[q].task].store <= req[q].store)
      BY DEF TypeInv, TypeOK, Reqs, AwaitingInv, StoreInv
    <3>2. req'[q] = req[q]
      BY <1>2, <2>2
    <3> QED BY <1>1, <1>4, <1>5, <3>1, <3>2
  <2> QED BY <2>1, <2>2
<1>7. StoreInv'
  <2>1. \A u \in Tasks : run'[u].store <= api'
    BY <1>1, <1>4, <1>5
  <2> QED BY <1>4, <1>6, <2>1 DEF StoreInv
<1>8. PositionInv'
  <2>1. \A q \in Requests : req'[q].at \notin {"pre_commit", "ask_pr"}
    BY <1>2 DEF AwaitingInv, PositionInv
  <2> QED BY <1>1, <2>1 DEF AwaitingInv, PositionInv
<1>9. \A u \in Tasks : PauseInv(u)'
  BY <1>1 DEF AwaitingInv, PauseInv, RunIs, Quiet
<1>10. ASSUME NEW q \in Requests
       PROVE  ResumeInv(q)'
  <2>1. CASE q = r
    BY <1>2, <2>1 DEF ResumeInv, At
  <2>2. CASE q # r
    <3>1. req'[q] = req[q] /\ ResumeInv(q)
      BY <1>2, <2>2 DEF AwaitingInv
    <3>2. req[q].store \in Nat /\ req[q].store <= api
      BY DEF TypeInv, TypeOK, Reqs, AwaitingInv, StoreInv
    <3>3. ~ Connected(q) => ~ Connected(q)'
      BY <1>4, <3>1, <3>2 DEF Connected
    <3> QED BY <1>1, <3>1, <3>3 DEF ResumeInv, At
  <2> QED BY <2>1, <2>2
<1>11. ASSUME NEW u \in Tasks, row'[u].status = "awaiting_hitl", ~ InFlight(u)',
              \A q \in Requests : At(q, "error")' => req'[q].task # u
       PROVE  CanDecide(u)' /\ u \in live' /\ cp'[u] \in Interrupts
  <2>1. u # t
    BY <1>2, <1>11 DEF InFlight
  <2>2. ASSUME NEW q \in Requests, req[q].task = u
        PROVE  req[q].pc \in {"unsent", "ok"}
    <3>1. CASE q = r
      BY <1>1, <3>1
    <3>2. CASE q # r
      BY <1>2, <1>11, <2>2, <3>2 DEF InFlight, At
    <3> QED BY <3>1, <3>2
  <2>3. ~ InFlight(u) /\ \A q \in Requests : At(q, "error") => req[q].task # u
    BY <2>2 DEF InFlight, At
  <2>4. CanDecide(u) /\ u \in live /\ cp[u] \in Interrupts
    BY <1>1, <1>11, <2>3 DEF AwaitingInv, AwaitingCanBeDecided
  <2> QED BY <1>1, <2>4 DEF CanDecide
<1>12. AwaitingCanBeDecided'
  BY <1>11 DEF AwaitingCanBeDecided
<1> QED BY <1>7, <1>8, <1>9, <1>10, <1>12 DEF AwaitingInv

\* Where clients are patient, the graph has one checkpoint and the back end is not
\* restarted, a row that awaits a decision can be decided and its graph resumed,
\* whatever other tasks and their decisions do to the shared store.
THEOREM AwaitingIsDecidable ==
    ASSUME PatientClients, ~ BeforeWriteOps, MaxRestarts = 0
    PROVE  Spec => []AwaitingCanBeDecided
<1> DEFINE Fresh == \A t \in Tasks : row[t].status = "absent" => row[t].decision = "none"
<1>1. ASSUME Init PROVE AwaitingInv
  <2>1. /\ \A r \in Requests : /\ req[r].pc = "unsent" /\ req[r].at = "none"
                               /\ req[r].store = 0
        /\ \A t \in Tasks : /\ row[t].status = "absent" /\ row[t].decision = "none"
                            /\ run[t].pc = "none" /\ run[t].store = 0
                            /\ cp[t] = "none"
        /\ api = 0 /\ open = {}
    BY <1>1 DEF Init
  <2>2. AwaitingCanBeDecided /\ PositionInv
    BY <2>1 DEF AwaitingCanBeDecided, PositionInv
  <2>3. StoreInv
    BY <2>1 DEF StoreInv, Active
  <2>4. \A t \in Tasks : PauseInv(t)
    BY <2>1 DEF PauseInv, RunIs
  <2>5. \A r \in Requests : ResumeInv(r)
    BY <2>1 DEF ResumeInv, At
  <2> QED BY <2>2, <2>3, <2>4, <2>5 DEF AwaitingInv
<1>2. AwaitingInv /\ RejectionInv => Fresh
  BY DEF AwaitingInv, PauseInv, RejectionInv, TaskInv, RunIs, Quiet
<1>3. TypeInv /\ TypeInv' /\ RejectionInv /\ AwaitingInv /\ [Next]_vars => AwaitingInv'
  <2> SUFFICES ASSUME TypeInv, TypeInv', RejectionInv, AwaitingInv, [Next]_vars
               PROVE  AwaitingInv'
    OBVIOUS
  <2>1. CASE UNCHANGED vars
    <3>1. UNCHANGED <<row, api, open, live, cp, run, req>>
      BY <2>1 DEF vars, memory
    <3> QED
      BY <3>1 DEF AwaitingInv, AwaitingCanBeDecided, PositionInv, StoreInv, PauseInv,
                  ResumeInv, InFlight, At, RunIs, Quiet, CanDecide, Connected
  <2>2. ASSUME NEW t \in Tasks, Create(t)
        PROVE  AwaitingInv'
    <3>1. row[t].status = "absent"
      BY <2>2 DEF Create
    <3> QED BY <1>2, <2>2, <3>1, CreateKeepsAwaiting
  <2>3. ASSUME NEW t \in Tasks, RunStep(t)
        PROVE  AwaitingInv'
    BY <2>3, RunStepKeepsAwaiting
  <2>4. ASSUME NEW r \in Requests, RequestStep(r)
        PROVE  AwaitingInv'
    BY <2>4, RequestKeepsAwaiting
  <2>5. ASSUME NEW r \in Requests, NEW t \in Tasks,
               NEW kind \in {"approve", "reject"}, Ask(r, t, kind)
        PROVE  AwaitingInv'
    BY <2>5, AskKeepsAwaiting
  <2>6. ~ Restart
    <3>1. restarts \in Nat
      BY DEF TypeInv, TypeOK
    <3> QED BY <3>1 DEF Restart
  <2> QED BY <2>1, <2>2, <2>3, <2>4, <2>5, <2>6 DEF Next
<1>4. AwaitingInv => AwaitingCanBeDecided
  BY DEF AwaitingInv
<1> QED
  BY <1>1, <1>3, <1>4, Typed, DecisionsKeepOrder, PTL DEF Spec

=============================================================================
