---------------------------- MODULE RunAcpProofs ----------------------------
(***************************************************************************)
(* Proofs about RunAcp, for every set of tasks, agents and processes, and  *)
(* any bounds.                                                             *)
(***************************************************************************)
EXTENDS RunAcp, TeamBoardProofs

-----------------------------------------------------------------------------
(* The inductive invariant.                                                *)

\* Before its attempt is on the board, and from then on.
Early == {"source", "check_source", "count", "assign", "record"}
Late == {"mark", "bind"} \cup Monitored \cup Concluding

\* Where a process is says which command it runs, on which task, and with
\* which number.
InPlace(p) ==
  /\ (pc[p] = "idle") = (job[p] = NoTask)
  /\ job[p] # NoTask => Exists(job[p])
  /\ pc[p] \in {"source", "check_source"} => from[p] # NoTask
  /\ pc[p] \in {"source", "check_source", "bind"} => how[p] = "continue"
  /\ pc[p] \in {"repair", "answered", "cancelling", "stopped", "bind_cancelled",
                "cancel_attempt"} => how[p] = "run"
  /\ flag[p] => how[p] = "run" /\ pc[p] # "idle"
  /\ pc[p] \in Early => Len(runs[job[p]]) < MaxAttempts
  /\ pc[p] \in {"assign", "record"} => num[p] = NextAttempt(job[p])

\* The state of the session, where it can be told.
SessionOf(p) ==
  CASE pc[p] \in {"mark", "bind"} \/ (pc[p] = "connect" /\ how[p] = "run") -> {"none"}
    [] pc[p] = "commit" -> {"completed"}
    [] pc[p] = "cancel_attempt" -> {"cancelled"}
    [] pc[p] \in {"fail_attempt", "fail_status"} -> {"none", "running"}
    [] OTHER -> {"running"}

\* The row and the session of the attempt a process has recorded.
Owns(p) ==
  pc[p] \in Late =>
    /\ num[p] \in 1 .. Len(runs[job[p]])
    /\ runs[job[p]][num[p]].agent = AgentOf[p]
    /\ runs[job[p]][num[p]].status = IF pc[p] = "fail_status" THEN "failed" ELSE "running"
    /\ bindings[job[p]][num[p]].state \in SessionOf(p)

\* Two commands on one task: one is numbered before the other starts.
Apart(p, q) ==
  /\ pc[p] \in Early => pc[q] \notin Early
  /\ pc[p] \in Late /\ pc[q] \in Late => num[p] # num[q]

Results(t, i) == {j \in 1 .. Len(outputs[t]) : outputs[t][j] = i}

\* The records of an attempt.
RowAgrees(t, i) ==
  LET session == bindings[t][i] row == runs[t][i]
  IN  /\ row.attempt = i
      /\ row.status \in {"running", "succeeded", "failed", "cancelled"}
      /\ row.status = "succeeded" =>
           session.state = "completed" /\ \E j \in Results(t, i) : Results(t, i) = {j}
      /\ row.status = "cancelled" => session.state = "cancelled"
      /\ row.status # "succeeded" => Results(t, i) = {}
      /\ session.state = "interrupted" => row.status = "failed"
      /\ session.state # "none" => session.agent = row.agent

\* The rows of a task, and that nothing is recorded ahead of them.
TaskAgrees(t) ==
  /\ Len(runs[t]) <= MaxAttempts
  /\ \A i \in 1 .. Len(runs[t]) : RowAgrees(t, i)
  /\ \A k \in Number : k > Len(runs[t]) => bindings[t][k] = NoBinding
  /\ \A j \in 1 .. Len(outputs[t]) : outputs[t][j] \in 1 .. Len(runs[t])
  /\ status[t] = "succeeded" => AttemptsIn(t, "succeeded") # {}

\* All of it: the commands and the board agree, whatever has been killed,
\* cancelled, reassigned or recovered meanwhile.
IInv ==
  /\ TypeOK
  /\ \A p \in Proc : InPlace(p) /\ Owns(p)
  /\ \A p, q \in Proc : p # q /\ job[p] # NoTask /\ job[p] = job[q] => Apart(p, q)
  /\ \A t \in Task : TaskAgrees(t)

-----------------------------------------------------------------------------
(* Types.                                                                  *)

\* A binding that is written is well typed, and says what was written.
LEMMA BindType ==
  ASSUME TypeOK, NEW t \in Task, NEW k \in Number, NEW a \in Agent,
         NEW s \in {"running", "completed", "cancelled", "interrupted"}, Bind(t, k, a, s)
  PROVE  /\ bindings' \in [Task -> [Number -> Binding]]
         /\ bindings'[t][k].state = s
         /\ bindings'[t][k].agent = IF bindings[t][k] = NoBinding THEN a ELSE bindings[t][k].agent
         /\ \A j \in Number \ {k} : bindings'[t][j] = bindings[t][j]
         /\ \A u \in Task \ {t} : bindings'[u] = bindings[u]
<1> DEFINE new == [agent |-> IF bindings[t][k] = NoBinding THEN a ELSE bindings[t][k].agent,
                   state |-> s]
<1>1. bindings \in [Task -> [Number -> Binding]] /\ bindings[t][k] \in Binding
  BY DEF TypeOK
<1>2. new \in Binding
  BY <1>1 DEF Binding, NoBinding
<1>3. bindings' = [bindings EXCEPT ![t] = [bindings[t] EXCEPT ![k] = new]]
  BY DEF Bind
<1>. QED
  BY <1>1, <1>2, <1>3

\* Only NoBinding has no state.
LEMMA StateOfBinding ==
  ASSUME TypeOK, NEW t \in Task, NEW k \in Number
  PROVE  /\ bindings[t][k].state = "none" => bindings[t][k] = NoBinding
         /\ bindings[t][k] = NoBinding => bindings[t][k].state = "none"
         /\ bindings[t][k].state # "none" => bindings[t][k].agent \in Agent
         /\ bindings[t][k] = [agent |-> bindings[t][k].agent, state |-> bindings[t][k].state]
BY DEF TypeOK, Binding, NoBinding

\* Every step keeps the types; the number of an attempt stays within Number
\* because no command starts at a task whose numbers are used up.
LEMMA NextTyped ==
  ASSUME IInv, [Next]_vars
  PROVE  TypeOK'
<1> USE DEF TypeOK, Number, Preparing, Monitored, Prompted, Concluding
<1>0. TypeOK
  BY DEF IInv
<1>a. \A t \in Task : Len(runs[t]) \in 0 .. MaxAttempts
  BY <1>0, AcpBoundsAssumption DEF IInv, TaskAgrees, BoardTypeOK
<1>b. \A p \in Proc : InPlace(p) /\ Owns(p) /\ AgentOf[p] \in Agent
  BY AgentOfAssumption DEF IInv
<1>c. UNCHANGED boardVars => BoardTypeOK'
  BY <1>0 DEF BoardTypeOK, boardVars
<1>d. UNCHANGED bindings => (bindings \in [Task -> [Number -> Binding]])'
  BY <1>0
<1>e. \A p \in Proc : pc[p] # "idle" => job[p] \in Task
  BY <1>0, <1>b DEF InPlace
<1>f. \A p \in Proc : pc[p] \in Late => num[p] \in Number /\ num[p] \in Nat
  BY <1>0, <1>a, <1>b, <1>e DEF Owns, Late
<1>1. ASSUME NEW p \in Proc, NEW t \in Task,
             StartRun(p, t) \/ \E s \in Task : StartContinue(p, t, s)
      PROVE  TypeOK'
  <2>1. CASE StartRun(p, t)
    BY <1>0, <1>c, <1>d, <2>1 DEF StartRun, Goto
  <2>2. ASSUME NEW s \in Task, StartContinue(p, t, s) PROVE TypeOK'
    BY <1>0, <1>c, <1>d, <2>2 DEF StartContinue, Goto
  <2>. QED
    BY <1>1, <2>1, <2>2
<1>2. ASSUME NEW p \in Proc, CountSource(p) \/ CheckSource(p) PROVE TypeOK'
  <2>1. Len(runs[from[p]]) \in 0 .. MaxAttempts
    BY <1>2, <1>0, <1>a, <1>b DEF CountSource, CheckSource, InPlace
  <2>2. CASE CountSource(p)
    BY <1>0, <1>c, <1>d, <2>1, <2>2 DEF CountSource, Goto
  <2>3. CASE CheckSource(p)
    <3>1. CASE End(p)
      BY <1>0, <1>c, <1>d, <2>3, <3>1, AcpBoundsAssumption DEF CheckSource, End
    <3>2. CASE ~ End(p)
      <4>1. /\ Goto(p, "count") /\ from' = [from EXCEPT ![p] = NoTask]
            /\ num' = [num EXCEPT ![p] = 0]
            /\ UNCHANGED <<boardVars, bindings, job, how, flag, kills, ops>>
        BY <2>3, <3>2 DEF CheckSource
      <4>. QED
        BY <1>0, <1>c, <1>d, <4>1, AcpBoundsAssumption DEF Goto
    <3>. QED
      BY <3>1, <3>2
  <2>. QED
    BY <1>2, <2>2, <2>3
<1>3. ASSUME NEW p \in Proc, CountAttempts(p) PROVE TypeOK'
  <2>1. job[p] \in Task /\ Len(runs[job[p]]) < MaxAttempts
    BY <1>3, <1>b, <1>e DEF CountAttempts, InPlace, Early
  <2>2. NextAttempt(job[p]) \in 0 .. MaxAttempts
    BY <1>a, <2>1, AcpBoundsAssumption DEF NextAttempt
  <2>. QED
    BY <1>3, <1>0, <1>c, <1>d, <2>2 DEF CountAttempts, Goto
<1>4. ASSUME NEW p \in Proc, AssignAgent(p) PROVE TypeOK'
  <2>1. BoardTypeOK'
    BY <1>4, <1>0, <1>b, <1>e, AssignType DEF AssignAgent, Step
  <2>. QED
    BY <1>4, <1>0, <1>d, <2>1 DEF AssignAgent, Step, Goto, Assign
<1>5. ASSUME NEW p \in Proc, RecordRunning(p) PROVE TypeOK'
  <2>0. num[p] \in Nat /\ job[p] \in Task /\ AgentOf[p] \in Agent /\ "running" \in TaskStatus
    BY <1>5, <1>0, <1>b, <1>e DEF RecordRunning, Step, TaskStatus
  <2>1. BoardTypeOK'
    BY <1>5, <1>0, <2>0, RecordAttemptType DEF RecordRunning
  <2>. QED
    BY <1>5, <1>0, <1>d, <2>1 DEF RecordRunning, Step, Goto, RecordAttempt
<1>6. ASSUME NEW p \in Proc, MarkRunning(p) PROVE TypeOK'
  <2>1. BoardTypeOK'
    BY <1>6, <1>0, <1>e, SetStatusType DEF MarkRunning, Step, TaskStatus
  <2>. QED
    BY <1>6, <1>0, <1>d, <2>1 DEF MarkRunning, Step, Goto, SetStatus
<1>7. ASSUME NEW p \in Proc,
             BindSource(p) \/ StartSession(p) \/ BindCompleted(p) \/ BindCancelled(p)
      PROVE  TypeOK'
  <2>1. (bindings \in [Task -> [Number -> Binding]])'
    BY <1>7, <1>0, <1>b, <1>e, <1>f, BindType
    DEF BindSource, StartSession, SessionStarted, BindCompleted, BindCancelled, Step, Late
  <2>. QED
    BY <1>7, <1>0, <1>c, <2>1 DEF BindSource, StartSession, BindCompleted, BindCancelled, Step, Goto
<1>8. ASSUME NEW p \in Proc,
             \/ RunNotConfigured(p) \/ ContinueNotConfigured(p) \/ ResumeSession(p)
             \/ Answer(p) \/ ContinueAnswers(p) \/ AnswerBadly(p) \/ NoticeCancellation(p)
             \/ StopCancelled(p) \/ SessionFails(p) \/ ContinueFails(p)
      PROVE  TypeOK'
  <2>1. CASE ContinueNotConfigured(p)
    BY <1>0, <1>c, <1>d, <2>1, AcpBoundsAssumption DEF ContinueNotConfigured, End
  <2>2. CASE ~ ContinueNotConfigured(p)
    <3>1. /\ UNCHANGED <<boardVars, bindings, job, how, from, num, flag, kills, ops>>
          /\ \E l \in Monitored \cup Concluding : Goto(p, l)
      BY <1>8, <2>2
      DEF RunNotConfigured, ResumeSession, Answer, ContinueAnswers, AnswerBadly,
          NoticeCancellation, StopCancelled, SessionFails, ContinueFails, Step
    <3>. QED
      BY <1>0, <1>c, <1>d, <3>1 DEF Goto
  <2>. QED
    BY <2>1, <2>2
<1>9. ASSUME NEW p \in Proc, CheckCancelled(p) \/ CheckStopped(p) \/ Poll(p) PROVE TypeOK'
  BY <1>9, <1>0, <1>c, <1>d DEF CheckCancelled, CheckStopped, Poll, Step, Goto
<1>10. ASSUME NEW p \in Proc, Commit(p) PROVE TypeOK'
  <2>1. BoardTypeOK'
    BY <1>10, <1>0, <1>e, <1>f, CommitSuccessfulResultType DEF Commit, Late
  <2>. QED
    BY <1>10, <1>0, <1>d, <2>1, AcpBoundsAssumption DEF Commit, End
<1>11. ASSUME NEW p \in Proc, CancelAttempt(p) PROVE TypeOK'
  <2>1. BoardTypeOK'
    BY <1>11, <1>0, <1>e, CompleteAttemptType DEF CancelAttempt, TaskStatus
  <2>. QED
    BY <1>11, <1>0, <1>d, <2>1, AcpBoundsAssumption DEF CancelAttempt, End
<1>12. ASSUME NEW p \in Proc, FailAttempt(p) PROVE TypeOK'
  <2>1. BoardTypeOK'
    BY <1>12, <1>0, <1>e, CompleteAttemptType DEF FailAttempt, Step, TaskStatus
  <2>. QED
    BY <1>12, <1>0, <1>d, <2>1 DEF FailAttempt, Step, Goto
<1>13. ASSUME NEW p \in Proc, FailStatus(p) PROVE TypeOK'
  <2>1. BoardTypeOK'
    BY <1>13, <1>0, <1>e, SetStatusType DEF FailStatus, TaskStatus
  <2>. QED
    BY <1>13, <1>0, <1>d, <2>1, AcpBoundsAssumption DEF FailStatus, End
<1>14. ASSUME NEW p \in Proc, Die(p) PROVE TypeOK'
  BY <1>14, <1>0, <1>c, <1>d, AcpBoundsAssumption DEF Die, End
<1>15. ASSUME NEW t \in Task, Submit(t) \/ Cancel(t) \/ Resume(t) PROVE TypeOK'
  <2>1. BoardTypeOK'
    BY <1>15, <1>0, CreateTaskType, SetStatusType DEF Submit, Cancel, Resume, TaskStatus
  <2>. QED
    BY <1>15, <1>0, <1>d, <2>1, AcpBoundsAssumption
    DEF Submit, Cancel, Resume, Operate, procVars, CreateTask, SetStatus
<1>16. ASSUME NEW t \in Task, NEW a \in Agent, Override(t, a) PROVE TypeOK'
  <2>1. BoardTypeOK'
    BY <1>16, <1>0, AssignType DEF Override
  <2>. QED
    BY <1>16, <1>0, <1>d, <2>1, AcpBoundsAssumption DEF Override, Operate, procVars
<1>17. ASSUME NEW t \in Task, Recover(t) PROVE TypeOK'
  <2> DEFINE closed == {runs[t][i].attempt :
                          i \in {j \in AttemptsIn(t, "running") : runs'[t][j].status = "failed"}}
             new == [k \in Number |->
                       IF k \in closed /\ bindings[t][k].state = "running"
                       THEN [bindings[t][k] EXCEPT !.state = "interrupted"] ELSE bindings[t][k]]
  <2>1. BoardTypeOK'
    BY <1>17, <1>0, RecoverType DEF Recover
  <2>2. bindings' = [bindings EXCEPT ![t] = new]
    BY <1>17 DEF Recover
  <2> HIDE DEF closed
  <2>3. ASSUME NEW k \in Number PROVE new[k] \in Binding
    <3>1. bindings[t][k] \in Binding
      BY <1>0
    <3>2. bindings[t][k].state = "running" =>
            [bindings[t][k] EXCEPT !.state = "interrupted"] \in Binding
      BY <3>1 DEF Binding, NoBinding
    <3>. QED
      BY <3>1, <3>2
  <2>4. (bindings \in [Task -> [Number -> Binding]])'
    BY <1>0, <2>2, <2>3
  <2>. QED
    BY <1>17, <1>0, <2>1, <2>4, AcpBoundsAssumption DEF Recover, Operate, procVars
<1>18. CASE UNCHANGED vars
  BY <1>18, <1>0, <1>c, <1>d DEF vars, procVars
<1>. QED
  BY <1>1, <1>2, <1>3, <1>4, <1>5, <1>6, <1>7, <1>8, <1>9, <1>10, <1>11, <1>12, <1>13, <1>14,
     <1>15, <1>16, <1>17, <1>18 DEF Next, Proceed

-----------------------------------------------------------------------------
(* Frames: a step concerns at most one task and the processes in movers.   *)

\* A task none of whose records change.
LEMMA TaskFrame ==
  ASSUME NEW t \in Task, TaskAgrees(t), runs'[t] = runs[t], outputs'[t] = outputs[t],
         bindings'[t] = bindings[t], status'[t] = "succeeded" => status[t] = "succeeded"
  PROVE  TaskAgrees(t)'
<1>1. \A i : Results(t, i)' = Results(t, i)
  BY DEF Results
<1>2. \A i \in 1 .. Len(runs[t]) : RowAgrees(t, i)'
  BY <1>1 DEF TaskAgrees, RowAgrees
<1>3. AttemptsIn(t, "succeeded")' = AttemptsIn(t, "succeeded")
  BY DEF AttemptsIn
<1>. QED
  BY <1>2, <1>3 DEF TaskAgrees

\* A process that does not move, of a task that still exists, whose length it
\* has not read, and of which its own row and session are left alone.
LEMMA ProcFrame ==
  ASSUME NEW q \in Proc, InPlace(q), Owns(q),
         pc'[q] = pc[q], job'[q] = job[q], how'[q] = how[q], from'[q] = from[q],
         num'[q] = num[q], flag'[q] = flag[q],
         job[q] # NoTask =>
           /\ Exists(job[q])'
           /\ pc[q] \in Early => Len(runs'[job[q]]) = Len(runs[job[q]])
           /\ pc[q] \in Late =>
                /\ num[q] \in 1 .. Len(runs'[job[q]])
                /\ runs'[job[q]][num[q]] = runs[job[q]][num[q]]
                /\ bindings'[job[q]][num[q]] = bindings[job[q]][num[q]]
  PROVE  (InPlace(q) /\ Owns(q))'
<1>1. InPlace(q)'
  BY DEF InPlace, Early, NextAttempt
<1>2. pc[q] \in Late => job[q] # NoTask
  BY DEF InPlace, Late, Monitored, Prompted, Concluding
<1>3. Owns(q)'
  BY <1>2 DEF Owns, SessionOf
<1>. QED
  BY <1>1, <1>3

LEMMA StepFrame ==
  ASSUME IInv, TypeOK', NEW movers \in SUBSET Proc, NEW t \in Task,
         \A q \in Proc \ movers :
           /\ pc'[q] = pc[q] /\ job'[q] = job[q] /\ how'[q] = how[q] /\ from'[q] = from[q]
           /\ num'[q] = num[q] /\ flag'[q] = flag[q],
         \A u \in Task \ {t} :
           /\ status'[u] = status[u] /\ runs'[u] = runs[u] /\ outputs'[u] = outputs[u]
           /\ bindings'[u] = bindings[u],
         Exists(t) => Exists(t)',
         \A q \in Proc \ movers : job[q] = t =>
           /\ pc[q] \in Early => Len(runs'[t]) = Len(runs[t])
           /\ pc[q] \in Late =>
                /\ num[q] \in 1 .. Len(runs'[t])
                /\ runs'[t][num[q]] = runs[t][num[q]]
                /\ bindings'[t][num[q]] = bindings[t][num[q]],
         \A p \in movers :
           /\ (InPlace(p) /\ Owns(p))'
           /\ \A q \in Proc \ {p} :
                job'[p] # NoTask /\ job'[p] = job'[q] => Apart(p, q)' /\ Apart(q, p)',
         TaskAgrees(t)'
  PROVE  IInv'
<1>1. \A p, q \in Proc : p # q /\ job[p] # NoTask /\ job[p] = job[q] => Apart(p, q)
  BY DEF IInv
<1>2. ASSUME NEW u \in Task PROVE TaskAgrees(u)'
  <2>1. CASE u = t
    BY <2>1
  <2>2. CASE u # t
    BY <2>2, TaskFrame DEF IInv
  <2>. QED
    BY <2>1, <2>2
<1>3. ASSUME NEW q \in Proc PROVE (InPlace(q) /\ Owns(q))'
  <2>1. CASE q \in movers
    BY <2>1
  <2>2. CASE q \notin movers
    <3>1. InPlace(q) /\ Owns(q) /\ job[q] \in Task \cup {NoTask}
      BY DEF IInv, TypeOK
    <3>2. pc[q] \in Late => job[q] # NoTask
      BY <3>1 DEF InPlace, Late, Monitored, Prompted, Concluding
    <3>3. CASE job[q] = t
      BY <2>2, <3>1, <3>2, <3>3, ProcFrame DEF InPlace
    <3>4. CASE job[q] # t
      <4>1. job[q] # NoTask => Exists(job[q])' /\ runs'[job[q]] = runs[job[q]]
                               /\ bindings'[job[q]] = bindings[job[q]]
        BY <2>2, <3>1, <3>4 DEF InPlace, Exists
      <4>. QED
        BY <2>2, <3>1, <3>2, <4>1, ProcFrame DEF Owns
    <3>. QED
      BY <3>3, <3>4
  <2>. QED
    BY <2>1, <2>2
<1>4. ASSUME NEW p \in Proc, NEW q \in Proc, p # q, job'[p] # NoTask, job'[p] = job'[q]
      PROVE  Apart(p, q)'
  <2>1. CASE p \in movers \/ q \in movers
    BY <1>4, <2>1
  <2>2. CASE p \notin movers /\ q \notin movers
    <3>1. Apart(p, q)
      BY <1>1, <1>4, <2>2
    <3>. QED
      BY <2>2, <3>1 DEF Apart
  <2>. QED
    BY <2>1, <2>2
<1>. QED
  BY <1>2, <1>3, <1>4 DEF IInv

\* A step of p that writes nothing.
LEMMA LocalFrame ==
  ASSUME IInv, TypeOK', NEW p \in Proc, job[p] # NoTask \/ job'[p] # NoTask,
         UNCHANGED <<status, runs, outputs, bindings>>,
         \A q \in Proc \ {p} :
           /\ pc'[q] = pc[q] /\ job'[q] = job[q] /\ how'[q] = how[q] /\ from'[q] = from[q]
           /\ num'[q] = num[q] /\ flag'[q] = flag[q],
         (InPlace(p) /\ Owns(p))',
         \A q \in Proc \ {p} :
           job'[p] # NoTask /\ job'[p] = job[q] => Apart(p, q)' /\ Apart(q, p)'
  PROVE  IInv'
<1>1. PICK t \in Task : t = job[p] \/ t = job'[p]
  BY DEF IInv, TypeOK
<1>2. TaskAgrees(t)'
  BY TaskFrame DEF IInv
<1>3. \A q \in Proc : pc[q] \in Late => num[q] \in 1 .. Len(runs[job[q]])
  BY DEF IInv, Owns
<1> DEFINE movers == {p}
<1>4. /\ movers \in SUBSET Proc
      /\ \A q \in Proc \ movers :
           /\ q \in Proc \ {p}
           /\ job[q] = t /\ pc[q] \in Late => num[q] \in 1 .. Len(runs'[t])
  BY <1>3
<1>5. \A q \in Proc \ {p} : job'[p] # NoTask /\ job'[p] = job'[q] =>
                               Apart(p, q)' /\ Apart(q, p)'
  OBVIOUS
<1>6. \A r \in movers :
        /\ (InPlace(r) /\ Owns(r))'
        /\ \A q \in Proc \ {r} :
             job'[r] # NoTask /\ job'[r] = job'[q] => Apart(r, q)' /\ Apart(q, r)'
  BY <1>5
<1>7. Exists(t) => Exists(t)'
  BY DEF Exists
<1> HIDE DEF movers
<1>. QED
  BY <1>2, <1>4, <1>6, <1>7, StepFrame

-----------------------------------------------------------------------------
(* Steps that write nothing.                                               *)

\* A command that ends leaves the board as it is.
LEMMA Leave ==
  ASSUME IInv, TypeOK', NEW p \in Proc, pc[p] # "idle", End(p), UNCHANGED <<boardVars, bindings>>
  PROVE  IInv'
<1>0. TypeOK /\ InPlace(p) /\ job[p] # NoTask
  BY DEF IInv, InPlace
<1>1. pc'[p] = "idle" /\ job'[p] = NoTask /\ ~ flag'[p]
  BY <1>0 DEF End, TypeOK
<1>2. (InPlace(p) /\ Owns(p))'
  BY <1>1 DEF InPlace, Owns, Early, Late, Monitored, Prompted, Concluding
<1>3. \A q \in Proc \ {p} :
        /\ pc'[q] = pc[q] /\ job'[q] = job[q] /\ how'[q] = how[q] /\ from'[q] = from[q]
        /\ num'[q] = num[q] /\ flag'[q] = flag[q]
  BY <1>0 DEF End, TypeOK
<1>. QED
  BY <1>0, <1>1, <1>2, <1>3, LocalFrame DEF boardVars

\* A command that has recorded its attempt goes on with it.
LEMMA Advance ==
  ASSUME IInv, TypeOK', NEW p \in Proc, NEW l \in Late \ {"fail_status"},
         pc[p] \in Late \ {"fail_status"}, Goto(p, l),
         UNCHANGED <<boardVars, bindings, job, how, from, num>>,
         flag' \in {flag, [flag EXCEPT ![p] = TRUE]}, flag'[p] => how[p] = "run",
         l = "bind" => how[p] = "continue",
         l \in {"repair", "answered", "cancelling", "stopped", "bind_cancelled",
                "cancel_attempt"} => how[p] = "run",
         SessionOf(p) \subseteq SessionOf(p)'
  PROVE  IInv'
<1>0. TypeOK /\ InPlace(p) /\ Owns(p) /\ job[p] # NoTask
  BY DEF IInv, InPlace, Late, Monitored, Prompted, Concluding
<1>1. /\ pc'[p] = l
      /\ \A q \in Proc \ {p} : pc'[q] = pc[q] /\ flag'[q] = flag[q]
  BY <1>0 DEF Goto, TypeOK
<1>2. (InPlace(p) /\ Owns(p))'
  <2>1. InPlace(p)'
    BY <1>0, <1>1 DEF InPlace, Exists, Early, Late, Monitored, Prompted, Concluding, boardVars
  <2>2. Owns(p)'
    BY <1>0, <1>1 DEF Owns, boardVars
  <2>. QED
    BY <2>1, <2>2
<1>3. ASSUME NEW q \in Proc \ {p}, job[p] = job[q] PROVE Apart(p, q)' /\ Apart(q, p)'
  <2>1. Apart(p, q) /\ Apart(q, p)
    BY <1>0, <1>3 DEF IInv
  <2>2. l \notin Early
    BY DEF Early, Late, Monitored, Prompted, Concluding
  <2>. QED
    BY <1>1, <2>1, <2>2 DEF Apart
<1>. QED
  BY <1>0, <1>1, <1>2, <1>3, LocalFrame DEF boardVars

\* The steps that move a command on, or see a cancellation, by themselves.
LEMMA Advances ==
  ASSUME IInv, TypeOK', NEW p \in Proc,
         \/ RunNotConfigured(p) \/ ResumeSession(p) \/ Answer(p) \/ ContinueAnswers(p)
         \/ AnswerBadly(p) \/ NoticeCancellation(p) \/ StopCancelled(p) \/ SessionFails(p)
         \/ ContinueFails(p) \/ CheckCancelled(p) \/ CheckStopped(p) \/ Poll(p)
  PROVE  IInv'
<1> USE DEF Late, Monitored, Prompted, Concluding
<1>0. TypeOK /\ InPlace(p) /\ flag[p] \in BOOLEAN
  BY DEF IInv, TypeOK
<1> DEFINE Goes(l) ==
      /\ Goto(p, l) /\ UNCHANGED <<boardVars, bindings, job, how, from, num>>
      /\ flag' \in {flag, [flag EXCEPT ![p] = TRUE]} /\ (flag'[p] => how[p] = "run")
      /\ SessionOf(p) \subseteq SessionOf(p)'
<1>1. CASE RunNotConfigured(p) \/ SessionFails(p) \/ ContinueFails(p)
  <2>1. Goes("fail_attempt") /\ pc[p] \in Late \ {"fail_status"}
    BY <1>0, <1>1
    DEF RunNotConfigured, SessionFails, ContinueFails, Step, Goto, SessionOf, InPlace, TypeOK
  <2>. QED
    BY <2>1, Advance
<1>2. CASE ResumeSession(p)
  <2>1. Goes("turn") /\ pc[p] \in Late \ {"fail_status"}
    BY <1>0, <1>2 DEF ResumeSession, Step, Goto, SessionOf, InPlace, TypeOK
  <2>. QED
    BY <2>1, Advance
<1>3. CASE Answer(p)
  <2>1. Goes("answered") /\ pc[p] \in Late \ {"fail_status"} /\ how[p] = "run"
    BY <1>0, <1>3 DEF Answer, Step, Goto, SessionOf, InPlace, TypeOK
  <2>. QED
    BY <2>1, Advance
<1>4. CASE ContinueAnswers(p)
  <2>1. Goes("bind_completed") /\ pc[p] \in Late \ {"fail_status"}
    BY <1>0, <1>4 DEF ContinueAnswers, Step, Goto, SessionOf, InPlace, TypeOK
  <2>. QED
    BY <2>1, Advance
<1>5. CASE AnswerBadly(p)
  <2>1. Goes("repair") /\ pc[p] \in Late \ {"fail_status"} /\ how[p] = "run"
    BY <1>0, <1>5 DEF AnswerBadly, Step, Goto, SessionOf, InPlace, TypeOK
  <2>. QED
    BY <2>1, Advance
<1>6. CASE NoticeCancellation(p)
  <2>1. Goes("cancelling") /\ pc[p] \in Late \ {"fail_status"} /\ how[p] = "run"
    BY <1>0, <1>6 DEF NoticeCancellation, Step, Goto, SessionOf, InPlace, TypeOK
  <2>. QED
    BY <2>1, Advance
<1>7. CASE StopCancelled(p)
  <2>1. Goes("stopped") /\ pc[p] \in Late \ {"fail_status"} /\ how[p] = "run"
    BY <1>0, <1>7 DEF StopCancelled, Step, Goto, SessionOf, InPlace, TypeOK
  <2>. QED
    BY <2>1, Advance
<1>8. CASE CheckCancelled(p) \/ CheckStopped(p)
  <2>1. /\ Goes("bind_cancelled") \/ Goes("bind_completed") \/ Goes("fail_attempt")
        /\ pc[p] \in Late \ {"fail_status"} /\ how[p] = "run"
    BY <1>0, <1>8 DEF CheckCancelled, CheckStopped, Step, Goto, SessionOf, InPlace, TypeOK
  <2>. QED
    BY <2>1, Advance
<1>9. CASE Poll(p)
  <2>1. Goes(pc[p]) /\ pc[p] \in Monitored /\ how[p] = "run"
    BY <1>0, <1>9 DEF Poll, Goto, SessionOf, InPlace, TypeOK
  <2>. QED
    BY <1>0, <2>1, Advance DEF InPlace
<1>. QED
  BY <1>1, <1>2, <1>3, <1>4, <1>5, <1>6, <1>7, <1>8, <1>9

\* The steps of a command that has not recorded its attempt yet.  Undisturbed
\* keeps them apart: one command on a task at a time takes a number.
LEMMA Prepares ==
  ASSUME IInv, TypeOK', NEW p \in Proc,
         \/ \E t \in Task : StartRun(p, t) \/ \E s \in Task : StartContinue(p, t, s)
         \/ CountSource(p) \/ CheckSource(p) \/ CountAttempts(p)
  PROVE  IInv'
<1> USE DEF Early
<1>0. TypeOK /\ InPlace(p) /\ \A q \in Proc \ {p} : InPlace(q)
  BY DEF IInv
<1>a. \A q \in Proc : pc[q] \in Late => job[q] # NoTask
  BY DEF IInv, InPlace, Late, Monitored, Prompted, Concluding
<1>1. ASSUME NEW t \in Task, NEW s \in Task, StartRun(p, t) \/ StartContinue(p, t, s)
      PROVE  IInv'
  <2>1. /\ pc[p] = "idle" /\ pc'[p] \in {"count", "source"} /\ job'[p] = t
        /\ pc'[p] = "source" => how'[p] = "continue" /\ from'[p] = s
        /\ ~ flag'[p] /\ Exists(t) /\ Len(runs[t]) < MaxAttempts /\ Undisturbed(t)
        /\ UNCHANGED <<boardVars, bindings>>
    BY <1>0, <1>1 DEF StartRun, StartContinue, Startable, Goto, TypeOK, InPlace
  <2>2. \A q \in Proc \ {p} :
          /\ pc'[q] = pc[q] /\ job'[q] = job[q] /\ how'[q] = how[q] /\ from'[q] = from[q]
          /\ num'[q] = num[q] /\ flag'[q] = flag[q]
    BY <1>0, <1>1 DEF StartRun, StartContinue, Goto, TypeOK
  <2>3. (InPlace(p) /\ Owns(p))'
    BY <1>0, <2>1, NoTaskAssumption
    DEF InPlace, Owns, Late, Monitored, Prompted, Concluding, Exists, boardVars
  <2>4. ASSUME NEW q \in Proc \ {p}, job[q] = t PROVE Apart(p, q)' /\ Apart(q, p)'
    <3>1. pc[q] \notin Early /\ pc'[p] \notin Late
      BY <2>1, <2>4 DEF Undisturbed, Late, Monitored, Prompted, Concluding
    <3>. QED
      BY <2>2, <3>1 DEF Apart
  <2>. QED
    BY <2>1, <2>2, <2>3, <2>4, LocalFrame, NoTaskAssumption DEF boardVars
<1>2. ASSUME pc[p] \in Early, pc'[p] \in Early, job'[p] = job[p],
             UNCHANGED <<boardVars, bindings>>, InPlace(p)',
             \A q \in Proc \ {p} :
               /\ pc'[q] = pc[q] /\ job'[q] = job[q] /\ how'[q] = how[q] /\ from'[q] = from[q]
               /\ num'[q] = num[q] /\ flag'[q] = flag[q]
      PROVE  IInv'
  <2>1. Owns(p)' /\ pc'[p] \notin Late
    BY <1>2 DEF Owns, Late, Monitored, Prompted, Concluding
  <2>2. job[p] # NoTask
    BY <1>0, <1>2 DEF InPlace
  <2>3. ASSUME NEW q \in Proc \ {p}, job[p] = job[q] PROVE Apart(p, q)' /\ Apart(q, p)'
    <3>1. Apart(p, q) /\ Apart(q, p)
      BY <2>2, <2>3 DEF IInv
    <3>. QED
      BY <1>2, <2>1, <3>1 DEF Apart
  <2>. QED
    BY <1>2, <2>1, <2>2, <2>3, LocalFrame DEF boardVars
<1>3. CASE CountSource(p)
  <2>1. InPlace(p)'
    BY <1>0, <1>3 DEF CountSource, Goto, InPlace, TypeOK, Exists, boardVars
  <2>. QED
    BY <1>0, <1>2, <1>3, <2>1 DEF CountSource, Goto, TypeOK
<1>4. CASE CheckSource(p)
  <2>1. CASE End(p)
    BY <1>4, <2>1, Leave DEF CheckSource
  <2>2. CASE ~ End(p)
    <3>1. /\ pc[p] = "check_source" /\ Goto(p, "count") /\ from' = [from EXCEPT ![p] = NoTask]
          /\ num' = [num EXCEPT ![p] = 0]
          /\ UNCHANGED <<boardVars, bindings, job, how, flag, kills, ops>>
      BY <1>4, <2>2 DEF CheckSource
    <3>2. InPlace(p)'
      BY <1>0, <3>1 DEF Goto, InPlace, TypeOK, Exists, boardVars
    <3>. QED
      BY <1>0, <1>2, <3>1, <3>2 DEF Goto, TypeOK
  <2>. QED
    BY <2>1, <2>2
<1>5. CASE CountAttempts(p)
  <2>1. InPlace(p)'
    BY <1>0, <1>5 DEF CountAttempts, Goto, InPlace, TypeOK, Exists, boardVars, NextAttempt
  <2>. QED
    BY <1>0, <1>2, <1>5, <2>1 DEF CountAttempts, Goto, TypeOK
<1>6. CASE \E t \in Task : StartRun(p, t)
  BY <1>1, <1>6
<1>7. CASE \E t \in Task : \E s \in Task : StartContinue(p, t, s)
  BY <1>1, <1>7
<1>. QED
  BY <1>3, <1>4, <1>5, <1>6, <1>7

-----------------------------------------------------------------------------
(* Steps that write.                                                       *)

\* Every settled attempt keeps its row and its session.
Final ==
  \A t \in Task : \A i \in 1 .. Len(runs[t]) : SettledRow(t, i) =>
    /\ runs'[t][i] = runs[t][i]
    /\ bindings'[t][i] = bindings[t][i]

\* A write by p of records that are not the rows or sessions of another
\* command: p keeps its task, or ends.
LEMMA WriteFrame ==
  ASSUME IInv, TypeOK', NEW p \in Proc, NEW t \in Task, job[p] = t, job'[p] \in {t, NoTask},
         \A q \in Proc \ {p} :
           /\ pc'[q] = pc[q] /\ job'[q] = job[q] /\ how'[q] = how[q] /\ from'[q] = from[q]
           /\ num'[q] = num[q] /\ flag'[q] = flag[q],
         \A u \in Task \ {t} :
           /\ status'[u] = status[u] /\ runs'[u] = runs[u] /\ outputs'[u] = outputs[u]
           /\ bindings'[u] = bindings[u],
         Exists(t)',
         pc[p] \in Early \/ Len(runs'[t]) = Len(runs[t]),
         Len(runs'[t]) >= Len(runs[t]),
         \A i \in 1 .. Len(runs[t]) : ~ (pc[p] \in Late /\ i = num[p]) =>
           runs'[t][i] = runs[t][i] /\ bindings'[t][i] = bindings[t][i],
         (InPlace(p) /\ Owns(p))',
         job'[p] # NoTask =>
           /\ num'[p] = num[p]
           /\ pc'[p] \in Early => pc[p] \in Early
           /\ pc'[p] \in Late => pc[p] \in Late \/ num[p] = Len(runs[t]) + 1,
         TaskAgrees(t)'
  PROVE  IInv'
<1>0. TypeOK /\ t # NoTask /\ Len(runs[t]) \in Nat /\ Len(runs'[t]) \in Nat
  BY NoTaskAssumption DEF IInv, TypeOK, BoardTypeOK
<1>1. ASSUME NEW q \in Proc \ {p}, job[q] = t PROVE Apart(p, q) /\ Apart(q, p) /\ Owns(q)
  BY <1>0, <1>1 DEF IInv
<1>2. ASSUME NEW q \in Proc \ {p}, job[q] = t
      PROVE  /\ pc[q] \in Early => Len(runs'[t]) = Len(runs[t])
             /\ pc[q] \in Late =>
                  /\ num[q] \in 1 .. Len(runs'[t])
                  /\ runs'[t][num[q]] = runs[t][num[q]]
                  /\ bindings'[t][num[q]] = bindings[t][num[q]]
  <2>1. pc[q] \in Early => pc[p] \notin Early
    BY <1>1, <1>2 DEF Apart
  <2>2. pc[q] \in Late => num[q] \in 1 .. Len(runs[t]) /\ ~ (pc[p] \in Late /\ num[q] = num[p])
    BY <1>1, <1>2 DEF Apart, Owns
  <2>. QED
    BY <1>0, <2>1, <2>2
<1>3. ASSUME NEW q \in Proc \ {p}, job'[p] # NoTask, job'[p] = job'[q]
      PROVE  Apart(p, q)' /\ Apart(q, p)'
  <2>1. job[q] = t /\ job'[p] = t
    BY <1>3
  <2>2. pc[q] \in Late => num[q] \in 1 .. Len(runs[t])
    BY <1>1, <2>1 DEF Owns
  <2>3. Apart(p, q) /\ Apart(q, p)
    BY <1>1, <2>1
  <2>. QED
    BY <1>0, <1>3, <2>2, <2>3 DEF Apart
<1> DEFINE movers == {p}
<1>4. \A q \in Proc \ movers : q \in Proc \ {p}
  OBVIOUS
<1>5. movers \in SUBSET Proc /\ \A r \in movers :
        /\ (InPlace(r) /\ Owns(r))'
        /\ \A q \in Proc \ {r} :
             job'[r] # NoTask /\ job'[r] = job'[q] => Apart(r, q)' /\ Apart(q, r)'
  BY <1>3
<1> HIDE DEF movers
<1>. QED
  BY <1>0, <1>2, <1>4, <1>5, StepFrame

\* A session written for a running row, by the agent of the row.
LEMMA BindAgrees ==
  ASSUME IInv, NEW t \in Task, NEW k \in 1 .. Len(runs[t]), NEW a \in Agent,
         NEW s \in {"running", "completed", "cancelled"},
         runs[t][k].agent = a, runs[t][k].status = "running",
         Bind(t, k, a, s), UNCHANGED boardVars
  PROVE  /\ TaskAgrees(t)'
         /\ bindings'[t][k].state = s
         /\ \A i \in 1 .. Len(runs[t]) : i # k => bindings'[t][i] = bindings[t][i]
         /\ \A u \in Task \ {t} : bindings'[u] = bindings[u]
<1>0. TypeOK /\ TaskAgrees(t) /\ Len(runs[t]) \in Nat
  BY DEF IInv, TypeOK, BoardTypeOK
<1>a. 1 .. Len(runs[t]) \subseteq Number
  BY <1>0, AcpBoundsAssumption DEF TaskAgrees, Number
<1>1. /\ bindings'[t][k].state = s
      /\ bindings'[t][k].agent = IF bindings[t][k] = NoBinding THEN a ELSE bindings[t][k].agent
      /\ \A j \in Number \ {k} : bindings'[t][j] = bindings[t][j]
      /\ \A u \in Task \ {t} : bindings'[u] = bindings[u]
  BY <1>0, <1>a, BindType
<1>2. bindings[t][k].state = "none" <=> bindings[t][k] = NoBinding
  BY <1>0, <1>a, StateOfBinding
<1>3. \A i : Results(t, i)' = Results(t, i)
  BY DEF Results, boardVars
<1>4. ASSUME NEW i \in 1 .. Len(runs[t]) PROVE RowAgrees(t, i)'
  <2>1. CASE i = k
    BY <1>0, <1>1, <1>2, <1>3, <2>1 DEF TaskAgrees, RowAgrees, boardVars
  <2>2. CASE i # k
    <3>1. RowAgrees(t, i) /\ i \in Number \ {k}
      BY <1>0, <1>a, <2>2 DEF TaskAgrees
    <3>2. bindings'[t][i] = bindings[t][i] /\ runs'[t][i] = runs[t][i]
      BY <1>1, <3>1 DEF boardVars
    <3>. QED
      BY <1>3, <3>1, <3>2 DEF RowAgrees
  <2>. QED
    BY <2>1, <2>2
<1>5. AttemptsIn(t, "succeeded")' = AttemptsIn(t, "succeeded")
  BY DEF AttemptsIn, boardVars
<1>6. \A j \in Number : j > Len(runs[t]) => bindings'[t][j] = NoBinding
  BY <1>0, <1>1 DEF TaskAgrees, Number
<1>7. TaskAgrees(t)'
  BY <1>0, <1>4, <1>5, <1>6 DEF TaskAgrees, boardVars
<1>. QED
  BY <1>a, <1>1, <1>7

\* A new row, which is running, follows the others.
LEMMA RecordAgrees ==
  ASSUME IInv, NEW t \in Task, NEW a \in Agent, Len(runs[t]) < MaxAttempts,
         RecordAttempt(t, Len(runs[t]) + 1, a, "running"), UNCHANGED bindings
  PROVE  /\ TaskAgrees(t)'
         /\ Len(runs'[t]) = Len(runs[t]) + 1
         /\ \A i \in 1 .. Len(runs[t]) : runs'[t][i] = runs[t][i]
         /\ runs'[t][Len(runs[t]) + 1].agent = a
         /\ runs'[t][Len(runs[t]) + 1].status = "running"
         /\ bindings[t][Len(runs[t]) + 1].state = "none"
         /\ \A u \in Task \ {t} : runs'[u] = runs[u]
<1> DEFINE n == Len(runs[t])
           row == [attempt |-> n + 1, agent |-> a, status |-> "running"]
<1>0. TypeOK /\ TaskAgrees(t) /\ n \in Nat /\ runs[t] \in Seq(Attempt)
  BY DEF IInv, TypeOK, BoardTypeOK
<1>1. runs'[t] = Append(runs[t], row) /\ \A u \in Task \ {t} : runs'[u] = runs[u]
  BY <1>0 DEF RecordAttempt, TypeOK, BoardTypeOK
<1>2. /\ Len(runs'[t]) = n + 1 /\ runs'[t][n + 1] = row
      /\ \A i \in 1 .. n : runs'[t][i] = runs[t][i]
  BY <1>0, <1>1
<1>3. bindings[t][n + 1] = NoBinding
  BY <1>0, AcpBoundsAssumption DEF TaskAgrees, Number
<1>4. UNCHANGED <<status, outputs>> /\ \A i : Results(t, i)' = Results(t, i)
  BY DEF RecordAttempt, Results
<1>5. ASSUME NEW i \in 1 .. n + 1 PROVE RowAgrees(t, i)'
  <2>1. CASE i = n + 1
    <3>1. Results(t, i) = {}
      BY <1>0, <2>1 DEF TaskAgrees, Results
    <3>. QED
      BY <1>2, <1>3, <1>4, <2>1, <3>1 DEF RowAgrees, NoBinding
  <2>2. CASE i # n + 1
    <3>1. i \in 1 .. n
      BY <1>0, <2>2
    <3>2. RowAgrees(t, i) /\ runs'[t][i] = runs[t][i]
      BY <1>0, <1>2, <3>1 DEF TaskAgrees
    <3>. QED
      BY <1>4, <3>2 DEF RowAgrees
  <2>. QED
    BY <2>1, <2>2
<1>6. AttemptsIn(t, "succeeded") \subseteq AttemptsIn(t, "succeeded")'
  BY <1>0, <1>2 DEF AttemptsIn
<1>7. TaskAgrees(t)'
  <2>1. Len(runs'[t]) <= MaxAttempts
    BY <1>0, <1>2, AcpBoundsAssumption
  <2>2. \A k \in Number : k > n + 1 => bindings'[t][k] = NoBinding
    BY <1>0 DEF TaskAgrees, Number
  <2>3. \A j \in 1 .. Len(outputs[t]) : outputs[t][j] \in 1 .. n + 1
    BY <1>0 DEF TaskAgrees
  <2>. QED
    BY <1>0, <1>2, <1>4, <1>5, <1>6, <2>1, <2>2, <2>3 DEF TaskAgrees
<1>. QED
  BY <1>0, <1>1, <1>2, <1>3, <1>7 DEF NoBinding

\* A running row that is settled, with a result or without.
LEMMA SettleAgrees ==
  ASSUME IInv, NEW t \in Task, NEW k \in 1 .. Len(runs[t]),
         NEW s \in {"succeeded", "failed", "cancelled"},
         runs[t][k].status = "running",
         Len(runs'[t]) = Len(runs[t]),
         \A i \in 1 .. Len(runs[t]) : i # k => runs'[t][i] = runs[t][i],
         runs'[t][k] = [attempt |-> k, agent |-> runs[t][k].agent, status |-> s],
         outputs'[t] = IF s = "succeeded" THEN Append(outputs[t], k) ELSE outputs[t],
         status'[t] = "succeeded" => s = "succeeded" \/ status[t] = "succeeded",
         \A i \in Number : i = k \/ bindings'[t][i] = bindings[t][i],
         s = "succeeded" => bindings'[t][k].state = "completed",
         s = "cancelled" => bindings'[t][k].state = "cancelled",
         bindings'[t][k].state = "interrupted" => s = "failed",
         bindings'[t][k].state # "none" => bindings'[t][k].agent = runs[t][k].agent
  PROVE  TaskAgrees(t)'
<1>0. TypeOK /\ TaskAgrees(t) /\ Len(runs[t]) \in Nat /\ runs[t] \in Seq(Attempt)
  BY DEF IInv, TypeOK, BoardTypeOK
<1>b. 1 .. Len(runs[t]) \subseteq Number
  BY <1>0, AcpBoundsAssumption DEF TaskAgrees, Number
<1>2. /\ Len(runs'[t]) = Len(runs[t])
      /\ \A i \in 1 .. Len(runs[t]) : i # k => runs'[t][i] = runs[t][i]
      /\ runs'[t][k] = [attempt |-> k, agent |-> runs[t][k].agent, status |-> s]
  OBVIOUS
<1>3. outputs[t] \in Seq(Nat) /\ Len(outputs[t]) \in Nat /\ k \in Nat
  BY <1>0 DEF TypeOK, BoardTypeOK
<1>4. outputs'[t] = IF s = "succeeded" THEN Append(outputs[t], k) ELSE outputs[t]
  OBVIOUS
<1>5. Results(t, k) = {}
  BY <1>0 DEF TaskAgrees, RowAgrees
<1>6. Results(t, k)' = IF s = "succeeded" THEN {Len(outputs[t]) + 1} ELSE {}
  <2>1. CASE s = "succeeded"
    <3>1. /\ Len(outputs'[t]) = Len(outputs[t]) + 1 /\ outputs'[t][Len(outputs[t]) + 1] = k
          /\ \A j \in 1 .. Len(outputs[t]) : outputs'[t][j] = outputs[t][j]
      BY <1>3, <1>4, <2>1
    <3>2. \A j \in 1 .. Len(outputs[t]) + 1 : outputs'[t][j] = k <=> j = Len(outputs[t]) + 1
      <4>1. \A j \in 1 .. Len(outputs[t]) : outputs[t][j] # k
        BY <1>5 DEF Results
      <4>. QED
        BY <1>3, <3>1, <4>1
    <3>. QED
      BY <1>3, <2>1, <3>1, <3>2 DEF Results
  <2>2. CASE s # "succeeded"
    BY <1>4, <1>5, <2>2 DEF Results
  <2>. QED
    BY <2>1, <2>2
<1>7. ASSUME NEW i \in 1 .. Len(runs[t]), i # k PROVE Results(t, i)' = Results(t, i)
  <2>1. CASE s = "succeeded"
    <3>1. /\ Len(outputs'[t]) = Len(outputs[t]) + 1 /\ outputs'[t][Len(outputs[t]) + 1] = k
          /\ \A j \in 1 .. Len(outputs[t]) : outputs'[t][j] = outputs[t][j]
      BY <1>3, <1>4, <2>1
    <3>2. \A j \in 1 .. Len(outputs[t]) + 1 :
            outputs'[t][j] = i <=> j \in 1 .. Len(outputs[t]) /\ outputs[t][j] = i
      BY <1>3, <1>7, <3>1
    <3>. QED
      BY <1>3, <3>1, <3>2 DEF Results
  <2>2. CASE s # "succeeded"
    BY <1>4, <2>2 DEF Results
  <2>. QED
    BY <2>1, <2>2
<1>8. ASSUME NEW i \in 1 .. Len(runs[t]) PROVE RowAgrees(t, i)'
  <2>1. CASE i = k
    <3>1. s = "succeeded" => \E j \in Results(t, k)' : Results(t, k)' = {j}
      BY <1>6
    <3>2. s # "succeeded" => Results(t, k)' = {}
      BY <1>6
    <3>3. runs'[t][k].attempt = k /\ runs'[t][k].agent = runs[t][k].agent
          /\ runs'[t][k].status = s
      BY <1>2
    <3>. QED
      BY <2>1, <3>1, <3>2, <3>3 DEF RowAgrees
  <2>2. CASE i # k
    <3>1. RowAgrees(t, i) /\ runs'[t][i] = runs[t][i] /\ Results(t, i)' = Results(t, i)
      BY <1>0, <1>2, <1>7, <2>2 DEF TaskAgrees
    <3>2. bindings'[t][i] = bindings[t][i]
      BY <1>b, <2>2
    <3>. QED
      BY <3>1, <3>2 DEF RowAgrees
  <2>. QED
    BY <2>1, <2>2
<1>9. \A i \in AttemptsIn(t, "succeeded") : i \in AttemptsIn(t, "succeeded")'
  BY <1>2 DEF AttemptsIn
<1>10. s = "succeeded" => k \in AttemptsIn(t, "succeeded")'
  BY <1>2 DEF AttemptsIn
<1>11. \A i \in Number : i > Len(runs[t]) => bindings'[t][i] = NoBinding
  BY <1>0 DEF TaskAgrees
<1>12. \A j \in 1 .. Len(outputs'[t]) : outputs'[t][j] \in 1 .. Len(runs[t])
  BY <1>0, <1>3, <1>4 DEF TaskAgrees
<1>. QED
  BY <1>0, <1>2, <1>8, <1>9, <1>10, <1>11, <1>12 DEF TaskAgrees

\* What a step within a command changes, beside the board.
LEMMA StepMoves ==
  ASSUME TypeOK, NEW p \in Proc, NEW a, NEW b, Step(p, a, b)
  PROVE  /\ pc[p] = a /\ pc'[p] = b /\ UNCHANGED <<job, how, from, num, flag>>
         /\ \A q \in Proc \ {p} :
              /\ pc'[q] = pc[q] /\ job'[q] = job[q] /\ how'[q] = how[q] /\ from'[q] = from[q]
              /\ num'[q] = num[q] /\ flag'[q] = flag[q]
BY DEF Step, Goto, TypeOK

\* What the end of one changes.
LEMMA EndMoves ==
  ASSUME TypeOK, NEW p \in Proc, End(p)
  PROVE  /\ pc'[p] = "idle" /\ job'[p] = NoTask
         /\ (InPlace(p) /\ Owns(p))'
         /\ \A q \in Proc \ {p} :
              /\ pc'[q] = pc[q] /\ job'[q] = job[q] /\ how'[q] = how[q] /\ from'[q] = from[q]
              /\ num'[q] = num[q] /\ flag'[q] = flag[q]
<1>1. /\ pc'[p] = "idle" /\ job'[p] = NoTask /\ ~ flag'[p]
      /\ \A q \in Proc \ {p} :
           /\ pc'[q] = pc[q] /\ job'[q] = job[q] /\ how'[q] = how[q] /\ from'[q] = from[q]
           /\ num'[q] = num[q] /\ flag'[q] = flag[q]
  BY DEF End, TypeOK
<1>. QED
  BY <1>1 DEF InPlace, Owns, Early, Late, Monitored, Prompted, Concluding

\* The task of a command that is at work, and its attempt once it is recorded.
LEMMA AtWork ==
  ASSUME IInv, NEW p \in Proc, pc[p] # "idle"
  PROVE  /\ TypeOK /\ InPlace(p) /\ Owns(p) /\ AgentOf[p] \in Agent
         /\ job[p] \in Task /\ job[p] # NoTask /\ TaskAgrees(job[p])
         /\ Len(runs[job[p]]) \in 0 .. MaxAttempts
         /\ pc[p] \in Late =>
              num[p] \in 1 .. Len(runs[job[p]]) /\ num[p] \in Number
<1>1. TypeOK /\ InPlace(p) /\ Owns(p) /\ AgentOf[p] \in Agent
  BY AgentOfAssumption DEF IInv
<1>2. job[p] \in Task /\ job[p] # NoTask
  BY <1>1, NoTaskAssumption DEF InPlace, TypeOK
<1>3. TaskAgrees(job[p]) /\ Len(runs[job[p]]) \in 0 .. MaxAttempts
  BY <1>1, <1>2, AcpBoundsAssumption DEF IInv, TaskAgrees, TypeOK, BoardTypeOK
<1>. QED
  BY <1>1, <1>2, <1>3, AcpBoundsAssumption DEF Owns, Number

\* The agent is assigned, and the attempt is marked running: neither makes a
\* task succeeded.
LEMMA Marks ==
  ASSUME IInv, TypeOK', NEW p \in Proc, AssignAgent(p) \/ MarkRunning(p)
  PROVE  IInv'
<1> USE DEF Early, Late, Monitored, Prompted, Concluding
<1>1. pc[p] \in {"assign", "mark"}
  BY DEF AssignAgent, MarkRunning, Step
<1>2. PICK t \in Task : t = job[p]
  BY <1>1, AtWork
<1>3. /\ TypeOK /\ InPlace(p) /\ Owns(p) /\ TaskAgrees(t) /\ t # NoTask
      /\ Len(runs[t]) \in Nat
  BY <1>1, <1>2, AtWork
<1>4. /\ \/ pc[p] = "assign" /\ pc'[p] = "record"
         \/ pc[p] = "mark" /\ how[p] = "run" /\ pc'[p] = "connect"
         \/ pc[p] = "mark" /\ how[p] = "continue" /\ pc'[p] = "bind"
      /\ UNCHANGED <<job, how, from, num, flag>>
      /\ \A q \in Proc \ {p} :
           /\ pc'[q] = pc[q] /\ job'[q] = job[q] /\ how'[q] = how[q] /\ from'[q] = from[q]
           /\ num'[q] = num[q] /\ flag'[q] = flag[q]
  <2>1. CASE AssignAgent(p)
    <3>1. Step(p, "assign", "record")
      BY <2>1 DEF AssignAgent
    <3>. QED
      BY <1>3, <3>1, StepMoves
  <2>2. CASE MarkRunning(p)
    <3>1. PICK b : b = IF how[p] = "run" THEN "connect" ELSE "bind"
      OBVIOUS
    <3>2. Step(p, "mark", b)
      BY <2>2, <3>1 DEF MarkRunning
    <3>3. how[p] \in {"run", "continue"}
      BY <1>3 DEF TypeOK
    <3>. QED
      BY <1>3, <3>1, <3>2, <3>3, StepMoves
  <2>. QED
    BY <2>1, <2>2
<1>5. /\ UNCHANGED <<runs, outputs, bindings>> /\ Exists(t)' /\ status'[t] # "succeeded"
      /\ \A u \in Task \ {t} : status'[u] = status[u]
  BY <1>2, <1>3 DEF AssignAgent, MarkRunning, Assign, SetStatus, Exists, TypeOK, BoardTypeOK
<1>6. TaskAgrees(t)'
  BY <1>3, <1>5, TaskFrame
<1>7. (InPlace(p) /\ Owns(p))'
  BY <1>2, <1>3, <1>4, <1>5 DEF InPlace, Owns, SessionOf, NextAttempt
<1>. QED
  BY <1>2, <1>3, <1>4, <1>5, <1>6, <1>7, WriteFrame

\* The attempt gets its row.
LEMMA Records ==
  ASSUME IInv, TypeOK', NEW p \in Proc, RecordRunning(p)
  PROVE  IInv' /\ Final
<1> USE DEF Early, Late, Monitored, Prompted, Concluding
<1>1. pc[p] = "record"
  BY DEF RecordRunning, Step
<1>2. PICK t \in Task : t = job[p]
  BY <1>1, AtWork
<1>3. PICK a \in Agent : a = AgentOf[p]
  BY <1>1, AtWork
<1>4. /\ TypeOK /\ InPlace(p) /\ TaskAgrees(t) /\ t # NoTask
      /\ Len(runs[t]) \in Nat
  BY <1>1, <1>2, AtWork
<1>5. num[p] = Len(runs[t]) + 1 /\ Len(runs[t]) < MaxAttempts
  BY <1>1, <1>2, <1>4 DEF InPlace, NextAttempt
<1>6. /\ pc'[p] = "mark"
      /\ UNCHANGED <<job, how, from, num, flag>>
      /\ \A q \in Proc \ {p} :
           /\ pc'[q] = pc[q] /\ job'[q] = job[q] /\ how'[q] = how[q] /\ from'[q] = from[q]
           /\ num'[q] = num[q] /\ flag'[q] = flag[q]
  BY <1>4, StepMoves DEF RecordRunning
<1>7. RecordAttempt(t, Len(runs[t]) + 1, a, "running") /\ UNCHANGED bindings
  BY <1>2, <1>3, <1>5 DEF RecordRunning
<1>8. /\ TaskAgrees(t)'
      /\ Len(runs'[t]) = Len(runs[t]) + 1
      /\ \A i \in 1 .. Len(runs[t]) : runs'[t][i] = runs[t][i]
      /\ runs'[t][Len(runs[t]) + 1].agent = a
      /\ runs'[t][Len(runs[t]) + 1].status = "running"
      /\ bindings[t][Len(runs[t]) + 1].state = "none"
      /\ \A u \in Task \ {t} : runs'[u] = runs[u]
  BY <1>5, <1>7, RecordAgrees
<1>9. UNCHANGED <<status, outputs>>
  BY <1>7 DEF RecordAttempt
<1>10. InPlace(p)'
  BY <1>2, <1>4, <1>6, <1>9 DEF InPlace, Exists
<1>11. Owns(p)'
  <2>1. num'[p] \in 1 .. Len(runs'[t]) /\ job'[p] = t
    BY <1>2, <1>4, <1>5, <1>6, <1>8
  <2>. QED
    BY <1>2, <1>3, <1>5, <1>6, <1>7, <1>8, <2>1 DEF Owns, SessionOf
<1>12. Exists(t)'
  BY <1>2, <1>4, <1>9 DEF InPlace, Exists
<1>13. Final
  BY <1>7, <1>8 DEF Final
<1>. QED
  BY <1>1, <1>2, <1>4, <1>5, <1>6, <1>7, <1>8, <1>9, <1>10, <1>11, <1>12, <1>13, WriteFrame

\* A session is bound: to the source's by continue-acp, to its own by run-acp,
\* and at the end of either.
LEMMA Binds ==
  ASSUME IInv, TypeOK', NEW p \in Proc,
         BindSource(p) \/ StartSession(p) \/ BindCompleted(p) \/ BindCancelled(p)
  PROVE  IInv' /\ Final
<1> USE DEF Late, Monitored, Prompted, Concluding
<1>1. pc[p] \in {"bind", "connect", "bind_completed", "bind_cancelled"}
  BY DEF BindSource, StartSession, BindCompleted, BindCancelled, Step
<1>2. PICK t \in Task : t = job[p]
  BY <1>1, AtWork
<1>3. PICK a \in Agent : a = AgentOf[p]
  BY <1>1, AtWork
<1>4. /\ TypeOK /\ InPlace(p) /\ Owns(p) /\ t # NoTask
      /\ Len(runs[t]) \in Nat /\ num[p] \in 1 .. Len(runs[t])
  BY <1>1, <1>2, AtWork
<1>5. PICK k \in 1 .. Len(runs[t]) : k = num[p]
  BY <1>4
<1>6. PICK l \in Late, s \in {"running", "completed", "cancelled"} :
        /\ \/ pc[p] = "bind" /\ l = "connect" /\ s = "running"
           \/ pc[p] = "connect" /\ how[p] = "run" /\ l = "turn" /\ s = "running"
           \/ pc[p] = "bind_completed" /\ l = "commit" /\ s = "completed"
           \/ pc[p] = "bind_cancelled" /\ l = "cancel_attempt" /\ s = "cancelled"
        /\ Step(p, pc[p], l) /\ Bind(t, k, a, s) /\ UNCHANGED boardVars
  <2>1. CASE BindSource(p)
    BY <1>2, <1>3, <1>5, <2>1 DEF BindSource, Step
  <2>2. CASE StartSession(p)
    BY <1>2, <1>3, <1>5, <2>2 DEF StartSession, SessionStarted, Step
  <2>3. CASE BindCompleted(p)
    BY <1>2, <1>3, <1>5, <2>3 DEF BindCompleted, Step
  <2>4. CASE BindCancelled(p)
    BY <1>2, <1>3, <1>5, <2>4 DEF BindCancelled, Step
  <2>. QED
    BY <2>1, <2>2, <2>3, <2>4
<1>7. /\ pc'[p] = l
      /\ UNCHANGED <<job, how, from, num, flag>>
      /\ \A q \in Proc \ {p} :
           /\ pc'[q] = pc[q] /\ job'[q] = job[q] /\ how'[q] = how[q] /\ from'[q] = from[q]
           /\ num'[q] = num[q] /\ flag'[q] = flag[q]
  BY <1>4, <1>6, StepMoves
<1>8. runs[t][k].agent = a /\ runs[t][k].status = "running"
  BY <1>1, <1>2, <1>3, <1>4, <1>5 DEF Owns
<1>9. /\ TaskAgrees(t)'
      /\ bindings'[t][k].state = s
      /\ \A i \in 1 .. Len(runs[t]) : i # k => bindings'[t][i] = bindings[t][i]
      /\ \A u \in Task \ {t} : bindings'[u] = bindings[u]
  BY <1>6, <1>8, BindAgrees
<1>10. UNCHANGED <<status, runs, outputs>>
  BY <1>6 DEF boardVars
<1>11. InPlace(p)'
  BY <1>2, <1>4, <1>6, <1>7, <1>10 DEF InPlace, Exists, Early
<1>12. Owns(p)'
  <2>1. s \in SessionOf(p)'
    BY <1>4, <1>6, <1>7 DEF SessionOf, InPlace
  <2>2. job'[p] = t /\ num'[p] = k /\ pc'[p] # "fail_status"
    BY <1>2, <1>5, <1>6, <1>7
  <2>. QED
    BY <1>3, <1>8, <1>9, <1>10, <2>1, <2>2 DEF Owns
<1>13. Exists(t)' /\ l \in Late /\ l \notin Early
  BY <1>2, <1>4, <1>6, <1>10 DEF InPlace, Exists, Early
<1>. QED
  <2>1. /\ Len(runs'[t]) = Len(runs[t]) /\ pc[p] \in Late
        /\ job'[p] \in {t, NoTask} /\ num'[p] = num[p] /\ pc'[p] \notin Early
        /\ \A i \in 1 .. Len(runs[t]) :
             i # num[p] => runs'[t][i] = runs[t][i] /\ bindings'[t][i] = bindings[t][i]
    BY <1>1, <1>2, <1>5, <1>7, <1>9, <1>10, <1>13
  <2>2. Final
    BY <1>8, <1>9, <1>10 DEF Final, SettledRow
  <2>. QED
    BY <1>2, <1>4, <1>7, <1>9, <1>10, <1>11, <1>12, <1>13, <2>1, <2>2, WriteFrame

\* An attempt gets its outcome.
LEMMA Settles ==
  ASSUME IInv, TypeOK', NEW p \in Proc, Commit(p) \/ CancelAttempt(p) \/ FailAttempt(p)
  PROVE  IInv' /\ Final /\ runs'[job[p]][num[p]].status # "running"
<1> USE DEF Late, Monitored, Prompted, Concluding
<1>1. pc[p] \in {"commit", "cancel_attempt", "fail_attempt"}
  BY DEF Commit, CancelAttempt, FailAttempt, Step
<1>2. PICK t \in Task : t = job[p]
  BY <1>1, AtWork
<1>4. /\ TypeOK /\ InPlace(p) /\ Owns(p) /\ TaskAgrees(t) /\ t # NoTask
      /\ Len(runs[t]) \in 0 .. MaxAttempts /\ num[p] \in 1 .. Len(runs[t])
  BY <1>1, <1>2, AtWork
<1>5. PICK k \in 1 .. Len(runs[t]) : k = num[p]
  BY <1>4
<1>6. PICK s \in {"succeeded", "failed", "cancelled"} :
        /\ s = CASE pc[p] = "commit" -> "succeeded" [] pc[p] = "cancel_attempt" -> "cancelled"
                 [] pc[p] = "fail_attempt" -> "failed"
        /\ runs' = [runs EXCEPT ![t] = Settled(t, k, TaskStatus, s)]
        /\ outputs' = IF s = "succeeded" THEN [outputs EXCEPT ![t] = Append(@, k)] ELSE outputs
        /\ status' = IF s = "succeeded" THEN [status EXCEPT ![t] = "succeeded"] ELSE status
        /\ UNCHANGED bindings
  <2>1. CASE Commit(p)
    BY <1>2, <1>5, <2>1 DEF Commit, CommitSuccessfulResult
  <2>2. CASE CancelAttempt(p)
    BY <1>2, <1>5, <2>2 DEF CancelAttempt, CompleteAttempt
  <2>3. CASE FailAttempt(p)
    BY <1>2, <1>5, <2>3 DEF FailAttempt, CompleteAttempt, Step
  <2>. QED
    BY <2>1, <2>2, <2>3
<1>7. /\ runs[t][k].status = "running" /\ RowAgrees(t, k)
      /\ bindings[t][k].state \in SessionOf(p)
      /\ "running" \in TaskStatus
  BY <1>1, <1>2, <1>4, <1>5 DEF Owns, TaskAgrees, TaskStatus
<1>8. /\ s = "succeeded" => bindings'[t][k].state = "completed"
      /\ s = "cancelled" => bindings'[t][k].state = "cancelled"
      /\ bindings'[t][k].state # "interrupted"
      /\ bindings'[t][k].state # "none" => bindings'[t][k].agent = runs[t][k].agent
  BY <1>1, <1>6, <1>7 DEF SessionOf, RowAgrees
<1>9. status'[t] = "succeeded" => s = "succeeded" \/ status[t] = "succeeded"
  BY <1>6
<1>10. /\ TaskAgrees(t)'
       /\ Len(runs'[t]) = Len(runs[t])
       /\ \A i \in 1 .. Len(runs[t]) : i # k => runs'[t][i] = runs[t][i]
       /\ runs'[t][k].agent = runs[t][k].agent /\ runs'[t][k].status = s
       /\ \A u \in Task \ {t} : runs'[u] = runs[u] /\ outputs'[u] = outputs[u]
  <2>1. /\ Len(runs'[t]) = Len(runs[t])
        /\ \A i \in 1 .. Len(runs[t]) : i # k => runs'[t][i] = runs[t][i]
        /\ runs'[t][k] = [attempt |-> k, agent |-> runs[t][k].agent, status |-> s]
        /\ \A u \in Task \ {t} : runs'[u] = runs[u]
    <3>1. /\ BoardTypeOK /\ s \in TaskStatus /\ runs[t][k].status \in TaskStatus
          /\ \A i \in 1 .. Len(runs[t]) : runs[t][i].attempt = i
      BY <1>4, <1>7 DEF TypeOK, TaskStatus, TaskAgrees, RowAgrees
    <3>2. runs' = [runs EXCEPT ![t] = Settled(t, k, TaskStatus, s)]
      BY <1>6
    <3>. QED
      BY <3>1, <3>2, SettledUpdate
  <2>2. /\ outputs'[t] = IF s = "succeeded" THEN Append(outputs[t], k) ELSE outputs[t]
        /\ \A u \in Task \ {t} : outputs'[u] = outputs[u]
    BY <1>4, <1>6 DEF TypeOK, BoardTypeOK
  <2>3. /\ \A i \in Number : i = k \/ bindings'[t][i] = bindings[t][i]
        /\ bindings'[t][k].state = "interrupted" => s = "failed"
    BY <1>6, <1>8
  <2>4. TaskAgrees(t)'
    BY <1>7, <1>8, <1>9, <2>1, <2>2, <2>3, SettleAgrees
  <2>. QED
    BY <2>1, <2>2, <2>4
<1>11. /\ job'[p] \in {t, NoTask} /\ (InPlace(p) /\ Owns(p))'
       /\ job'[p] # NoTask => num'[p] = num[p] /\ pc'[p] = "fail_status"
       /\ \A q \in Proc \ {p} :
            /\ pc'[q] = pc[q] /\ job'[q] = job[q] /\ how'[q] = how[q] /\ from'[q] = from[q]
            /\ num'[q] = num[q] /\ flag'[q] = flag[q]
  <2>1. CASE Commit(p) \/ CancelAttempt(p)
    BY <1>4, <2>1, EndMoves DEF Commit, CancelAttempt
  <2>2. CASE FailAttempt(p)
    <3>1. Step(p, "fail_attempt", "fail_status")
      BY <2>2 DEF FailAttempt
    <3>2. /\ pc[p] = "fail_attempt" /\ pc'[p] = "fail_status"
          /\ UNCHANGED <<job, how, from, num, flag>>
          /\ \A q \in Proc \ {p} :
               /\ pc'[q] = pc[q] /\ job'[q] = job[q] /\ how'[q] = how[q] /\ from'[q] = from[q]
               /\ num'[q] = num[q] /\ flag'[q] = flag[q]
      BY <1>4, <3>1, StepMoves
    <3>3. UNCHANGED status /\ s = "failed"
      BY <1>6, <3>2
    <3>4. InPlace(p)'
      BY <1>2, <1>4, <3>2, <3>3 DEF InPlace, Exists, Early
    <3>5. Owns(p)'
      BY <1>2, <1>4, <1>5, <1>6, <1>7, <1>10, <3>2, <3>3 DEF Owns, SessionOf
    <3>. QED
      BY <1>2, <3>2, <3>4, <3>5
  <2>. QED
    BY <2>1, <2>2
<1>12. /\ Exists(t)'
       /\ \A u \in Task \ {t} : status'[u] = status[u]
  BY <1>2, <1>4, <1>6 DEF InPlace, Exists, TypeOK, BoardTypeOK
<1>13. Final /\ runs'[job[p]][num[p]].status # "running"
  BY <1>2, <1>5, <1>6, <1>7, <1>10 DEF Final, SettledRow
<1>. QED
  BY <1>1, <1>2, <1>4, <1>5, <1>6, <1>10, <1>11, <1>12, <1>13, WriteFrame DEF Early

\* The task of a failed attempt becomes failed.
LEMMA Fails ==
  ASSUME IInv, TypeOK', NEW p \in Proc, FailStatus(p)
  PROVE  IInv'
<1>1. pc[p] = "fail_status"
  BY DEF FailStatus
<1>2. PICK t \in Task : t = job[p]
  BY <1>1, AtWork
<1>3. TypeOK /\ TaskAgrees(t) /\ Len(runs[t]) \in Nat
  BY <1>1, <1>2, AtWork
<1>4. /\ UNCHANGED <<runs, outputs, bindings>> /\ Exists(t)' /\ status'[t] = "failed"
      /\ \A u \in Task \ {t} : status'[u] = status[u]
  BY <1>2, <1>3 DEF FailStatus, SetStatus, Exists, TypeOK, BoardTypeOK
<1>5. TaskAgrees(t)'
  BY <1>3, <1>4, TaskFrame
<1>6. End(p)
  BY DEF FailStatus
<1>7. /\ job'[p] = NoTask /\ (InPlace(p) /\ Owns(p))'
      /\ \A q \in Proc \ {p} :
           /\ pc'[q] = pc[q] /\ job'[q] = job[q] /\ how'[q] = how[q] /\ from'[q] = from[q]
           /\ num'[q] = num[q] /\ flag'[q] = flag[q]
  BY <1>3, <1>6, EndMoves
<1>. QED
  BY <1>1, <1>2, <1>3, <1>4, <1>5, <1>7, WriteFrame

-----------------------------------------------------------------------------
(* The operator's steps: no command moves.                                 *)

\* Submit, cancel, resume and override touch no row and no session, and none
\* of them makes a task succeeded.
LEMMA Operates ==
  ASSUME IInv, TypeOK', NEW t \in Task,
         \/ Submit(t) \/ Cancel(t) \/ Resume(t) \/ \E a \in Agent : Override(t, a)
  PROVE  IInv'
<1>1. TypeOK /\ TaskAgrees(t) /\ \A q \in Proc : Owns(q)
  BY DEF IInv
<1>2. /\ UNCHANGED <<runs, outputs, bindings>> /\ UNCHANGED procVars
      /\ Exists(t)' /\ status'[t] # "succeeded"
      /\ \A u \in Task \ {t} : status'[u] = status[u]
  <2>1. CASE Submit(t)
    BY <1>1, <2>1 DEF Submit, CreateTask, Exists, TypeOK, BoardTypeOK
  <2>2. CASE Cancel(t) \/ Resume(t)
    BY <1>1, <2>2 DEF Cancel, Resume, Operate, SetStatus, Exists, TypeOK, BoardTypeOK
  <2>3. CASE \E a \in Agent : Override(t, a)
    BY <1>1, <2>3 DEF Override, Operate, Assign, Exists, TypeOK, BoardTypeOK
  <2>. QED
    BY <2>1, <2>2, <2>3
<1>3. TaskAgrees(t)'
  BY <1>1, <1>2, TaskFrame
<1> DEFINE movers == {}
<1>4. \A q \in Proc :
        /\ pc'[q] = pc[q] /\ job'[q] = job[q] /\ how'[q] = how[q] /\ from'[q] = from[q]
        /\ num'[q] = num[q] /\ flag'[q] = flag[q]
        /\ job[q] = t /\ pc[q] \in Late => num[q] \in 1 .. Len(runs'[t])
  BY <1>1, <1>2 DEF procVars, Owns
<1>5. movers \in SUBSET Proc /\ \A p : p \notin movers
  OBVIOUS
<1> HIDE DEF movers
<1>. QED
  BY <1>2, <1>3, <1>4, <1>5, StepFrame

\* Recovery closes one running attempt, and the session of its number, of a
\* task nobody works on.
LEMMA Recovers ==
  ASSUME IInv, TypeOK', NEW t \in Task, Recover(t)
  PROVE  IInv' /\ Final
<1>1. /\ TypeOK /\ BoardTypeOK /\ TaskAgrees(t) /\ Len(runs[t]) \in 0 .. MaxAttempts
      /\ \A i \in 1 .. Len(runs[t]) : runs[t][i].attempt = i
      /\ 1 .. Len(runs[t]) \subseteq Number
  <2>1. TypeOK /\ BoardTypeOK /\ TaskAgrees(t)
    BY DEF IInv, TypeOK
  <2>2. Len(runs[t]) \in 0 .. MaxAttempts
    BY <2>1, AcpBoundsAssumption DEF BoardTypeOK, TaskAgrees
  <2>3. 1 .. Len(runs[t]) \subseteq Number
    BY <2>2, AcpBoundsAssumption DEF Number
  <2>. QED
    BY <2>1, <2>2, <2>3 DEF TaskAgrees, RowAgrees
<1>2. PICK k \in AttemptsIn(t, "running") :
        /\ runs' = [runs EXCEPT ![t] = Settled(t, k, {"running"}, "failed")]
        /\ status' = [status EXCEPT ![t] = "failed"]
        /\ UNCHANGED <<assignee, outputs>>
  BY <1>1, RecoverPicks DEF Recover
<1>3. k \in 1 .. Len(runs[t]) /\ runs[t][k].status = "running" /\ RowAgrees(t, k)
  BY <1>1 DEF AttemptsIn, TaskAgrees
<1>4. /\ Len(runs'[t]) = Len(runs[t])
      /\ \A i \in 1 .. Len(runs[t]) : i # k => runs'[t][i] = runs[t][i]
      /\ runs'[t][k] = [attempt |-> k, agent |-> runs[t][k].agent, status |-> "failed"]
      /\ \A u \in Task \ {t} : runs'[u] = runs[u]
  <2>1. "failed" \in TaskStatus /\ runs[t][k].status \in {"running"}
    BY <1>3 DEF TaskStatus
  <2>. QED
    BY <1>1, <1>2, <1>3, <2>1, SettledUpdate
<1> DEFINE closed == {runs[t][i].attempt :
                        i \in {j \in AttemptsIn(t, "running") : runs'[t][j].status = "failed"}}
           new == [i \in Number |->
                     IF i \in closed /\ bindings[t][i].state = "running"
                     THEN [bindings[t][i] EXCEPT !.state = "interrupted"] ELSE bindings[t][i]]
<1>5. closed = {k}
  BY <1>1, <1>3, <1>4 DEF AttemptsIn
<1>6. bindings' = [bindings EXCEPT ![t] = new]
  BY DEF Recover
<1> HIDE DEF closed
<1>7. /\ \A i \in Number : i = k \/ bindings'[t][i] = bindings[t][i]
      /\ bindings'[t][k] = IF bindings[t][k].state = "running"
                           THEN [bindings[t][k] EXCEPT !.state = "interrupted"]
                           ELSE bindings[t][k]
      /\ \A u \in Task \ {t} : bindings'[u] = bindings[u]
  BY <1>1, <1>3, <1>5, <1>6 DEF TypeOK
<1>8. /\ bindings'[t][k].state # "none" => bindings'[t][k].agent = runs[t][k].agent
      /\ status'[t] # "succeeded" /\ Exists(t)'
      /\ outputs' = outputs /\ \A u \in Task \ {t} : status'[u] = status[u]
  <2>1. bindings[t][k] = [agent |-> bindings[t][k].agent, state |-> bindings[t][k].state]
    BY <1>1, <1>3, StateOfBinding
  <2>2. bindings'[t][k].state # "none" => bindings'[t][k].agent = runs[t][k].agent
    BY <1>3, <1>7, <2>1 DEF RowAgrees
  <2>. QED
    BY <1>1, <1>2, <2>2 DEF BoardTypeOK, Exists
<1>9. TaskAgrees(t)'
  <2>1. /\ "failed" \in {"succeeded", "failed", "cancelled"}
        /\ outputs'[t] = IF "failed" = "succeeded" THEN Append(outputs[t], k) ELSE outputs[t]
    BY <1>8
  <2>. QED
    BY <1>3, <1>4, <1>7, <1>8, <2>1, SettleAgrees
<1>a. Final
  BY <1>1, <1>3, <1>4, <1>7 DEF Final, SettledRow
<1> DEFINE movers == {}
<1>10. \A q \in Proc :
         /\ pc'[q] = pc[q] /\ job'[q] = job[q] /\ how'[q] = how[q] /\ from'[q] = from[q]
         /\ num'[q] = num[q] /\ flag'[q] = flag[q] /\ job[q] # t
  BY DEF Recover, Operate, procVars
<1>11. movers \in SUBSET Proc /\ \A p : p \notin movers
  OBVIOUS
<1> HIDE DEF movers
<1>. QED
  BY <1>4, <1>7, <1>8, <1>9, <1>a, <1>10, <1>11, StepFrame, ZenonT(40)

-----------------------------------------------------------------------------
(* The invariant.                                                          *)

LEMMA InitIInv == Init => IInv
<1> SUFFICES ASSUME Init PROVE IInv
  OBVIOUS
<1>1. TypeOK
  BY NoAgentAssumption, AcpBoundsAssumption
  DEF Init, BoardInit, TypeOK, BoardTypeOK, Binding, NoBinding, TaskStatus
<1>2. \A p \in Proc : InPlace(p) /\ Owns(p)
  BY DEF Init, InPlace, Owns, Early, Late, Monitored, Prompted, Concluding
<1>3. \A p \in Proc : job[p] = NoTask
  BY DEF Init
<1>4. ASSUME NEW t \in Task PROVE TaskAgrees(t)
  BY <1>4, AcpBoundsAssumption DEF Init, BoardInit, TaskAgrees
<1>. QED
  BY <1>1, <1>2, <1>3, <1>4 DEF IInv

LEMMA NextIInv == IInv /\ [Next]_vars => IInv'
<1> SUFFICES ASSUME IInv, [Next]_vars PROVE IInv'
  OBVIOUS
<1>0. TypeOK'
  BY NextTyped
<1>1. ASSUME NEW p \in Proc, NEW t \in Task,
             StartRun(p, t) \/ \E s \in Task : StartContinue(p, t, s)
      PROVE  IInv'
  BY <1>0, <1>1, Prepares
<1>2. ASSUME NEW p \in Proc, Proceed(p) PROVE IInv'
  <2>1. CASE CountSource(p) \/ CheckSource(p) \/ CountAttempts(p)
    BY <1>0, <2>1, Prepares
  <2>2. CASE AssignAgent(p) \/ MarkRunning(p)
    BY <1>0, <2>2, Marks
  <2>3. CASE RecordRunning(p)
    BY <1>0, <2>3, Records
  <2>4. CASE BindSource(p) \/ StartSession(p) \/ BindCompleted(p) \/ BindCancelled(p)
    BY <1>0, <2>4, Binds
  <2>5. CASE ContinueNotConfigured(p)
    BY <1>0, <2>5, Leave DEF ContinueNotConfigured
  <2>6. CASE Commit(p) \/ CancelAttempt(p) \/ FailAttempt(p)
    BY <1>0, <2>6, Settles
  <2>7. CASE FailStatus(p)
    BY <1>0, <2>7, Fails
  <2>8. CASE \/ RunNotConfigured(p) \/ ResumeSession(p) \/ Answer(p) \/ ContinueAnswers(p)
             \/ AnswerBadly(p) \/ NoticeCancellation(p) \/ StopCancelled(p) \/ SessionFails(p)
             \/ ContinueFails(p) \/ CheckCancelled(p) \/ CheckStopped(p)
    BY <1>0, <2>8, Advances
  <2>. QED
    BY <1>2, <2>1, <2>2, <2>3, <2>4, <2>5, <2>6, <2>7, <2>8 DEF Proceed
<1>3. ASSUME NEW p \in Proc, Poll(p) PROVE IInv'
  BY <1>0, <1>3, Advances
<1>4. ASSUME NEW p \in Proc, Die(p) PROVE IInv'
  BY <1>0, <1>4, Leave DEF Die
<1>5. ASSUME NEW t \in Task,
             \/ Submit(t) \/ Cancel(t) \/ Resume(t) \/ \E a \in Agent : Override(t, a)
      PROVE  IInv'
  BY <1>0, <1>5, Operates
<1>6. ASSUME NEW t \in Task, Recover(t) PROVE IInv'
  BY <1>0, <1>6, Recovers
<1>7. CASE UNCHANGED vars
  <2>1. \A p \in Proc : (InPlace(p) /\ Owns(p))'
    <3> TAKE p \in Proc
    <3>1. InPlace(p) /\ Owns(p)
      BY DEF IInv
    <3>2. InPlace(p)'
      BY <1>7, <3>1 DEF InPlace, Exists, NextAttempt, vars, boardVars, procVars
    <3>3. Owns(p)'
      BY <1>7, <3>1 DEF Owns, SessionOf, vars, boardVars, procVars
    <3>. QED
      BY <3>2, <3>3
  <2>2. \A t \in Task : TaskAgrees(t)'
    BY <1>7, TaskFrame DEF IInv, vars, boardVars
  <2>3. \A p, q \in Proc : Apart(p, q)' = Apart(p, q)
    BY <1>7 DEF Apart, vars, procVars
  <2>4. job' = job
    BY <1>7 DEF vars, procVars
  <2>. QED
    BY <1>0, <2>1, <2>2, <2>3, <2>4 DEF IInv
<1>. QED
  BY <1>1, <1>2, <1>3, <1>4, <1>5, <1>6, <1>7 DEF Next

\* The inductive invariant holds: the commands, the operator and the board
\* agree in every reachable state.
THEOREM Agreement == Spec => []IInv
BY InitIInv, NextIInv, PTL DEF Spec

\* Whatever the operator does to the task, an agent is at work only for an
\* attempt the board shows as running, with its number, agent and session.
THEOREM PromptsAreBracketed == Spec => []PromptIsBracketed
<1>1. IInv => PromptIsBracketed
  <2> SUFFICES ASSUME IInv, NEW p \in Proc, pc[p] \in Prompted
               PROVE  LET t == job[p] IN
                      /\ \E i \in AttemptsIn(t, "running") :
                           runs[t][i] = [attempt |-> num[p], agent |-> AgentOf[p],
                                         status |-> "running"]
                      /\ bindings[t][num[p]] = [agent |-> AgentOf[p], state |-> "running"]
                      /\ \A q \in Proc \ {p} :
                           job[q] = t /\ pc[q] \in Prompted => num[q] # num[p]
    BY DEF PromptIsBracketed
  <2>1. pc[p] # "idle" /\ pc[p] \in Late
    BY DEF Prompted, Late, Monitored
  <2>2. PICK t \in Task : t = job[p]
    BY <2>1, AtWork
  <2>3. PICK k \in 1 .. Len(runs[t]) : k = num[p] /\ k \in Number
    BY <2>1, <2>2, AtWork
  <2>4. /\ TypeOK /\ Owns(p) /\ TaskAgrees(t) /\ t # NoTask
    BY <2>1, <2>2, AtWork
  <2>5. /\ runs[t][k].attempt = k /\ runs[t][k].agent = AgentOf[p]
        /\ runs[t][k].status = "running" /\ runs[t][k] \in Attempt
        /\ bindings[t][k].state = "running" /\ bindings[t][k].agent = AgentOf[p]
    <3>1. RowAgrees(t, k) /\ runs[t][k] \in Attempt
      BY <2>4 DEF TaskAgrees, TypeOK, BoardTypeOK
    <3>2. bindings[t][k].state \in {"running"}
      BY <2>1, <2>2, <2>3, <2>4 DEF Owns, SessionOf, Prompted
    <3>3. runs[t][k].agent = AgentOf[p] /\ runs[t][k].status = "running"
      BY <2>1, <2>2, <2>3, <2>4 DEF Owns, Prompted
    <3>. QED
      BY <3>1, <3>2, <3>3 DEF RowAgrees
  <2>6. runs[t][k] = [attempt |-> num[p], agent |-> AgentOf[p], status |-> "running"]
    BY <2>3, <2>5 DEF Attempt
  <2>7. bindings[t][k] = [agent |-> AgentOf[p], state |-> "running"]
    BY <2>3, <2>4, <2>5, StateOfBinding
  <2>8. ASSUME NEW q \in Proc \ {p}, job[q] = t, pc[q] \in Prompted PROVE num[q] # num[p]
    <3>1. Apart(p, q) /\ pc[q] \in Late
      BY <2>2, <2>4, <2>8 DEF IInv, Prompted, Late, Monitored
    <3>. QED
      BY <2>1, <3>1 DEF Apart
  <2>. QED
    BY <2>2, <2>3, <2>5, <2>6, <2>7, <2>8 DEF AttemptsIn
<1>. QED
  BY <1>1, Agreement, PTL

\* The row, the session and the result of an attempt never contradict each
\* other, at any crash point and under any cancellation.
THEOREM RecordsAlwaysAgree == Spec => []RecordsAgree
<1>1. IInv => RecordsAgree
  <2> SUFFICES ASSUME IInv, NEW t \in Task
               PROVE  /\ status[t] = "succeeded" => AttemptsIn(t, "succeeded") # {}
                      /\ \A i \in 1 .. Len(runs[t]) :
                           LET session == bindings[t][i].state
                               results == {j \in 1 .. Len(outputs[t]) : outputs[t][j] = i}
                           IN  /\ runs[t][i].attempt = i
                               /\ CASE runs[t][i].status = "succeeded" ->
                                         session = "completed" /\ \E j \in results : results = {j}
                                    [] runs[t][i].status = "cancelled" ->
                                         session = "cancelled" /\ results = {}
                                    [] OTHER -> results = {}
                               /\ session = "interrupted" => runs[t][i].status = "failed"
                               /\ session # "none" => bindings[t][i].agent = runs[t][i].agent
    BY DEF RecordsAgree
  <2>1. TaskAgrees(t)
    BY DEF IInv
  <2>. QED
    BY <2>1 DEF TaskAgrees, RowAgrees, Results
<1>. QED
  BY <1>1, Agreement, PTL

\* The outcome of an attempt, and of its session, is written once.
THEOREM OutcomesStay == Spec => OutcomesAreFinal
<1>1. IInv /\ [Next]_vars => Final
  <2> SUFFICES ASSUME IInv, [Next]_vars PROVE Final
    OBVIOUS
  <2>0. TypeOK'
    BY NextTyped
  <2>1. CASE \E p \in Proc : RecordRunning(p)
    BY <2>0, <2>1, Records
  <2>2. CASE \E p \in Proc : BindSource(p) \/ StartSession(p) \/ BindCompleted(p) \/ BindCancelled(p)
    BY <2>0, <2>2, Binds
  <2>3. CASE \E p \in Proc : Commit(p) \/ CancelAttempt(p) \/ FailAttempt(p)
    BY <2>0, <2>3, Settles
  <2>4. CASE \E t \in Task : Recover(t)
    BY <2>0, <2>4, Recovers
  <2>5. CASE UNCHANGED <<runs, bindings>>
    BY <2>5 DEF Final
  <2>6. ASSUME NEW p \in Proc, NEW t \in Task, NEW s \in Task,
               StartRun(p, t) \/ StartContinue(p, t, s)
        PROVE  UNCHANGED <<runs, bindings>>
    BY <2>6 DEF StartRun, StartContinue, boardVars
  <2>7. ASSUME NEW p \in Proc, Poll(p) \/ Die(p) PROVE UNCHANGED <<runs, bindings>>
    BY <2>7 DEF Poll, Die, boardVars
  <2>8. ASSUME NEW p \in Proc,
               \/ CountSource(p) \/ CheckSource(p) \/ CountAttempts(p) \/ AssignAgent(p)
               \/ MarkRunning(p) \/ RunNotConfigured(p) \/ ContinueNotConfigured(p)
               \/ FailStatus(p)
        PROVE  UNCHANGED <<runs, bindings>>
    BY <2>8
    DEF CountSource, CheckSource, CountAttempts, AssignAgent, MarkRunning, RunNotConfigured,
        ContinueNotConfigured, FailStatus, Assign, SetStatus, boardVars
  <2>9. ASSUME NEW p \in Proc,
               \/ ResumeSession(p) \/ Answer(p) \/ ContinueAnswers(p) \/ AnswerBadly(p)
               \/ NoticeCancellation(p) \/ StopCancelled(p) \/ SessionFails(p)
               \/ ContinueFails(p) \/ CheckCancelled(p) \/ CheckStopped(p)
        PROVE  UNCHANGED <<runs, bindings>>
    BY <2>9
    DEF ResumeSession, Answer, ContinueAnswers, AnswerBadly, NoticeCancellation, StopCancelled,
        SessionFails, ContinueFails, CheckCancelled, CheckStopped, boardVars
  <2>10. ASSUME NEW t \in Task,
                \/ Submit(t) \/ Cancel(t) \/ Resume(t) \/ \E a \in Agent : Override(t, a)
         PROVE  UNCHANGED <<runs, bindings>>
    BY <2>10 DEF Submit, Cancel, Resume, Override, CreateTask, SetStatus, Assign
  <2>11. CASE UNCHANGED vars
    BY <2>5, <2>11 DEF vars, boardVars
  <2>12. CASE \E p \in Proc : Proceed(p)
    BY <2>1, <2>2, <2>3, <2>5, <2>8, <2>9, <2>12 DEF Proceed
  <2>. QED
    BY <2>4, <2>5, <2>6, <2>7, <2>10, <2>11, <2>12 DEF Next
<1>. QED
  BY <1>1, Agreement, PTL DEF Spec, Final, OutcomesAreFinal

\* A run-acp that ends by itself leaves no running attempt behind.
THEOREM RunsSettle == Spec => RunSettles
<1>1. ASSUME IInv, [Next]_vars, NEW p \in Proc, how[p] = "run", pc[p] # "idle",
             pc'[p] = "idle", kills' = kills
      PROVE  runs'[job[p]][num[p]].status # "running"
  <2>0. TypeOK' /\ TypeOK /\ InPlace(p) /\ Owns(p)
    BY <1>1, NextTyped DEF IInv
  <2>1. Commit(p) \/ CancelAttempt(p) \/ FailStatus(p)
    <3> USE <1>1, <2>0 DEF TypeOK, Goto, Step, End
    <3>1. ~ UNCHANGED vars
      BY DEF vars, procVars
    <3>2. \A t \in Task : ~ (Submit(t) \/ Cancel(t) \/ Resume(t) \/ Recover(t))
      BY DEF Submit, Cancel, Resume, Recover, Operate, procVars
    <3>3. \A t \in Task : \A a \in Agent : ~ Override(t, a)
      BY DEF Override, Operate, procVars
    <3>4. \A q \in Proc : ~ Poll(q) /\ ~ Die(q)
      BY DEF Poll, Die, TypeOK
    <3>5. \A q \in Proc : \A t, s \in Task : ~ StartRun(q, t) /\ ~ StartContinue(q, t, s)
      BY DEF StartRun, StartContinue
    <3>6. \A q \in Proc :
            ~ \/ CountSource(q) \/ CountAttempts(q) \/ AssignAgent(q) \/ RecordRunning(q)
              \/ MarkRunning(q) \/ BindSource(q) \/ RunNotConfigured(q)
              \/ StartSession(q) \/ ResumeSession(q)
      BY DEF CountSource, CountAttempts, AssignAgent, RecordRunning, MarkRunning, BindSource,
             RunNotConfigured, StartSession, ResumeSession
    <3>7. \A q \in Proc :
            ~ \/ Answer(q) \/ ContinueAnswers(q) \/ AnswerBadly(q) \/ NoticeCancellation(q)
              \/ StopCancelled(q) \/ SessionFails(q) \/ ContinueFails(q)
      BY DEF Answer, ContinueAnswers, AnswerBadly, NoticeCancellation, StopCancelled,
             SessionFails, ContinueFails
    <3>8. \A q \in Proc :
            ~ \/ CheckCancelled(q) \/ BindCompleted(q) \/ CheckStopped(q) \/ BindCancelled(q)
              \/ FailAttempt(q)
      BY DEF CheckCancelled, BindCompleted, CheckStopped, BindCancelled, FailAttempt
    <3>9. \A q \in Proc : ~ CheckSource(q) /\ ~ ContinueNotConfigured(q)
      BY DEF CheckSource, ContinueNotConfigured, InPlace
    <3>10. \A q \in Proc : Commit(q) \/ CancelAttempt(q) \/ FailStatus(q) => q = p
      BY DEF Commit, CancelAttempt, FailStatus
    <3>. QED
      BY <3>1, <3>2, <3>3, <3>4, <3>5, <3>6, <3>7, <3>8, <3>9, <3>10 DEF Next, Proceed
  <2>2. CASE Commit(p) \/ CancelAttempt(p)
    BY <1>1, <2>0, <2>2, Settles
  <2>3. CASE FailStatus(p)
    BY <1>1, <2>0, <2>3 DEF FailStatus, SetStatus, Owns, Late, Concluding
  <2>. QED
    BY <2>1, <2>2, <2>3
<1>2. IInv /\ [Next]_vars =>
        \A p \in Proc : how[p] = "run" /\ pc[p] # "idle" /\ pc'[p] = "idle" /\ kills' = kills =>
          runs'[job[p]][num[p]].status # "running"
  BY <1>1
<1>. QED
  BY <1>2, Agreement, PTL DEF Spec, RunSettles
=============================================================================
