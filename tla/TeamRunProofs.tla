--------------------------- MODULE TeamRunProofs ---------------------------
(***************************************************************************)
(* Proofs about Scheduler, TeamRun, and RunReport and BoardViews, which    *)
(* watch a run: for every set of tasks and agents, every quota, retry      *)
(* limit, budget of rounds and tasks, and any number of faults, kills and  *)
(* resumes.                                                                *)
(*                                                                         *)
(* The first part is about Scheduler alone: types, the board in step with  *)
(* each run_one, the ledger, the permits, what a call that returns leaves  *)
(* behind, and the order in which a task is tried on its candidates.       *)
(***************************************************************************)
EXTENDS BoardViews, TeamBoardProofs, SequenceTheorems, FiniteSetTheorems

-----------------------------------------------------------------------------
(* Type correctness.  It is inductive only together with Placed: an        *)
(* attempt is recorded with the agent at cand[t], which is one because     *)
(* run_one only goes on from a candidate that has a driver.                *)

AtCandidate == {"acquire", "settle"} \cup Holding

Placed ==
  \A t \in Task :
    /\ t \in handles \/ pc[t] # "none" => Exists(t)
    /\ pc[t] \in AtCandidate => cand[t] <= Len(order[t]) /\ Candidate(t) \in Drivers

\* An empty board and a process that is not running are well typed.
LEMMA InitTyped == Init => TypeOK /\ Placed
<1> SUFFICES ASSUME Init PROVE TypeOK /\ Placed
  OBVIOUS
<1>1. BoardTypeOK
  BY DEF Init, BoardInit, BoardTypeOK
<1>2. MaxConcurrency \in [Agent -> Nat]
  BY ConcurrencyAssumption
<1>. QED
  BY <1>1, <1>2, BoundsAssumption
  DEF Init, TypeOK, Placed, Everywhere, Live, Awaiting, UsesBoard, Finished, AtCandidate, Holding

\* Every step of the scheduler, its process and its operator keeps the types
\* and the places of the candidates.
LEMMA NextTyped == TypeOK /\ Placed /\ [Next]_vars => TypeOK' /\ Placed'
<1> SUFFICES ASSUME TypeOK, Placed, [Next]_vars PROVE TypeOK' /\ Placed'
  OBVIOUS
<1> USE DEF TypeOK, Placed, Live, Awaiting, UsesBoard, Finished, Holding, AtCandidate,
            Exists, Candidate, Goto, callVars, loopVars, budgets, processVars
<1>0. UNCHANGED boardVars => BoardTypeOK'
  BY DEF BoardTypeOK, boardVars
<1>1. CASE BeginSchedule
  BY <1>0, <1>1 DEF BeginSchedule, BoardTypeOK, boardVars
<1>2. CASE SpawnBatch
  BY <1>0, <1>2 DEF SpawnBatch, BoardTypeOK, boardVars
<1>3. CASE CreateFails
  BY <1>0, <1>3, BoundsAssumption DEF CreateFails, BoardTypeOK, boardVars
<1>4. CASE Return
  BY <1>0, <1>4 DEF Return, BoardTypeOK, boardVars
<1>5. CASE ProcessEnds
  <2>1. MaxConcurrency \in [Agent -> Nat]
    BY ConcurrencyAssumption
  <2>2. crashes' \in 0 .. MaxCrashes
    BY <1>5, BoundsAssumption DEF ProcessEnds, Stop
  <2>3. Placed'
    BY <1>5 DEF ProcessEnds, Stop, Everywhere
  <2>. QED
    BY <1>0, <1>5, <2>1, <2>2, <2>3 DEF ProcessEnds, Stop, boardVars, Everywhere
<1>6. CASE ProcessStarts
  BY <1>0, <1>6 DEF ProcessStarts, BoardTypeOK, boardVars
<1>7. ASSUME NEW t \in Task, NEW o \in Orders, CreateNext(t, o)
      PROVE  TypeOK' /\ Placed'
  <2>1. BoardTypeOK'
    BY <1>7, CreateTaskType DEF CreateNext
  <2>. QED
    BY <1>7, <2>1 DEF CreateNext, CreateTask, BoardTypeOK
<1>8. ASSUME NEW t \in Task, ResumeExisting(t) PROVE TypeOK' /\ Placed'
  BY <1>0, <1>8 DEF ResumeExisting, BoardTypeOK, boardVars
<1>9. ASSUME NEW t \in Task, JoinNext(t) PROVE TypeOK' /\ Placed'
  BY <1>0, <1>9 DEF JoinNext, BoardTypeOK, boardVars
<1>10. ASSUME NEW t \in Task, JoinFails(t) PROVE TypeOK' /\ Placed'
  BY <1>0, <1>10 DEF JoinFails, BoardTypeOK, boardVars
<1>11. ASSUME NEW t \in Task, Begin(t) PROVE TypeOK' /\ Placed'
  <2>0. Len(runs[t]) \in Nat
    BY DEF BoardTypeOK
  <2>a. pc' \in [Task -> Live \cup Finished \cup {"none", "broken"}]
    BY <1>11 DEF Begin
  <2>b. /\ cand' \in [Task -> Nat \ {0}] /\ tries' \in [Task -> Nat]
        /\ seq' \in [Task -> Nat] /\ base' \in [Task -> Nat]
    BY <1>11, <2>0 DEF Begin
  <2>c. BoardTypeOK' /\ UNCHANGED <<order, call, handles, permits, faults, crashes, resumes>>
    BY <1>0, <1>11 DEF Begin
  <2>1. TypeOK'
    BY <2>a, <2>b, <2>c
  <2>2. Placed'
    BY <1>11 DEF Begin, boardVars
  <2>. QED
    BY <2>1, <2>2
<1>12. ASSUME NEW t \in Task, SkipUndriven(t) PROVE TypeOK' /\ Placed'
  <2>1. TypeOK'
    BY <1>0, <1>12 DEF SkipUndriven
  <2>2. Placed'
    BY <1>12 DEF SkipUndriven, boardVars
  <2>. QED
    BY <2>1, <2>2
<1>13. ASSUME NEW t \in Task, AssignCandidate(t) PROVE TypeOK' /\ Placed'
  <2>1. BoardTypeOK'
    BY <1>13, AssignType, DriversAssumption DEF AssignCandidate, TaskStatus
  <2>. QED
    BY <1>13, <2>1 DEF AssignCandidate, Assign, BoardTypeOK, TaskStatus
<1>14. ASSUME NEW t \in Task, Acquire(t) PROVE TypeOK' /\ Placed'
  <2>0. Candidate(t) \in Agent
    BY <1>14, DriversAssumption DEF Acquire
  <2>a. permits' \in [Agent -> Nat] /\ seq' \in [Task -> Nat] /\ BoardTypeOK'
    BY <1>0, <1>14, <2>0, SMTT(30) DEF Acquire
  <2>b. pc' = [pc EXCEPT ![t] = "record"]
    BY <1>14 DEF Acquire
  <2>1. TypeOK'
    BY <1>14, <2>a, <2>b DEF Acquire
  <2>2. Placed'
    BY <1>14 DEF Acquire, boardVars
  <2>. QED
    BY <2>1, <2>2
<1>15. ASSUME NEW t \in Task, RecordRunning(t) PROVE TypeOK' /\ Placed'
  <2>1. BoardTypeOK'
    BY <1>15, RecordAttemptType, DriversAssumption DEF RecordRunning, TaskStatus
  <2>. QED
    BY <1>15, <2>1 DEF RecordRunning, RecordAttempt, BoardTypeOK, TaskStatus
<1>16. ASSUME NEW t \in Task, MarkRunning(t) PROVE TypeOK' /\ Placed'
  <2>1. BoardTypeOK'
    BY <1>16, SetStatusType, DriversAssumption DEF MarkRunning, TaskStatus
  <2>. QED
    BY <1>16, <2>1 DEF MarkRunning, SetStatus, BoardTypeOK, TaskStatus
<1>17. ASSUME NEW t \in Task, StartDriver(t) PROVE TypeOK' /\ Placed'
  BY <1>0, <1>17 DEF StartDriver, BoardTypeOK, boardVars
<1>18. ASSUME NEW t \in Task, DriverReturns(t) PROVE TypeOK' /\ Placed'
  <2>0. Candidate(t) \in Agent
    BY <1>18, DriversAssumption DEF DriverReturns
  <2>a. permits' \in [Agent -> Nat] /\ BoardTypeOK'
    BY <1>0, <1>18, <2>0 DEF DriverReturns
  <2>b. pc' = [pc EXCEPT ![t] = "settle"]
    BY <1>18 DEF DriverReturns
  <2>1. TypeOK'
    BY <1>18, <2>a, <2>b DEF DriverReturns
  <2>2. Placed'
    BY <1>18 DEF DriverReturns, boardVars
  <2>. QED
    BY <2>1, <2>2
<1>19. ASSUME NEW t \in Task, SettleSuccess(t) PROVE TypeOK' /\ Placed'
  <2>1. BoardTypeOK'
    BY <1>19, CommitSuccessfulResultType, DriversAssumption DEF SettleSuccess, TaskStatus
  <2>. QED
    BY <1>19, <2>1 DEF SettleSuccess, CommitSuccessfulResult, BoardTypeOK, TaskStatus
<1>20. ASSUME NEW t \in Task, SettleFailure(t) PROVE TypeOK' /\ Placed'
  <2>1. BoardTypeOK'
    BY <1>20, CompleteAttemptType DEF SettleFailure, TaskStatus
  <2>2. TypeOK'
    BY <1>20, <2>1, SMTT(30) DEF SettleFailure, CompleteAttempt
  <2>3. Placed'
    BY <1>20 DEF SettleFailure, CompleteAttempt
  <2>. QED
    BY <1>20, <2>2, <2>3 DEF SettleFailure, CompleteAttempt
<1>21. ASSUME NEW t \in Task, GiveUp(t) PROVE TypeOK' /\ Placed'
  <2>1. BoardTypeOK'
    BY <1>21, SetStatusType, DriversAssumption DEF GiveUp, TaskStatus
  <2>. QED
    BY <1>21, <2>1 DEF GiveUp, SetStatus, BoardTypeOK, TaskStatus
<1>22. ASSUME NEW t \in Task, Abort(t) PROVE TypeOK' /\ Placed'
  <2>1. faults' \in 0 .. MaxFaults
    BY <1>22, BoundsAssumption DEF Abort
  <2>2. permits' \in [Agent -> Nat]
    <3>1. pc[t] \in Holding => Candidate(t) \in Agent
      BY DriversAssumption
    <3>2. permits \in [Agent -> Nat]
      BY DEF TypeOK
    <3>3. \A a \in Agent : permits[a] + 1 \in Nat
      BY <3>2
    <3>4. permits' = IF pc[t] \in Holding
                     THEN [permits EXCEPT ![Candidate(t)] = @ + 1] ELSE permits
      BY <1>22 DEF Abort
    <3> HIDE DEF TypeOK, Placed, Holding
    <3>. QED
      BY <3>1, <3>2, <3>3, <3>4
  <2>3. Placed'
    BY <1>22 DEF Abort, boardVars
  <2>. QED
    BY <1>0, <1>22, <2>1, <2>2, <2>3 DEF Abort
<1>23. ASSUME NEW t \in Task, Recover(t) PROVE TypeOK' /\ Placed'
  <2>1. BoardTypeOK'
    BY <1>23, RecoverType, DriversAssumption DEF Recover, TaskStatus
  <2>. QED
    BY <1>23, <2>1 DEF Recover, RecoverInterruptedAttempt, BoardTypeOK, TaskStatus
<1>24. ASSUME NEW t \in Task, Resume(t) PROVE TypeOK' /\ Placed'
  <2>1. BoardTypeOK'
    BY <1>24, SetStatusType, DriversAssumption DEF Resume, TaskStatus
  <2>. QED
    BY <1>24, <2>1, BoundsAssumption DEF Resume, SetStatus, BoardTypeOK
<1>25. CASE UNCHANGED vars
  BY <1>0, <1>25 DEF vars, BoardTypeOK, boardVars
<1>. QED
  BY <1>1, <1>2, <1>3, <1>4, <1>5, <1>6, <1>7, <1>8, <1>9, <1>10, <1>11, <1>12, <1>13, <1>14,
     <1>15, <1>16, <1>17, <1>18, <1>19, <1>20, <1>21, <1>22, <1>23, <1>24, <1>25
  DEF Next, RunOne

\* Every state is well typed, and a run_one past its assignment is at a
\* candidate of its order that has a driver (scheduler.rs:347-362).
THEOREM TypeCorrect == Spec => [](TypeOK /\ Placed)
BY InitTyped, NextTyped, PTL DEF Spec

-----------------------------------------------------------------------------
(* The board and run_one stay in step.  Every action touches one task, so  *)
(* Frame disposes of all the others.                                       *)

InStep(t) == RowsMatchStatus(t) /\ RowsMatchPc(t)

\* A task none of whose rows, columns and locals change stays in step.
LEMMA Frame ==
  ASSUME NEW t \in Task, InStep(t),
         status'[t] = status[t], assignee'[t] = assignee[t], runs'[t] = runs[t],
         outputs'[t] = outputs[t], order'[t] = order[t], pc'[t] = pc[t],
         cand'[t] = cand[t], seq'[t] = seq[t]
  PROVE  InStep(t)'
BY DEF InStep, RowsMatchStatus, RowsMatchPc, AllFailed, LastIs, Candidate, NextAttempt, Holding

\* A task that no run_one works on only has to match its own rows.
LEMMA FrameBoard ==
  ASSUME NEW t \in Task, InStep(t),
         status'[t] = status[t], runs'[t] = runs[t], outputs'[t] = outputs[t],
         pc'[t] \in {"none", "broken"} \cup Finished
  PROVE  InStep(t)'
BY DEF InStep, RowsMatchStatus, RowsMatchPc, AllFailed, LastIs, Finished, Holding

\* In a task that is in step, the attempt recovery picks is its newest one.
LEMMA RecoverTheLast ==
  ASSUME BoardTypeOK, NEW t \in Task, InStep(t), RecoverInterruptedAttempt(t)
  PROVE  /\ runs' = [runs EXCEPT ![t] = Settled(t, Len(runs[t]), {"running"}, "failed")]
         /\ LastIs(t, "running")
<1>1. runs[t] \in Seq(Attempt) /\ Len(runs[t]) \in Nat
  BY DEF BoardTypeOK
<1>2. PICK k \in AttemptsIn(t, "running") :
        runs' = [runs EXCEPT ![t] = Settled(t, k, {"running"}, "failed")]
  BY RecoverPicks DEF InStep, RowsMatchStatus
<1>3. LastIs(t, "running")
  <2>1. k \in 1 .. Len(runs[t]) /\ runs[t][k].status = "running"
    BY DEF AttemptsIn
  <2>2. ~ AllFailed(t)
    BY <2>1 DEF AllFailed
  <2>3. ~ LastIs(t, "succeeded")
    BY <1>1, <2>1 DEF LastIs
  <2>4. status[t] \in {"assigned", "running"}
    BY <2>2, <2>3 DEF InStep, RowsMatchStatus, BoardTypeOK, TaskStatus
  <2>. QED
    BY <2>2, <2>4 DEF InStep, RowsMatchStatus
<1>4. k = Len(runs[t])
  BY <1>1, <1>3 DEF AttemptsIn, LastIs
<1>. QED
  BY <1>2, <1>3, <1>4

\* Recovery of a task that no run_one works on closes its newest attempt, which
\* leaves only failed ones.
LEMMA RecoverInStep ==
  ASSUME BoardTypeOK, NEW t \in Task, InStep(t), RecoverInterruptedAttempt(t), pc'[t] = "none"
  PROVE  /\ InStep(t)' /\ AllFailed(t)' /\ Len(runs'[t]) > 0
         /\ status[t] # "succeeded" /\ status'[t] = "failed"
         /\ \A u \in Task \ {t} : /\ status'[u] = status[u] /\ runs'[u] = runs[u]
                                  /\ outputs'[u] = outputs[u] /\ assignee'[u] = assignee[u]
<1> DEFINE rows == Settled(t, Len(runs[t]), {"running"}, "failed")
<1>1. /\ runs' = [runs EXCEPT ![t] = rows]
      /\ Len(runs[t]) > 0 /\ runs[t][Len(runs[t])].status = "running"
      /\ \A i \in 1 .. Len(runs[t]) - 1 : runs[t][i].status = "failed"
  BY RecoverTheLast DEF LastIs
<1>2. status' = [status EXCEPT ![t] = "failed"] /\ UNCHANGED <<assignee, outputs>>
  BY DEF RecoverInterruptedAttempt
<1>3. runs'[t] = rows /\ status'[t] = "failed" /\ runs[t] \in Seq(Attempt) /\ Len(runs[t]) \in Nat
  BY <1>1, <1>2 DEF BoardTypeOK
<1>4. \A i \in 1 .. Len(runs[t]) : runs[t][i].attempt = i
  BY DEF InStep, RowsMatchStatus
<1>5. outputs'[t] = <<>> /\ status[t] # "succeeded"
  BY <1>1, <1>2 DEF InStep, RowsMatchStatus, AllFailed, LastIs
<1>6. /\ Len(rows) = Len(runs[t])
      /\ \A i \in 1 .. Len(runs[t]) : rows[i].attempt = i
      /\ \A i \in 1 .. Len(runs[t]) - 1 : rows[i] = runs[t][i]
      /\ rows[Len(runs[t])].status = "failed"
  <2>1. "failed" \in TaskStatus /\ runs[t][Len(runs[t])].status \in {"running"}
    BY <1>1 DEF TaskStatus
  <2>. QED
    BY <1>1, <1>4, <2>1, SettledLast
<1>7. AllFailed(t)'
  <2>1. \A i \in 1 .. Len(rows) : rows[i].status = "failed"
    BY <1>1, <1>3, <1>6
  <2>. QED
    BY <1>3, <2>1 DEF AllFailed
<1>8. InStep(t)'
  BY <1>1, <1>3, <1>5, <1>6, <1>7
  DEF InStep, RowsMatchStatus, RowsMatchPc, LastIs, Holding
<1>9. \A u \in Task \ {t} : status'[u] = status[u] /\ runs'[u] = runs[u]
  BY <1>1, <1>2 DEF BoardTypeOK
<1>. QED
  BY <1>1, <1>2, <1>3, <1>5, <1>6, <1>7, <1>8, <1>9

\* A newest row that is settled as succeeded, whatever its status was.
LEMMA SettledSucceeds ==
  ASSUME BoardTypeOK, NEW t \in Task, Len(runs[t]) > 0,
         \A i \in 1 .. Len(runs[t]) : runs[t][i].attempt = i,
         runs[t][Len(runs[t])].status \in TaskStatus,
         NEW rows, rows = Settled(t, Len(runs[t]), TaskStatus, "succeeded")
  PROVE  /\ rows \in Seq(Attempt) /\ Len(rows) = Len(runs[t])
         /\ \A i \in 1 .. Len(runs[t]) : rows[i].attempt = i
         /\ \A i \in 1 .. Len(runs[t]) - 1 : rows[i] = runs[t][i]
         /\ rows[Len(runs[t])].status = "succeeded"
<1>1. "succeeded" \in TaskStatus
  BY DEF TaskStatus
<1>. QED
  BY <1>1, SettledLast

\* Every step of run_one keeps its own task in step.
LEMMA RunOneInStep ==
  ASSUME TypeOK, Placed, NEW t \in Task, InStep(t), RunOne(t)
  PROVE  /\ pc[t] # "none" /\ call' = call /\ handles' = handles
         /\ \A u \in Task \ {t} :
              /\ status'[u] = status[u] /\ assignee'[u] = assignee[u]
              /\ runs'[u] = runs[u] /\ outputs'[u] = outputs[u]
              /\ order'[u] = order[u] /\ pc'[u] = pc[u]
              /\ cand'[u] = cand[u] /\ seq'[u] = seq[u]
         /\ InStep(t)'
<1> USE DEF Placed, Exists, Goto, callVars, loopVars, budgets, processVars, boardVars
<1>a. BoardTypeOK /\ runs[t] \in Seq(Attempt) /\ Len(runs[t]) \in Nat /\ seq[t] \in Nat
  BY DEF TypeOK, BoardTypeOK
<1>b. \A i \in 1 .. Len(runs[t]) : runs[t][i].attempt = i
  BY DEF InStep, RowsMatchStatus
<1> USE DEF InStep, RowsMatchStatus, RowsMatchPc, AllFailed, LastIs, Holding
<1>1. CASE Begin(t)
  BY <1>1, <1>a DEF Begin, TypeOK
<1>2. CASE SkipUndriven(t)
  BY <1>2, <1>a DEF SkipUndriven, TypeOK
<1>3. CASE AssignCandidate(t)
  BY <1>3, <1>a DEF AssignCandidate, Assign, TypeOK, BoardTypeOK, Candidate
<1>4. CASE Acquire(t)
  BY <1>4, <1>a DEF Acquire, TypeOK, Candidate, NextAttempt
<1>5. CASE RecordRunning(t)
  <2> DEFINE new == [attempt |-> seq[t], agent |-> Candidate(t), status |-> "running"]
  <2>1. AllFailed(t) /\ seq[t] = Len(runs[t]) + 1 /\ status[t] \in {"assigned", "running"}
    BY <1>5 DEF RecordRunning, NextAttempt
  <2>2. /\ runs' = [runs EXCEPT ![t] = Append(runs[t], new)]
        /\ pc' = [pc EXCEPT ![t] = "mark"]
        /\ UNCHANGED <<status, assignee, outputs, order, cand, seq, call, handles>>
    BY <1>5 DEF RecordRunning, RecordAttempt
  <2>3. /\ Len(runs'[t]) = seq[t]
        /\ runs'[t][seq[t]] = new
        /\ \A i \in 1 .. seq[t] - 1 : runs'[t][i] = runs[t][i]
    BY <1>a, <2>1, <2>2 DEF TypeOK, BoardTypeOK
  <2>4. LastIs(t, "running")'
    BY <1>a, <2>1, <2>3
  <2>5. \A i \in 1 .. Len(runs'[t]) : runs'[t][i].attempt = i
    BY <1>a, <1>b, <2>1, <2>3
  <2>6. pc'[t] = "mark" /\ assignee[t] = Candidate(t) /\ Candidate(t)' = Candidate(t)
    BY <1>5, <2>2 DEF RecordRunning, TypeOK, Candidate
  <2>7. outputs[t] = <<>> /\ status[t] # "succeeded" /\ status[t] # "cancelled"
    BY <2>1
  <2>8. InStep(t)'
    <3>1. RowsMatchPc(t)'
      BY <2>1, <2>2, <2>3, <2>4, <2>6
    <3>2. RowsMatchStatus(t)'
      BY <2>1, <2>2, <2>3, <2>4, <2>5, <2>7
    <3>. QED
      BY <3>1, <3>2
  <2>9. pc[t] # "none" /\ call' = call /\ handles' = handles
    BY <1>5, <2>2 DEF RecordRunning
  <2>10. \A u \in Task \ {t} : runs'[u] = runs[u] /\ pc'[u] = pc[u]
    BY <2>2 DEF TypeOK, BoardTypeOK
  <2> HIDE DEF new, InStep
  <2>. QED
    BY <2>2, <2>8, <2>9, <2>10
<1>6. CASE MarkRunning(t)
  BY <1>6, <1>a DEF MarkRunning, SetStatus, TypeOK, BoardTypeOK, Candidate
<1>7. CASE StartDriver(t)
  BY <1>7, <1>a DEF StartDriver, TypeOK, Candidate
<1>8. CASE DriverReturns(t)
  BY <1>8, <1>a DEF DriverReturns, TypeOK, Candidate
<1>c. pc[t] = "settle" =>
        /\ seq[t] = Len(runs[t]) /\ Len(runs[t]) > 0 /\ status[t] = "running"
        /\ runs[t][Len(runs[t])].status = "running"
        /\ \A i \in 1 .. Len(runs[t]) - 1 : runs[t][i].status = "failed"
        /\ outputs[t] = <<>>
        /\ assignee[t] = Candidate(t)
  BY DEF Candidate
<1>9. CASE SettleSuccess(t)
  <2> DEFINE rows == Settled(t, Len(runs[t]), TaskStatus, "succeeded")
  <2>1. pc[t] = "settle"
    BY <1>9 DEF SettleSuccess
  <2>2. /\ rows \in Seq(Attempt) /\ Len(rows) = Len(runs[t])
        /\ \A i \in 1 .. Len(runs[t]) : rows[i].attempt = i
        /\ \A i \in 1 .. Len(runs[t]) - 1 : rows[i] = runs[t][i]
        /\ rows[Len(runs[t])].status = "succeeded"
    <3>1. "succeeded" \in TaskStatus /\ "running" \in TaskStatus
      BY DEF TaskStatus
    <3>2. Len(runs[t]) > 0 /\ runs[t][Len(runs[t])].status \in TaskStatus
      BY <1>c, <2>1, <3>1
    <3> HIDE DEF InStep, RowsMatchStatus, RowsMatchPc, AllFailed, LastIs, Holding, Placed, rows
    <3>3. BoardTypeOK /\ t \in Task /\ Len(runs[t]) > 0
          /\ runs[t][Len(runs[t])].status \in TaskStatus
      BY <1>a, <3>2
    <3>4. rows = Settled(t, Len(runs[t]), TaskStatus, "succeeded")
      BY DEF rows
    <3>. QED
      BY <1>b, <3>3, <3>4, SettledSucceeds
  <2>3. /\ runs' = [runs EXCEPT ![t] = rows]
        /\ outputs' = [outputs EXCEPT ![t] = Append(outputs[t], seq[t])]
        /\ status' = [status EXCEPT ![t] = "succeeded"]
        /\ pc' = [pc EXCEPT ![t] = "succeeded"]
        /\ UNCHANGED <<assignee, order, cand, seq, call, handles>>
    BY <1>9, <1>c, <2>1 DEF SettleSuccess, CommitSuccessfulResult
  <2>4. /\ runs'[t] = rows /\ outputs'[t] = <<seq[t]>>
        /\ status'[t] = "succeeded" /\ pc'[t] = "succeeded"
    BY <1>a, <1>c, <2>1, <2>3 DEF TypeOK, BoardTypeOK
  <2>5. InStep(t)'
    BY <1>a, <1>c, <2>1, <2>2, <2>4
  <2>6. pc[t] # "none" /\ call' = call /\ handles' = handles
    BY <2>1, <2>3
  <2>7. \A u \in Task \ {t} :
          /\ runs'[u] = runs[u] /\ outputs'[u] = outputs[u]
          /\ status'[u] = status[u] /\ pc'[u] = pc[u]
    BY <2>3 DEF TypeOK, BoardTypeOK
  <2> HIDE DEF rows, InStep
  <2>. QED
    BY <2>3, <2>5, <2>6, <2>7
<1>10. CASE SettleFailure(t)
  <2> DEFINE rows == Settled(t, Len(runs[t]), TaskStatus, "failed")
             exhausted == tries[t] + 1 >= MaxRetries
  <2>1. pc[t] = "settle"
    BY <1>10 DEF SettleFailure
  <2>2. /\ rows \in Seq(Attempt) /\ Len(rows) = Len(runs[t])
        /\ \A i \in 1 .. Len(runs[t]) : rows[i].attempt = i
        /\ \A i \in 1 .. Len(runs[t]) - 1 : rows[i] = runs[t][i]
        /\ rows[Len(runs[t])].status = "failed"
    BY <1>a, <1>b, <1>c, <2>1, SettledLast DEF TaskStatus
  <2>3. /\ runs' = [runs EXCEPT ![t] = rows]
        /\ pc' = [pc EXCEPT ![t] = IF exhausted THEN "assign" ELSE "acquire"]
        /\ cand' = [cand EXCEPT ![t] = IF exhausted THEN cand[t] + 1 ELSE cand[t]]
        /\ UNCHANGED <<status, assignee, outputs, order, seq, call, handles>>
    BY <1>10, <1>c, <2>1 DEF SettleFailure, CompleteAttempt
  <2>4. runs'[t] = rows /\ AllFailed(t)'
    <3>1. runs'[t] = rows
      BY <2>3 DEF TypeOK, BoardTypeOK
    <3>2. \A i \in 1 .. Len(rows) : rows[i].status = "failed"
      BY <1>a, <1>c, <2>1, <2>2
    <3>. QED
      BY <3>1, <3>2
  <2>5. \/ pc'[t] = "assign"
        \/ pc'[t] = "acquire" /\ Candidate(t)' = Candidate(t)
    BY <2>3 DEF TypeOK, Candidate
  <2>6. InStep(t)'
    BY <1>a, <1>c, <2>1, <2>2, <2>3, <2>4, <2>5
  <2>. QED
    BY <2>1, <2>3, <2>6 DEF TypeOK, BoardTypeOK
<1>11. CASE GiveUp(t)
  BY <1>11, <1>a DEF GiveUp, SetStatus, TypeOK, BoardTypeOK
<1>. QED
  BY <1>1, <1>2, <1>3, <1>4, <1>5, <1>6, <1>7, <1>8, <1>9, <1>10, <1>11 DEF RunOne

\* What a step owes: every task in step, and the batch that is being created
\* and the process that is not running untouched.
LEMMA NextInStep ==
  ASSUME TypeOK, Placed, BoardInStep, [Next]_vars
  PROVE  BoardInStep'
<1> USE DEF Placed, Exists, Goto, callVars, loopVars, budgets, processVars, boardVars
<1>0. \A u \in Task : InStep(u)
  BY DEF BoardInStep, InStep
<1>a. BoardTypeOK /\ handles \subseteq Task
  BY DEF TypeOK
<1>1. SUFFICES /\ \A u \in Task : InStep(u)'
               /\ call' = "creating" =>
                    \A u \in handles' : status'[u] = "pending" /\ pc'[u] = "none"
               /\ call' = "off" => \A u \in Task : pc'[u] = "none"
  BY DEF BoardInStep, InStep
<1>b. call = "creating" => \A u \in handles : status[u] = "pending" /\ pc[u] = "none"
  BY DEF BoardInStep
<1>c. call = "off" => \A u \in Task : pc[u] = "none"
  BY DEF BoardInStep
<1>2. CASE BeginSchedule
  <2>1. \A u \in Task : InStep(u)'
    BY <1>0, <1>2, Frame DEF BeginSchedule
  <2>. QED
    BY <1>2, <2>1 DEF BeginSchedule
<1>3. CASE SpawnBatch
  <2>1. ASSUME NEW u \in Task PROVE InStep(u)'
    <3>1. CASE u \in handles
      <4>1. pc'[u] = "begin" /\ status[u] = "pending" /\ InStep(u)
        BY <1>0, <1>3, <1>b, <3>1 DEF SpawnBatch, TypeOK
      <4>. QED
        BY <1>3, <4>1
        DEF SpawnBatch, InStep, RowsMatchStatus, RowsMatchPc, AllFailed, LastIs, Holding
    <3>2. CASE u \notin handles
      BY <1>0, <1>3, <3>2, Frame DEF SpawnBatch
    <3>. QED
      BY <3>1, <3>2
  <2>. QED
    BY <1>3, <2>1 DEF SpawnBatch
<1>4. CASE CreateFails
  <2>1. \A u \in Task : InStep(u)'
    BY <1>0, <1>4, Frame DEF CreateFails
  <2>. QED
    BY <1>4, <2>1 DEF CreateFails
<1>5. CASE Return
  <2>1. \A u \in Task : InStep(u)'
    BY <1>0, <1>5, Frame DEF Return
  <2>. QED
    BY <1>5, <2>1 DEF Return
<1>6. CASE ProcessEnds
  <2>1. \A u \in Task : pc'[u] = "none"
    BY <1>6 DEF ProcessEnds, Stop, Everywhere
  <2>2. \A u \in Task : InStep(u)'
    BY <1>0, <1>6, <2>1, FrameBoard DEF ProcessEnds, Stop
  <2>. QED
    BY <1>6, <2>1, <2>2 DEF ProcessEnds, Stop
<1>7. CASE ProcessStarts
  <2>1. \A u \in Task : InStep(u)'
    BY <1>0, <1>7, Frame DEF ProcessStarts
  <2>. QED
    BY <1>7, <2>1 DEF ProcessStarts
<1>8. ASSUME NEW t \in Task, NEW o \in Orders, CreateNext(t, o)
      PROVE  BoardInStep'
  <2>0. status[t] = "absent" /\ pc[t] = "none" /\ t \notin handles
    BY <1>8 DEF CreateNext, CreateTask
  <2>1. \A u \in Task \ {t} : InStep(u)'
    BY <1>0, <1>8, Frame DEF CreateNext, CreateTask, TypeOK, BoardTypeOK
  <2>2. status'[t] = "pending" /\ pc'[t] = "none"
    BY <1>8, <2>0 DEF CreateNext, CreateTask, TypeOK, BoardTypeOK
  <2>3. InStep(t)'
    BY <1>0, <1>8, <2>0, <2>2
    DEF CreateNext, CreateTask, InStep, RowsMatchStatus, RowsMatchPc, AllFailed, LastIs, Holding
  <2>4. \A u \in handles' : status'[u] = "pending" /\ pc'[u] = "none"
    BY <1>8, <1>a, <1>b, <2>0, <2>2 DEF CreateNext, CreateTask, TypeOK, BoardTypeOK
  <2>. QED
    BY <1>8, <2>1, <2>3, <2>4 DEF CreateNext, BoardInStep, InStep
<1>9. ASSUME NEW t \in Task, ResumeExisting(t) PROVE BoardInStep'
  <2>1. \A u \in Task \ {t} : InStep(u)'
    BY <1>0, <1>9, Frame DEF ResumeExisting, TypeOK
  <2>2. pc'[t] = "begin" /\ status[t] = "pending"
    BY <1>9 DEF ResumeExisting, TypeOK
  <2>3. InStep(t)'
    BY <1>0, <1>9, <2>2
    DEF ResumeExisting, InStep, RowsMatchStatus, RowsMatchPc, AllFailed, LastIs, Holding
  <2>. QED
    BY <1>9, <2>1, <2>3 DEF ResumeExisting, BoardInStep, InStep
<1>10. ASSUME NEW t \in Task, JoinNext(t) \/ JoinFails(t) PROVE BoardInStep'
  <2>1. \A u \in Task : InStep(u)'
    BY <1>0, <1>10, Frame DEF JoinNext, JoinFails
  <2>. QED
    BY <1>10, <2>1 DEF JoinNext, JoinFails, BoardInStep, InStep
<1>11. ASSUME NEW t \in Task, pc[t] # "none", call' = call, handles' = handles,
              \A u \in Task \ {t} :
                /\ status'[u] = status[u] /\ assignee'[u] = assignee[u]
                /\ runs'[u] = runs[u] /\ outputs'[u] = outputs[u]
                /\ order'[u] = order[u] /\ pc'[u] = pc[u]
                /\ cand'[u] = cand[u] /\ seq'[u] = seq[u],
              InStep(t)'
       PROVE  BoardInStep'
  <2>1. \A u \in Task : InStep(u)'
    BY <1>0, <1>11, Frame
  <2>2. call' = "creating" =>
          \A u \in handles' : status'[u] = "pending" /\ pc'[u] = "none"
    BY <1>11, <1>a, <1>b
  <2>3. call' # "off"
    BY <1>11, <1>c
  <2>. QED
    BY <2>1, <2>2, <2>3 DEF BoardInStep, InStep
<1>12. ASSUME NEW t \in Task, RunOne(t) PROVE BoardInStep'
  BY <1>0, <1>11, <1>12, RunOneInStep
<1>13. ASSUME NEW t \in Task, Abort(t) PROVE BoardInStep'
  <2>1. pc'[t] = "broken"
    BY <1>13 DEF Abort, TypeOK
  <2>2. InStep(t)'
    BY <1>0, <1>13, <2>1, FrameBoard DEF Abort
  <2>3. pc[t] # "none"
    BY <1>13 DEF Abort, UsesBoard
  <2>. QED
    BY <1>11, <1>13, <2>2, <2>3 DEF Abort, TypeOK
<1>14. ASSUME NEW t \in Task, Recover(t) PROVE BoardInStep'
  <2>1. UNCHANGED <<order, pc, cand, seq, call, handles>> /\ pc'[t] = "none"
    BY <1>14, <1>c DEF Recover
  <2>2. /\ InStep(t)'
        /\ \A u \in Task \ {t} : /\ status'[u] = status[u] /\ runs'[u] = runs[u]
                                 /\ outputs'[u] = outputs[u] /\ assignee'[u] = assignee[u]
    BY <1>0, <1>a, <1>14, <2>1, RecoverInStep DEF Recover
  <2>3. \A u \in Task \ {t} : InStep(u)'
    BY <1>0, <2>1, <2>2, Frame
  <2>. QED
    BY <1>14, <1>c, <2>1, <2>2, <2>3 DEF Recover, BoardInStep, InStep
<1>15. ASSUME NEW t \in Task, Resume(t) PROVE BoardInStep'
  <2>1. \A u \in Task \ {t} : InStep(u)'
    BY <1>0, <1>15, Frame DEF Resume, SetStatus, TypeOK, BoardTypeOK
  <2>2. pc'[t] = "none" /\ status[t] = "failed" /\ status'[t] = "pending"
    BY <1>0, <1>15, <1>c
    DEF Resume, SetStatus, TypeOK, BoardTypeOK, InStep, RowsMatchStatus
  <2>3. InStep(t)'
    BY <1>0, <1>15, <2>2
    DEF Resume, SetStatus, InStep, RowsMatchStatus, RowsMatchPc, AllFailed, LastIs, Holding
  <2>. QED
    BY <1>15, <1>c, <2>1, <2>3 DEF Resume, SetStatus, BoardInStep, InStep
<1>16. CASE UNCHANGED vars
  <2>1. \A u \in Task : InStep(u)'
    BY <1>0, <1>16, Frame DEF vars
  <2>. QED
    BY <1>16, <1>b, <1>c, <2>1 DEF vars
<1>. QED
  BY <1>2, <1>3, <1>4, <1>5, <1>6, <1>7, <1>8, <1>9, <1>10, <1>12, <1>13, <1>14,
     <1>15, <1>16 DEF Next, BoardInStep, InStep

\* Types, candidates and the board stay in step with run_one, whatever the
\* interleaving of tasks, board failures, panics, crashes and recoveries.
THEOREM InductiveInvariant == Spec => [](TypeOK /\ Placed /\ BoardInStep)
<1>1. Init => BoardInStep
  BY DEF Init, BoardInit, BoardInStep, RowsMatchStatus, RowsMatchPc, AllFailed, LastIs,
         Everywhere, Holding
<1>2. TypeOK /\ Placed /\ BoardInStep /\ [Next]_vars => BoardInStep'
  BY NextInStep
<1>. QED
  BY <1>1, <1>2, TypeCorrect, PTL DEF Spec

\* While the driver of a task is at work the board shows exactly one running
\* attempt of it, the newest, with its number and its agent.
THEOREM Bracketing == Spec => []DrivingIsBracketed
<1>1. TypeOK /\ BoardInStep => DrivingIsBracketed
  <2> SUFFICES ASSUME TypeOK, BoardInStep, NEW t \in Task, pc[t] = "driving"
               PROVE  /\ status[t] = "running"
                      /\ assignee[t] = Candidate(t)
                      /\ Len(runs[t]) = seq[t]
                      /\ AttemptsIn(t, "running") = {seq[t]}
                      /\ runs[t][seq[t]] = [attempt |-> seq[t], agent |-> Candidate(t),
                                            status |-> "running"]
    BY DEF DrivingIsBracketed
  <2>1. RowsMatchStatus(t) /\ RowsMatchPc(t) /\ runs[t] \in Seq(Attempt)
    BY DEF BoardInStep, TypeOK, BoardTypeOK
  <2>2. /\ status[t] = "running" /\ assignee[t] = Candidate(t)
        /\ LastIs(t, "running") /\ seq[t] = Len(runs[t])
        /\ runs[t][Len(runs[t])].agent = Candidate(t)
    BY <2>1 DEF RowsMatchPc, Holding
  <2>3. AttemptsIn(t, "running") = {seq[t]}
    BY <2>1, <2>2 DEF AttemptsIn, LastIs
  <2>4. runs[t][seq[t]] \in Attempt /\ runs[t][seq[t]].attempt = seq[t]
    BY <2>1, <2>2 DEF LastIs, RowsMatchStatus
  <2>. QED
    BY <2>2, <2>3, <2>4 DEF Attempt, LastIs
<1>. QED
  BY <1>1, InductiveInvariant, PTL

\* A task is succeeded exactly when its outputs are on the board, once, from
\* its only succeeded attempt, and no attempt is left running beside it.
THEOREM Grounding == Spec => []SuccessIsGrounded
<1>1. TypeOK /\ BoardInStep => SuccessIsGrounded
  <2> SUFFICES ASSUME TypeOK, BoardInStep, NEW t \in Task
               PROVE  IF status[t] = "succeeded"
                      THEN /\ outputs[t] = <<Len(runs[t])>>
                           /\ AttemptsIn(t, "succeeded") = {Len(runs[t])}
                           /\ AttemptsIn(t, "running") = {}
                      ELSE outputs[t] = <<>> /\ AttemptsIn(t, "succeeded") = {}
    BY DEF SuccessIsGrounded
  <2>1. RowsMatchStatus(t) /\ runs[t] \in Seq(Attempt)
    BY DEF BoardInStep, TypeOK, BoardTypeOK
  <2>2. CASE status[t] = "succeeded"
    BY <2>1, <2>2 DEF RowsMatchStatus, LastIs, AttemptsIn
  <2>3. CASE status[t] # "succeeded"
    <3>1. AllFailed(t) \/ LastIs(t, "running")
      BY <2>1, <2>3 DEF RowsMatchStatus, TypeOK, BoardTypeOK, TaskStatus
    <3>2. AttemptsIn(t, "succeeded") = {}
      BY <2>1, <3>1 DEF AllFailed, LastIs, AttemptsIn
    <3>. QED
      BY <2>1, <2>3, <3>2 DEF RowsMatchStatus
  <2>. QED
    BY <2>2, <2>3
<1>. QED
  BY <1>1, InductiveInvariant, PTL

-----------------------------------------------------------------------------
(* The abstract ledger.                                                    *)

columns == [t \in Task |-> Column(runs[t])]

-----------------------------------------------------------------------------
(* What the three ways of writing rows do to the status column.            *)

\* The status column of rows is as long as the rows.
LEMMA ColumnType ==
  ASSUME NEW rows \in Seq(Attempt)
  PROVE  /\ Len(rows) \in Nat
         /\ Column(rows) \in Seq(TaskStatus)
         /\ Len(Column(rows)) = Len(rows)
         /\ \A i \in 1 .. Len(rows) : Column(rows)[i] = rows[i].status
<1>1. \A i \in 1 .. Len(rows) : rows[i].status \in TaskStatus
  <2> TAKE i \in 1 .. Len(rows)
  <2>1. rows[i] \in Attempt
    BY ElementOfSeq
  <2>. QED
    BY <2>1 DEF Attempt
<1>. QED
  BY <1>1 DEF Column

\* An inserted row appends its status.
LEMMA ColumnAppend ==
  ASSUME NEW rows \in Seq(Attempt), NEW row \in Attempt
  PROVE  Column(Append(rows, row)) = Append(Column(rows), row.status)
<1> DEFINE n == Len(rows)
           new == Append(rows, row)
<1>1. n \in Nat /\ new \in Seq(Attempt) /\ Len(new) = n + 1
  OBVIOUS
<1>2. Column(new) \in Seq(TaskStatus) /\ Len(Column(new)) = n + 1
  BY <1>1, ColumnType
<1>3. row.status \in TaskStatus
  BY DEF Attempt
<1>4. /\ Append(Column(rows), row.status) \in Seq(TaskStatus)
      /\ Len(Append(Column(rows), row.status)) = n + 1
  BY <1>3, ColumnType
<1>5. \A i \in 1 .. n + 1 : Column(new)[i] = Append(Column(rows), row.status)[i]
  <2> TAKE i \in 1 .. n + 1
  <2>1. Column(new)[i] = new[i].status
    BY <1>1, ColumnType
  <2>2. CASE i = n + 1
    BY <1>1, <2>1, <2>2, <1>3, ColumnType
  <2>3. CASE i \in 1 .. n
    BY <1>1, <2>1, <2>3, <1>3, ColumnType
  <2>4. i = n + 1 \/ i \in 1 .. n
    BY <1>1
  <2>. QED
    BY <2>2, <2>3, <2>4
<1>. QED
  BY <1>2, <1>4, <1>5, SeqEqual

\* Changing the last row changes the last status.
LEMMA ColumnLast ==
  ASSUME NEW old \in Seq(Attempt), NEW new \in Seq(Attempt),
         Len(old) > 0, Len(new) = Len(old),
         \A i \in 1 .. Len(old) - 1 : new[i] = old[i]
  PROVE  Column(new) = [Column(old) EXCEPT ![Len(old)] = new[Len(old)].status]
<1> DEFINE n == Len(old)
           target == [Column(old) EXCEPT ![n] = new[n].status]
<1>1. n \in Nat /\ n \in 1 .. n
  BY ColumnType
<1>2. new[n].status \in TaskStatus
  <2>1. new[n] \in Attempt
    BY <1>1, ElementOfSeq
  <2>. QED
    BY <2>1 DEF Attempt
<1>3. /\ target \in Seq(TaskStatus) /\ Len(target) = n
      /\ \A i \in 1 .. n : target[i] = IF i = n THEN new[n].status ELSE Column(old)[i]
  BY <1>1, <1>2, ColumnType, ExceptSeq
<1>4. \A i \in 1 .. n : Column(new)[i] = new[i].status /\ Column(old)[i] = old[i].status
  BY ColumnType
<1>5. \A i \in 1 .. n : Column(new)[i] = target[i]
  BY <1>1, <1>3, <1>4
<1>6. Column(new) \in Seq(TaskStatus) /\ Len(Column(new)) = n
  BY ColumnType
<1>. QED
  BY <1>3, <1>5, <1>6, SeqEqual, ZenonT(40)

-----------------------------------------------------------------------------
(* Steps of the scheduler as steps of the ledger.                          *)

\* A row recorded as running behind failed ones opens an attempt.
LEMMA RecordOpens ==
  ASSUME BoardTypeOK, NEW t \in Task, AllFailed(t),
         NEW row \in Attempt, row.status = "running",
         runs' = [runs EXCEPT ![t] = Append(runs[t], row)]
  PROVE  Ledger!Open(t)
<1>1. runs[t] \in Seq(Attempt) /\ runs'[t] = Append(runs[t], row)
  BY DEF BoardTypeOK
<1>2. \A i \in 1 .. Len(Column(runs[t])) : Column(runs[t])[i] = "failed"
  BY <1>1, ColumnType DEF AllFailed
<1>3. Column(runs'[t]) = Append(Column(runs[t]), "running")
  BY <1>1, ColumnAppend
<1>4. \A u \in Task \ {t} : Column(runs'[u]) = Column(runs[u])
  BY DEF BoardTypeOK
<1>. QED
  BY <1>2, <1>3, <1>4 DEF Ledger!Open, Ledger!Entries

\* Rows that change in the last place only, from running to o, settle it.
LEMMA LastSettles ==
  ASSUME BoardTypeOK, NEW t \in Task, LastIs(t, "running"),
         NEW new \in Seq(Attempt), Len(new) = Len(runs[t]),
         \A i \in 1 .. Len(runs[t]) - 1 : new[i] = runs[t][i],
         NEW o, new[Len(runs[t])].status = o,
         runs' = [runs EXCEPT ![t] = new]
  PROVE  Ledger!Settle(t, o)
<1>1. runs[t] \in Seq(Attempt) /\ runs'[t] = new
  BY DEF BoardTypeOK
<1>2. Len(runs[t]) \in 1 .. Len(runs[t])
  BY <1>1, ColumnType DEF LastIs
<1>3. /\ Len(Column(runs[t])) = Len(runs[t])
      /\ Column(runs[t])[Len(runs[t])] = "running"
  BY <1>1, <1>2, ColumnType DEF LastIs
<1>4. Column(runs'[t]) = [Column(runs[t]) EXCEPT ![Len(runs[t])] = o]
  <2>1. Len(runs[t]) > 0
    BY DEF LastIs
  <2>2. Column(new) = [Column(runs[t]) EXCEPT ![Len(runs[t])] = new[Len(runs[t])].status]
    <3> HIDE DEF Column
    <3>. QED
      BY <1>1, <2>1, ColumnLast
  <2>. QED
    BY <1>1, <2>2
<1>5. \A u \in Task \ {t} : Column(runs'[u]) = Column(runs[u])
  BY DEF BoardTypeOK
<1> DEFINE after == [u \in Task |-> Column(runs'[u])]
<1>6. columns[t] = Column(runs[t])
  BY DEF columns
<1>7. after = [columns EXCEPT ![t] = [columns[t] EXCEPT ![Len(columns[t])] = o]]
  BY <1>3, <1>4, <1>5, <1>6 DEF columns
<1>8. Len(columns[t]) > 0 /\ columns[t][Len(columns[t])] = "running"
  BY <1>1, <1>2, <1>3, <1>6, ColumnType DEF LastIs
<1>. QED
  BY <1>7, <1>8 DEF Ledger!Settle, columns

\* What run_one and the recovery write of a task in step.
LEMMA RowsSettle ==
  ASSUME BoardTypeOK, NEW t \in Task, RowsMatchStatus(t), LastIs(t, "running"),
         NEW from, "running" \in from, NEW o \in {"succeeded", "failed"},
         runs' = [runs EXCEPT ![t] = Settled(t, Len(runs[t]), from, o)]
  PROVE  Ledger!Settle(t, o)
<1> DEFINE new == Settled(t, Len(runs[t]), from, o)
<1>1. o \in TaskStatus /\ Len(runs[t]) > 0 /\ runs[t][Len(runs[t])].status \in from
  BY DEF LastIs, TaskStatus
<1>2. \A i \in 1 .. Len(runs[t]) : runs[t][i].attempt = i
  BY DEF RowsMatchStatus
<1>3. /\ new \in Seq(Attempt) /\ Len(new) = Len(runs[t])
      /\ \A i \in 1 .. Len(runs[t]) - 1 : new[i] = runs[t][i]
      /\ new[Len(runs[t])].status = o
  BY <1>1, <1>2, SettledLast
<1>. QED
  BY <1>3, LastSettles

LEMMA TaskWrites ==
  ASSUME TypeOK, Placed, NEW t \in Task, InStep(t),
         RunOne(t) \/ RecoverInterruptedAttempt(t)
  PROVE  \/ runs' = runs
         \/ Ledger!Open(t) \/ Ledger!Settle(t, "succeeded") \/ Ledger!Settle(t, "failed")
<1>1. BoardTypeOK /\ RowsMatchStatus(t) /\ RowsMatchPc(t)
  BY DEF TypeOK, InStep
<1>2. CASE RecordRunning(t)
  <2> DEFINE row == [attempt |-> seq[t], agent |-> Candidate(t), status |-> "running"]
  <2>1. AllFailed(t) /\ runs' = [runs EXCEPT ![t] = Append(runs[t], row)]
    BY <1>1, <1>2 DEF RecordRunning, RecordAttempt, RowsMatchPc
  <2>2. row \in Attempt
    BY <1>2, DriversAssumption
    DEF RecordRunning, TypeOK, Placed, AtCandidate, Holding, Attempt, TaskStatus
  <2>. QED
    BY <1>1, <2>1, <2>2, RecordOpens
<1>3. CASE SettleSuccess(t) \/ SettleFailure(t)
  <2>1. LastIs(t, "running") /\ seq[t] = Len(runs[t])
    BY <1>1, <1>3 DEF SettleSuccess, SettleFailure, RowsMatchPc
  <2>2. \/ runs' = [runs EXCEPT ![t] = Settled(t, Len(runs[t]), TaskStatus, "succeeded")]
        \/ runs' = [runs EXCEPT ![t] = Settled(t, Len(runs[t]), TaskStatus, "failed")]
    BY <1>3, <2>1 DEF SettleSuccess, SettleFailure, CommitSuccessfulResult, CompleteAttempt
  <2>3. "running" \in TaskStatus
    BY DEF TaskStatus
  <2>. QED
    BY <1>1, <2>1, <2>2, <2>3, RowsSettle
<1>4. CASE RecoverInterruptedAttempt(t)
  <2>1. /\ runs' = [runs EXCEPT ![t] = Settled(t, Len(runs[t]), {"running"}, "failed")]
        /\ LastIs(t, "running")
    BY <1>1, <1>4, RecoverTheLast
  <2>. QED
    BY <1>1, <2>1, RowsSettle
<1>5. CASE \/ Begin(t) \/ SkipUndriven(t) \/ AssignCandidate(t) \/ Acquire(t)
           \/ MarkRunning(t) \/ StartDriver(t) \/ DriverReturns(t) \/ GiveUp(t)
  BY <1>5 DEF Begin, SkipUndriven, AssignCandidate, Assign, Acquire, MarkRunning, SetStatus,
              StartDriver, DriverReturns, GiveUp, boardVars
<1>. QED
  BY <1>2, <1>3, <1>4, <1>5 DEF RunOne

\* The scheduler implements the ledger: whatever fails, crashes, is recovered
\* or resumed, an attempt once settled is never touched again, at most one is
\* open, and none follows a success (team board.rs:62-63).
THEOREM ImplementsLedger == Spec => LedgerSpec
<1>1. Init => Ledger!Init
  BY DEF Init, BoardInit, Ledger!Init, Column
<1>2. TypeOK /\ Placed /\ BoardInStep /\ [Next]_vars => [Ledger!Next]_columns
  <2> SUFFICES ASSUME TypeOK, Placed, BoardInStep, [Next]_vars
               PROVE  Ledger!Next \/ columns' = columns
    OBVIOUS
  <2>1. BoardTypeOK /\ \A t \in Task : RowsMatchStatus(t) /\ RowsMatchPc(t)
    BY DEF TypeOK, BoardInStep
  <2>2. CASE runs' = runs
    BY <2>2 DEF columns
  <2>3. ASSUME NEW t \in Task, RunOne(t) \/ RecoverInterruptedAttempt(t)
        PROVE  Ledger!Next \/ runs' = runs
    <3>1. InStep(t)
      BY <2>1 DEF InStep
    <3>. QED
      BY <2>3, <3>1, TaskWrites DEF Ledger!Next
  <2>4. \/ runs' = runs
        \/ \E t \in Task : RunOne(t) \/ RecoverInterruptedAttempt(t)
    BY DEF vars, boardVars, Next, BeginSchedule, SpawnBatch, CreateFails, Return, CreateNext,
           CreateTask, ResumeExisting, JoinNext, JoinFails, Abort, Recover, Resume, SetStatus,
           ProcessEnds, Stop, ProcessStarts
  <2>. QED
    BY <2>2, <2>3, <2>4
<1>. QED
  BY <1>1, <1>2, InductiveInvariant, PTL DEF Spec, LedgerSpec, Ledger!Spec, columns

-----------------------------------------------------------------------------
(* Permits.                                                                *)

\* The permits of an agent are free or held, and add up.
Counted(a) ==
  /\ IsFiniteSet(Holders(a))
  /\ permits[a] + Cardinality(Holders(a)) = MaxConcurrency[a]

\* A step that neither takes a permit nor gives one back.
LEMMA PermitFrame ==
  ASSUME NEW a \in Agent, Counted(a), permits'[a] = permits[a],
         \A t \in Task : pc[t] \in Holding \/ pc'[t] \in Holding =>
           pc[t] \in Holding /\ pc'[t] \in Holding /\ Candidate(t)' = Candidate(t)
  PROVE  Counted(a)'
<1>1. Holders(a)' = Holders(a)
  BY DEF Holders, Holding
<1>. QED
  BY <1>1 DEF Counted

\* One task takes a permit of its candidate.
LEMMA PermitTaken ==
  ASSUME TypeOK, NEW t \in Task, NEW b \in Agent, \A a \in Agent : Counted(a),
         permits[b] > 0, permits' = [permits EXCEPT ![b] = @ - 1],
         pc[t] \notin Holding, pc'[t] \in Holding, Candidate(t)' = b,
         \A u \in Task \ {t} : pc'[u] = pc[u] /\ Candidate(u)' = Candidate(u)
  PROVE  \A a \in Agent : Counted(a)'
<1> TAKE a \in Agent
<1>1. CASE a = b
  <2>1. Holders(a)' = Holders(a) \cup {t} /\ t \notin Holders(a)
    BY <1>1 DEF Holders, Holding
  <2>2. IsFiniteSet(Holders(a)') /\ Cardinality(Holders(a)') = Cardinality(Holders(a)) + 1
    BY <2>1, FS_AddElement DEF Counted
  <2>3. Cardinality(Holders(a)) \in Nat /\ permits[b] \in Nat /\ permits'[b] = permits[b] - 1
    BY FS_CardinalityType DEF Counted, TypeOK
  <2>. QED
    BY <1>1, <2>2, <2>3 DEF Counted
<1>2. CASE a # b
  <2>1. Holders(a)' = Holders(a)
    BY <1>2 DEF Holders, Holding
  <2>2. permits'[a] = permits[a]
    BY <1>2 DEF TypeOK
  <2>. QED
    BY <2>1, <2>2 DEF Counted
<1>. QED
  BY <1>1, <1>2

\* One task gives back the permit of its candidate.
LEMMA PermitReturned ==
  ASSUME TypeOK, NEW t \in Task, NEW b \in Agent, \A a \in Agent : Counted(a),
         permits' = [permits EXCEPT ![b] = @ + 1],
         pc[t] \in Holding, pc'[t] \notin Holding, Candidate(t) = b,
         \A u \in Task \ {t} : pc'[u] = pc[u] /\ Candidate(u)' = Candidate(u)
  PROVE  \A a \in Agent : Counted(a)'
<1> TAKE a \in Agent
<1>1. CASE a = b
  <2>1. Holders(a)' = Holders(a) \ {t} /\ t \in Holders(a)
    BY <1>1 DEF Holders, Holding
  <2>2. IsFiniteSet(Holders(a)') /\ Cardinality(Holders(a)') = Cardinality(Holders(a)) - 1
    BY <2>1, FS_RemoveElement DEF Counted
  <2>3. Cardinality(Holders(a)) \in Nat /\ permits[b] \in Nat /\ permits'[b] = permits[b] + 1
    BY FS_CardinalityType DEF Counted, TypeOK
  <2>. QED
    BY <1>1, <2>2, <2>3 DEF Counted
<1>2. CASE a # b
  <2>1. Holders(a)' = Holders(a)
    BY <1>2 DEF Holders, Holding
  <2>2. permits'[a] = permits[a]
    BY <1>2 DEF TypeOK
  <2>. QED
    BY <2>1, <2>2 DEF Counted
<1>. QED
  BY <1>1, <1>2

\* With every task out of the quota, it is whole.
LEMMA PermitsWhole ==
  ASSUME NEW a \in Agent, \A t \in Task : pc[t] \notin Holding
  PROVE  IsFiniteSet(Holders(a)) /\ Cardinality(Holders(a)) = 0
<1>1. Holders(a) = {}
  BY DEF Holders
<1>. QED
  BY <1>1, FS_EmptySet

LEMMA NextCounted ==
  ASSUME TypeOK, Placed, BoardInStep, \A a \in Agent : Counted(a), [Next]_vars
  PROVE  \A a \in Agent : Counted(a)'
<1> USE DEF Goto, callVars, loopVars, budgets, processVars, boardVars, Holding
<1>1. CASE UNCHANGED <<permits, pc, order, cand>>
  BY <1>1, PermitFrame DEF Candidate
<1>2. CASE SpawnBatch
  <2>1. \A t \in handles : pc[t] \notin Holding
    BY <1>2 DEF SpawnBatch, BoardInStep
  <2>. QED
    BY <1>2, <2>1, PermitFrame DEF SpawnBatch, Candidate, TypeOK
<1>3. CASE ProcessEnds
  <2>1. permits' = MaxConcurrency /\ \A t \in Task : pc'[t] \notin Holding
    BY <1>3 DEF ProcessEnds, Stop, Everywhere
  <2>2. \A a \in Agent : Holders(a)' = {} /\ MaxConcurrency[a] \in Nat
    BY <2>1, ConcurrencyAssumption DEF Holders
  <2>. QED
    BY <2>1, <2>2, FS_EmptySet DEF Counted
<1>4. ASSUME NEW t \in Task, NEW o \in Orders, CreateNext(t, o)
      PROVE  \A a \in Agent : Counted(a)'
  <2>1. pc[t] = "none"
    BY <1>4 DEF CreateNext, CreateTask, Placed
  <2>. QED
    BY <1>4, <2>1, PermitFrame DEF CreateNext, Candidate, TypeOK
<1>5. ASSUME NEW t \in Task, ResumeExisting(t) PROVE \A a \in Agent : Counted(a)'
  <2>1. pc[t] \notin Holding
    BY <1>5 DEF ResumeExisting, BoardInStep, RowsMatchPc
  <2>. QED
    BY <1>5, <2>1, PermitFrame DEF ResumeExisting, Candidate, TypeOK
<1>6. ASSUME NEW t \in Task,
             Begin(t) \/ SkipUndriven(t) \/ AssignCandidate(t) \/ SettleSuccess(t)
             \/ SettleFailure(t) \/ GiveUp(t)
      PROVE  \A a \in Agent : Counted(a)'
  BY <1>6, PermitFrame
  DEF Begin, SkipUndriven, AssignCandidate, SettleSuccess, SettleFailure, GiveUp, Candidate, TypeOK
<1>7. ASSUME NEW t \in Task, Acquire(t) PROVE \A a \in Agent : Counted(a)'
  <2>1. Candidate(t) \in Agent
    BY <1>7, DriversAssumption DEF Acquire, Placed, AtCandidate
  <2>. QED
    BY <1>7, <2>1, PermitTaken DEF Acquire, Candidate, TypeOK
<1>8. ASSUME NEW t \in Task, RecordRunning(t) \/ MarkRunning(t) \/ StartDriver(t)
      PROVE  \A a \in Agent : Counted(a)'
  BY <1>8, PermitFrame DEF RecordRunning, MarkRunning, StartDriver, Candidate, TypeOK
<1>9. ASSUME NEW t \in Task, DriverReturns(t) PROVE \A a \in Agent : Counted(a)'
  <2>1. Candidate(t) \in Agent
    BY <1>9, DriversAssumption DEF DriverReturns, Placed, AtCandidate
  <2>. QED
    BY <1>9, <2>1, PermitReturned DEF DriverReturns, Candidate, TypeOK
<1>10. ASSUME NEW t \in Task, Abort(t) PROVE \A a \in Agent : Counted(a)'
  <2>1. CASE pc[t] \in Holding
    <3>1. Candidate(t) \in Agent
      BY <2>1, DriversAssumption DEF Placed, AtCandidate
    <3>. QED
      BY <1>10, <2>1, <3>1, PermitReturned DEF Abort, Candidate, TypeOK
  <2>2. CASE pc[t] \notin Holding
    BY <1>10, <2>2, PermitFrame DEF Abort, Candidate, TypeOK
  <2>. QED
    BY <2>1, <2>2
<1>11. \/ UNCHANGED <<permits, pc, order, cand>>
       \/ SpawnBatch \/ ProcessEnds
       \/ \E t \in Task, o \in Orders : CreateNext(t, o)
       \/ \E t \in Task : ResumeExisting(t) \/ RunOne(t) \/ Abort(t)
  BY DEF vars, Next, BeginSchedule, CreateFails, Return, JoinNext, JoinFails, Recover, Resume,
         ProcessStarts
<1>. QED
  BY <1>1, <1>2, <1>3, <1>4, <1>5, <1>6, <1>7, <1>8, <1>9, <1>10, <1>11 DEF RunOne

\* No permit is lost and none is returned twice, however attempts end.
THEOREM PermitsAddUp == Spec => []PermitsConserved
<1>1. Init => \A a \in Agent : Counted(a)
  <2> SUFFICES ASSUME Init, NEW a \in Agent PROVE Counted(a)
    OBVIOUS
  <2>1. permits = MaxConcurrency /\ \A t \in Task : pc[t] \notin Holding
    BY DEF Init, Everywhere, Holding
  <2>. QED
    BY <2>1, PermitsWhole, ConcurrencyAssumption DEF Counted
<1>2. TypeOK /\ Placed /\ BoardInStep /\ (\A a \in Agent : Counted(a)) /\ [Next]_vars
        => (\A a \in Agent : Counted(a))'
  BY NextCounted
<1>3. (\A a \in Agent : Counted(a)) => PermitsConserved
  BY DEF Counted, PermitsConserved
<1>. QED
  BY <1>1, <1>2, <1>3, InductiveInvariant, PTL DEF Spec

-----------------------------------------------------------------------------
(* Calls.                                                                  *)

\* Where the tasks of the process can be, told from the call it serves: until
\* a call fails, a task that is not awaited is settled or was never run.
Awaited ==
  /\ call \in {"idle", "creating"} => \A t \in Task : pc[t] \in Finished \cup {"none"}
  /\ call = "joining" => \A t \in Task \ handles : pc[t] \in Finished \cup {"none"}
  /\ \A t \in Task : pc[t] \in Finished => status[t] = pc[t]

LEMMA NextAwaited ==
  ASSUME TypeOK, Placed, BoardInStep, Awaited, [Next]_vars
  PROVE  Awaited'
<1> USE DEF Goto, callVars, loopVars, budgets, processVars, boardVars, Finished, Awaited
<1>1. CASE UNCHANGED <<pc, status, call, handles>>
  BY <1>1
<1>2. CASE BeginSchedule \/ CreateFails \/ Return \/ ProcessStarts
  BY <1>2 DEF BeginSchedule, CreateFails, Return, ProcessStarts, BoardInStep
<1>3. CASE SpawnBatch
  BY <1>3 DEF SpawnBatch, TypeOK
<1>4. CASE ProcessEnds
  BY <1>4 DEF ProcessEnds, Stop, Everywhere
<1>5. ASSUME NEW t \in Task, NEW o \in Orders, CreateNext(t, o) PROVE Awaited'
  BY <1>5 DEF CreateNext, CreateTask, Placed, TypeOK, BoardTypeOK
<1>6. ASSUME NEW t \in Task, ResumeExisting(t) \/ JoinNext(t) \/ JoinFails(t) PROVE Awaited'
  BY <1>6 DEF ResumeExisting, JoinNext, JoinFails, TypeOK
<1>7. ASSUME NEW t \in Task, Recover(t) \/ Resume(t) PROVE Awaited'
  BY <1>7
  DEF Recover, Resume, RecoverInterruptedAttempt, SetStatus, BoardInStep, TypeOK, BoardTypeOK
<1>8. ASSUME NEW t \in Task, pc[t] \in Live, call' = call, handles' = handles,
             \A u \in Task \ {t} : pc'[u] = pc[u] /\ status'[u] = status[u],
             pc'[t] \in Finished => status'[t] = pc'[t]
      PROVE  Awaited'
  BY <1>8 DEF Live, Awaiting, UsesBoard
<1>9. ASSUME NEW t \in Task, RunOne(t) \/ Abort(t) PROVE Awaited'
  <2> USE DEF Live, Awaiting, UsesBoard, TypeOK, BoardTypeOK
  <2> DEFINE OnlyT == /\ pc[t] \in Live /\ call' = call /\ handles' = handles
                      /\ \A u \in Task \ {t} : pc'[u] = pc[u] /\ status'[u] = status[u]
                      /\ pc'[t] \in Finished => status'[t] = pc'[t]
  <2>1. CASE Begin(t) \/ SkipUndriven(t) \/ Acquire(t) \/ StartDriver(t) \/ DriverReturns(t)
             \/ Abort(t)
    <3>1. OnlyT
      BY <2>1 DEF Begin, SkipUndriven, Acquire, StartDriver, DriverReturns, Abort
    <3>. QED
      BY <1>8, <3>1
  <2>2. CASE AssignCandidate(t) \/ MarkRunning(t) \/ GiveUp(t)
    <3>1. OnlyT
      BY <2>2 DEF AssignCandidate, Assign, MarkRunning, GiveUp, SetStatus
    <3>. QED
      BY <1>8, <3>1
  <2>3. CASE RecordRunning(t)
    BY <1>8, <2>3 DEF RecordRunning, RecordAttempt
  <2>4. CASE SettleSuccess(t)
    BY <1>8, <2>4 DEF SettleSuccess, CommitSuccessfulResult
  <2>5. CASE SettleFailure(t)
    BY <1>8, <2>5 DEF SettleFailure, CompleteAttempt
  <2>. QED
    BY <1>9, <2>1, <2>2, <2>3, <2>4, <2>5 DEF RunOne
<1>10. CASE UNCHANGED vars
  BY <1>1, <1>10 DEF vars
<1>. QED
  BY <1>2, <1>3, <1>4, <1>5, <1>6, <1>7, <1>9, <1>10 DEF Next

\* A call that returns leaves every task it was given settled on the board,
\* and no permit out.
THEOREM ReturnsSettled == Spec => ReturnedCallIsSettled
<1>1. Init => Awaited
  BY DEF Init, Awaited, Everywhere, Finished
<1>2. TypeOK /\ Placed /\ BoardInStep /\ Awaited /\ [Next]_vars => Awaited'
  BY NextAwaited
<1>3. TypeOK /\ Awaited /\ PermitsConserved /\ [Next]_vars =>
        (Return => /\ \A t \in Task : pc[t] # "none" => status[t] \in Finished
                   /\ permits = MaxConcurrency)
  <2> SUFFICES ASSUME TypeOK, Awaited, PermitsConserved, Return
               PROVE  /\ \A t \in Task : pc[t] # "none" => status[t] \in Finished
                      /\ permits = MaxConcurrency
    OBVIOUS
  <2>1. \A t \in Task : pc[t] \in Finished \cup {"none"}
    BY DEF Awaited, Return
  <2>2. \A t \in Task : pc[t] # "none" => status[t] \in Finished
    BY <2>1 DEF Awaited
  <2>3. \A t \in Task : pc[t] \notin Holding
    BY <2>1 DEF Finished, Holding
  <2>4. ASSUME NEW a \in Agent PROVE permits[a] = MaxConcurrency[a]
    <3>1. Cardinality(Holders(a)) = 0
      BY <2>3, PermitsWhole
    <3>. QED
      BY <3>1 DEF PermitsConserved, TypeOK
  <2>5. permits \in [Agent -> Nat] /\ MaxConcurrency \in [Agent -> Nat \ {0}]
    BY ConcurrencyAssumption DEF TypeOK
  <2>6. permits = MaxConcurrency
    BY <2>4, <2>5
  <2>. QED
    BY <2>2, <2>6
<1>. QED
  BY <1>1, <1>2, <1>3, InductiveInvariant, PermitsAddUp, PTL DEF Spec, ReturnedCallIsSettled

-----------------------------------------------------------------------------
(* The order of the candidates.                                            *)

\* The attempts the driven candidates ahead of position c take.
Window(t, c) == MaxRetries * DrivenBefore(t, c)

\* Attempt i of this run_one was given to the candidate whose turn it was.
InTurn(t, i) ==
  \E c \in 1 .. Len(order[t]) :
    /\ order[t][c] \in Drivers
    /\ order[t][c] = runs[t][i].agent
    /\ i - base[t] \in Window(t, c) + 1 .. Window(t, c) + MaxRetries

\* How many attempts a run_one has recorded, told from where it is.
Progress(t) ==
  pc[t] \in (Live \cup Finished) \ {"begin"} =>
    /\ \A i \in base[t] + 1 .. Len(runs[t]) : InTurn(t, i)
    /\ pc[t] = "assign" =>
         cand[t] <= Len(order[t]) + 1 /\ Len(runs[t]) = base[t] + Window(t, cand[t])
    /\ pc[t] \in AtCandidate =>
         /\ tries[t] < MaxRetries
         /\ Len(runs[t]) = base[t] + Window(t, cand[t]) + tries[t] +
                           IF pc[t] \in {"acquire", "record"} THEN 0 ELSE 1
    /\ pc[t] = "failed" => Len(runs[t]) = base[t] + Window(t, Len(order[t]) + 1)

\* The windows of the driven candidates follow each other, each MaxRetries long.
LEMMA WindowNext ==
  ASSUME NEW t \in Task, NEW c \in Nat \ {0}
  PROVE  /\ DrivenBefore(t, c) \in Nat
         /\ Window(t, c) \in Nat
         /\ Window(t, 1) = 0
         /\ MaxRetries * (DrivenBefore(t, c) + 1) = Window(t, c) + MaxRetries
         /\ Window(t, c + 1) =
              IF order[t][c] \in Drivers THEN Window(t, c) + MaxRetries ELSE Window(t, c)
<1> DEFINE D(n) == {j \in 1 .. n : order[t][j] \in Drivers}
<1>1. \A n \in Nat : IsFiniteSet(D(n)) /\ Cardinality(D(n)) \in Nat
  <2> TAKE n \in Nat
  <2>1. IsFiniteSet(1 .. n)
    BY FS_Interval
  <2>2. D(n) \subseteq 1 .. n
    OBVIOUS
  <2>3. IsFiniteSet(D(n))
    BY <2>1, <2>2, FS_Subset
  <2>. QED
    BY <2>3, FS_CardinalityType
<1>2. Cardinality(D(0)) = 0
  <2>1. D(0) = {}
    OBVIOUS
  <2>. QED
    BY <2>1, FS_EmptySet
<1>3. Cardinality(D(c)) = IF order[t][c] \in Drivers THEN Cardinality(D(c - 1)) + 1
                          ELSE Cardinality(D(c - 1))
  <2>1. CASE order[t][c] \in Drivers
    <3>1. D(c) = D(c - 1) \cup {c} /\ c \notin D(c - 1)
      BY <2>1
    <3>2. IsFiniteSet(D(c - 1))
      BY <1>1
    <3> HIDE DEF D
    <3>. QED
      BY <2>1, <3>1, <3>2, FS_AddElement
  <2>2. CASE order[t][c] \notin Drivers
    <3>1. D(c) = D(c - 1)
      BY <2>2
    <3>. QED
      BY <2>2, <3>1
  <2>. QED
    BY <2>1, <2>2
<1>4. /\ DrivenBefore(t, c) = Cardinality(D(c - 1))
      /\ DrivenBefore(t, c + 1) = Cardinality(D(c))
      /\ DrivenBefore(t, 1) = Cardinality(D(0))
  <2>1. 1 - 1 = 0 /\ (c + 1) - 1 = c
    OBVIOUS
  <2>. QED
    BY <2>1 DEF DrivenBefore
<1>5. Cardinality(D(c - 1)) \in Nat
  BY <1>1
<1> HIDE DEF D
<1>. QED
  BY <1>2, <1>3, <1>4, <1>5, RetriesAssumption DEF Window

\* A task whose run_one, rows and order are left alone.
LEMMA ProgressFrame ==
  ASSUME NEW t \in Task, Progress(t), pc'[t] = pc[t], cand'[t] = cand[t], tries'[t] = tries[t],
         base'[t] = base[t], order'[t] = order[t], runs'[t] = runs[t]
  PROVE  Progress(t)'
<1>1. \A c : Window(t, c)' = Window(t, c)
  BY DEF Window, DrivenBefore
<1>2. \A i : InTurn(t, i)' = InTurn(t, i)
  BY <1>1 DEF InTurn
<1>. QED
  BY <1>1, <1>2 DEF Progress

\* The rows of a task whose attempts are settled keep their turns.
LEMMA TurnsKept ==
  ASSUME NEW t \in Task, base'[t] = base[t], order'[t] = order[t],
         Len(runs'[t]) = Len(runs[t]),
         \A i \in base[t] + 1 .. Len(runs[t]) : InTurn(t, i) /\ runs'[t][i].agent = runs[t][i].agent
  PROVE  /\ \A i \in base'[t] + 1 .. Len(runs'[t]) : InTurn(t, i)'
         /\ \A c : Window(t, c)' = Window(t, c)
<1>1. \A c : Window(t, c)' = Window(t, c)
  BY DEF Window, DrivenBefore
<1>. QED
  BY <1>1 DEF InTurn

LEMMA RunOneProgress ==
  ASSUME TypeOK, Placed, BoardInStep, NEW t \in Task, Progress(t), RunOne(t)
  PROVE  Progress(t)'
<1> USE DEF Goto, callVars, loopVars, budgets, processVars, boardVars
<1>0. /\ runs[t] \in Seq(Attempt) /\ Len(runs[t]) \in Nat /\ seq[t] \in Nat /\ base[t] \in Nat
      /\ tries[t] \in Nat /\ cand[t] \in Nat \ {0} /\ MaxRetries \in Nat \ {0}
      /\ Len(order[t]) \in Nat /\ BoardTypeOK
      /\ \A i \in 1 .. Len(runs[t]) : runs[t][i].attempt = i
  <2>1. runs[t] \in Seq(Attempt) /\ Len(runs[t]) \in Nat
    BY DEF TypeOK, BoardTypeOK
  <2>2. order[t] \in Orders \cup {<<>>}
    BY DEF TypeOK
  <2>3. Len(order[t]) \in Nat
    BY <2>2, OrdersAssumption
  <2>4. seq[t] \in Nat /\ base[t] \in Nat /\ tries[t] \in Nat /\ cand[t] \in Nat \ {0}
    BY DEF TypeOK
  <2>5. MaxRetries \in Nat \ {0} /\ BoardTypeOK
    BY RetriesAssumption DEF TypeOK
  <2>6. \A i \in 1 .. Len(runs[t]) : runs[t][i].attempt = i
    BY DEF BoardInStep, RowsMatchStatus
  <2>. QED
    BY <2>1, <2>3, <2>4, <2>5, <2>6
<1>a. /\ Window(t, cand[t]) \in Nat /\ Window(t, 1) = 0
      /\ Window(t, cand[t] + 1) = IF Candidate(t) \in Drivers
                                  THEN Window(t, cand[t]) + MaxRetries ELSE Window(t, cand[t])
  BY <1>0, WindowNext DEF Candidate
<1>b. UNCHANGED <<runs, order, base>> =>
        /\ \A c : Window(t, c)' = Window(t, c)
        /\ \A i : InTurn(t, i)' = InTurn(t, i)
  BY DEF InTurn, Window, DrivenBefore
<1> USE DEF Live, Awaiting, UsesBoard, Finished, AtCandidate, Holding
<1>1. CASE Begin(t)
  <2>1. /\ pc'[t] = "assign" /\ cand'[t] = 1 /\ base'[t] = Len(runs[t])
        /\ runs' = runs /\ order' = order
    BY <1>1 DEF Begin, TypeOK
  <2>2. Window(t, 1)' = Window(t, 1)
    BY <2>1 DEF Window, DrivenBefore
  <2>3. Window(t, cand[t])' = 0
    BY <1>a, <2>1, <2>2
  <2>4. Len(runs[t]) \in Nat /\ Len(order[t]) \in Nat
    BY <1>0
  <2>5. \A i \in base'[t] + 1 .. Len(runs'[t]) : FALSE
    BY <2>1, <2>4
  <2>6. cand'[t] <= Len(order'[t]) + 1 /\ Len(runs'[t]) = base'[t] + Window(t, cand[t])'
    BY <2>1, <2>3, <2>4
  <2>. QED
    BY <2>1, <2>5, <2>6 DEF Progress
<1>2. CASE SkipUndriven(t)
  <2>1. /\ pc[t] = "assign" /\ pc'[t] = "assign" /\ cand'[t] = cand[t] + 1
        /\ cand[t] <= Len(order[t]) /\ Candidate(t) \notin Drivers
        /\ UNCHANGED <<runs, order, base>>
    BY <1>2 DEF SkipUndriven, TypeOK
  <2>. QED
    BY <1>0, <1>a, <1>b, <2>1 DEF Progress
<1>3. CASE AssignCandidate(t)
  <2>1. /\ pc[t] = "assign" /\ pc'[t] = "acquire" /\ tries'[t] = 0 /\ cand' = cand
        /\ UNCHANGED <<runs, order, base>>
    BY <1>3 DEF AssignCandidate, Assign, TypeOK
  <2>. QED
    BY <1>0, <1>a, <1>b, <2>1 DEF Progress
<1>4. CASE Acquire(t) \/ MarkRunning(t) \/ StartDriver(t) \/ DriverReturns(t)
  <2>1. /\ \/ pc[t] = "acquire" /\ pc'[t] = "record"
           \/ pc[t] = "mark" /\ pc'[t] = "context"
           \/ pc[t] = "context" /\ pc'[t] = "driving"
           \/ pc[t] = "driving" /\ pc'[t] = "settle"
        /\ UNCHANGED <<runs, order, base, cand, tries>>
    BY <1>4 DEF Acquire, MarkRunning, SetStatus, StartDriver, DriverReturns, TypeOK
  <2>. QED
    BY <1>0, <1>a, <1>b, <2>1 DEF Progress
<1>5. CASE RecordRunning(t)
  <2> DEFINE n == Len(runs[t]) + 1
  <2>1. /\ pc[t] = "record" /\ pc'[t] = "mark" /\ UNCHANGED <<order, base, cand, tries>>
        /\ runs'[t] = Append(runs[t], [attempt |-> seq[t], agent |-> Candidate(t),
                                       status |-> "running"])
    BY <1>5 DEF RecordRunning, RecordAttempt, TypeOK, BoardTypeOK
  <2>2. /\ Len(runs'[t]) = n /\ runs'[t][n].agent = Candidate(t)
        /\ \A i \in 1 .. Len(runs[t]) : runs'[t][i] = runs[t][i]
    BY <1>0, <2>1
  <2>3. /\ cand[t] \in 1 .. Len(order[t]) /\ Candidate(t) \in Drivers
        /\ tries[t] < MaxRetries
        /\ n = base[t] + Window(t, cand[t]) + tries[t] + 1
        /\ \A i \in base[t] + 1 .. Len(runs[t]) : InTurn(t, i)
    BY <1>0, <1>a, <2>1, SMTT(30) DEF Placed, Progress
  <2>4. \A c : Window(t, c)' = Window(t, c)
    BY <2>1 DEF Window, DrivenBefore
  <2>5. ASSUME NEW i \in base[t] + 1 .. n PROVE InTurn(t, i)'
    <3>1. CASE i = n
      <4>1. n - base[t] \in Window(t, cand[t]) + 1 .. Window(t, cand[t]) + MaxRetries
        <5>1. PICK w \in Nat : w = Window(t, cand[t])
          BY <1>a
        <5>2. n = base[t] + w + tries[t] + 1 /\ tries[t] < MaxRetries
          BY <2>3, <5>1
        <5> HIDE DEF n
        <5>3. base[t] \in Nat /\ tries[t] \in Nat /\ MaxRetries \in Nat
          BY <1>0
        <5>4. n - base[t] \in w + 1 .. w + MaxRetries
          BY <5>2, <5>3
        <5>. QED
          BY <5>1, <5>4
      <4>. QED
        BY <2>1, <2>2, <2>3, <2>4, <3>1, <4>1 DEF InTurn, Candidate
    <3>2. CASE i # n
      <4>1. i \in base[t] + 1 .. Len(runs[t]) /\ i \in 1 .. Len(runs[t])
        BY <1>0, <3>2
      <4>2. InTurn(t, i) /\ runs'[t][i] = runs[t][i]
        BY <2>2, <2>3, <4>1
      <4>. QED
        BY <2>1, <2>4, <4>2 DEF InTurn
    <3>. QED
      BY <3>1, <3>2
  <2>. QED
    BY <1>0, <1>a, <2>1, <2>2, <2>3, <2>4, <2>5 DEF Progress
<1>6. CASE SettleSuccess(t)
  <2>1. /\ pc[t] = "settle" /\ pc'[t] = "succeeded" /\ UNCHANGED <<order, base>>
        /\ runs'[t] = Settled(t, seq[t], TaskStatus, "succeeded")
    BY <1>6 DEF SettleSuccess, CommitSuccessfulResult, TypeOK, BoardTypeOK
  <2>2. /\ Len(runs'[t]) = Len(runs[t])
        /\ \A i \in 1 .. Len(runs[t]) : runs'[t][i].agent = runs[t][i].agent
    BY <1>0, <2>1, SettledAgents DEF TaskStatus
  <2>3. \A i \in base[t] + 1 .. Len(runs[t]) : InTurn(t, i) /\ i \in 1 .. Len(runs[t])
    BY <1>0, <2>1 DEF Progress
  <2>4. \A i \in base'[t] + 1 .. Len(runs'[t]) : InTurn(t, i)'
    BY <2>1, <2>2, <2>3, TurnsKept
  <2>. QED
    BY <2>1, <2>4 DEF Progress
<1>7. CASE SettleFailure(t)
  <2> DEFINE exhausted == tries[t] + 1 >= MaxRetries
  <2>1. /\ pc[t] = "settle" /\ pc'[t] = IF exhausted THEN "assign" ELSE "acquire"
        /\ cand'[t] = IF exhausted THEN cand[t] + 1 ELSE cand[t]
        /\ tries'[t] = tries[t] + 1
        /\ UNCHANGED <<order, base>>
        /\ runs'[t] = Settled(t, seq[t], TaskStatus, "failed")
    BY <1>7 DEF SettleFailure, CompleteAttempt, TypeOK, BoardTypeOK
  <2>2. /\ Len(runs'[t]) = Len(runs[t])
        /\ \A i \in 1 .. Len(runs[t]) : runs'[t][i].agent = runs[t][i].agent
    BY <1>0, <2>1, SettledAgents DEF TaskStatus
  <2>3. \A i \in base[t] + 1 .. Len(runs[t]) : InTurn(t, i) /\ i \in 1 .. Len(runs[t])
    BY <1>0, <2>1 DEF Progress
  <2>4. /\ \A i \in base'[t] + 1 .. Len(runs'[t]) : InTurn(t, i)'
        /\ \A c : Window(t, c)' = Window(t, c)
    BY <2>1, <2>2, <2>3, TurnsKept
  <2>5. /\ cand[t] <= Len(order[t]) /\ Candidate(t) \in Drivers /\ tries[t] < MaxRetries
        /\ Len(runs[t]) = base[t] + Window(t, cand[t]) + tries[t] + 1
    BY <2>1 DEF Placed, Progress
  <2>6. CASE exhausted
    <3>1. /\ pc'[t] = "assign" /\ cand'[t] = cand[t] + 1
          /\ Len(runs'[t]) = base'[t] + Window(t, cand[t] + 1)
      <4>1. tries[t] + 1 = MaxRetries
        BY <1>0, <2>5, <2>6
      <4>2. Window(t, cand[t] + 1) = Window(t, cand[t]) + MaxRetries
        BY <1>a, <2>5
      <4>3. base'[t] = base[t]
        BY <2>1
      <4>4. Len(runs'[t]) = base[t] + (Window(t, cand[t]) + MaxRetries)
        <5>1. \A b, w, k, m \in Nat : k + 1 = m => b + w + k + 1 = b + (w + m)
          OBVIOUS
        <5>2. base[t] \in Nat /\ tries[t] \in Nat /\ MaxRetries \in Nat
              /\ Window(t, cand[t]) \in Nat
          BY <1>0, <1>a
        <5>3. Len(runs'[t]) = base[t] + Window(t, cand[t]) + tries[t] + 1
          BY <2>2, <2>5
        <5>. QED
          BY <4>1, <5>1, <5>2, <5>3
      <4>. QED
        BY <2>1, <2>6, <4>2, <4>3, <4>4
    <3>. QED
      BY <1>0, <2>1, <2>4, <2>5, <3>1 DEF Progress
  <2>7. CASE ~ exhausted
    <3>0. ~ (tries[t] + 1 >= MaxRetries) /\ tries[t] + 1 < MaxRetries
      BY <1>0, <2>7
    <3>1. pc'[t] = "acquire" /\ cand'[t] = cand[t] /\ tries'[t] < MaxRetries
      BY <2>1, <3>0
    <3>2. Len(runs'[t]) = base'[t] + Window(t, cand[t]) + tries'[t] + 0
      <4>1. PICK w \in Nat : w = Window(t, cand[t])
        BY <1>a
      <4>2. Len(runs[t]) = base[t] + w + tries[t] + 1
        BY <2>5, <4>1
      <4>3. base'[t] = base[t] /\ tries'[t] = tries[t] + 1
        BY <2>1
      <4>4. base[t] \in Nat /\ tries[t] \in Nat
        BY <1>0
      <4>5. base[t] + w + tries[t] + 1 = base[t] + w + (tries[t] + 1) + 0
        BY <4>4
      <4>. QED
        BY <2>2, <4>1, <4>2, <4>3, <4>5
    <3>. QED
      BY <2>4, <3>1, <3>2 DEF Progress
  <2>. QED
    BY <2>6, <2>7
<1>8. CASE GiveUp(t)
  <2>1. /\ pc[t] = "assign" /\ pc'[t] = "failed" /\ cand[t] > Len(order[t])
        /\ UNCHANGED <<runs, order, base>>
    BY <1>8 DEF GiveUp, SetStatus, TypeOK
  <2>2. cand[t] = Len(order[t]) + 1
    BY <1>0, <2>1 DEF Progress
  <2>. QED
    BY <1>b, <2>1, <2>2 DEF Progress
<1>. QED
  BY <1>1, <1>2, <1>3, <1>4, <1>5, <1>6, <1>7, <1>8 DEF RunOne

LEMMA NextProgress ==
  ASSUME TypeOK, Placed, BoardInStep, \A t \in Task : Progress(t), [Next]_vars
  PROVE  \A t \in Task : Progress(t)'
<1> USE DEF Goto, callVars, loopVars, budgets, processVars, boardVars, Finished
<1>0. ASSUME NEW u \in Task, pc'[u] \notin (Live \cup Finished) \ {"begin"} PROVE Progress(u)'
  BY <1>0 DEF Progress, Live, Awaiting, UsesBoard
<1>1. CASE UNCHANGED <<pc, cand, tries, base, order, runs>>
  BY <1>1, ProgressFrame
<1>2. CASE SpawnBatch
  <2> TAKE u \in Task
  <2>1. CASE u \in handles
    BY <1>0, <1>2, <2>1 DEF SpawnBatch, TypeOK, Live, Awaiting, UsesBoard
  <2>2. CASE u \notin handles
    BY <1>2, <2>2, ProgressFrame DEF SpawnBatch, TypeOK
  <2>. QED
    BY <2>1, <2>2
<1>3. CASE ProcessEnds
  BY <1>0, <1>3 DEF ProcessEnds, Stop, Everywhere, Live, Awaiting, UsesBoard
<1>4. ASSUME NEW t \in Task, NEW o \in Orders, CreateNext(t, o) PROVE \A u \in Task : Progress(u)'
  <2> TAKE u \in Task
  <2>1. CASE u = t
    <3>1. pc'[u] = "none"
      BY <1>4, <2>1 DEF CreateNext, CreateTask, Placed
    <3>. QED
      BY <1>0, <3>1 DEF Live, Awaiting, UsesBoard
  <2>2. CASE u # t
    BY <1>4, <2>2, ProgressFrame DEF CreateNext, CreateTask, TypeOK
  <2>. QED
    BY <2>1, <2>2
<1>5. ASSUME NEW t \in Task, ResumeExisting(t) \/ Abort(t) PROVE \A u \in Task : Progress(u)'
  <2> TAKE u \in Task
  <2>1. CASE u = t
    <3>1. pc'[u] \in {"begin", "broken"}
      BY <1>5, <2>1 DEF ResumeExisting, Abort, TypeOK
    <3>. QED
      BY <1>0, <3>1 DEF Live, Awaiting, UsesBoard
  <2>2. CASE u # t
    BY <1>5, <2>2, ProgressFrame DEF ResumeExisting, Abort, TypeOK
  <2>. QED
    BY <2>1, <2>2
<1>6. ASSUME NEW t \in Task, Recover(t) PROVE \A u \in Task : Progress(u)'
  <2>1. \A u \in Task : pc'[u] = "none"
    BY <1>6 DEF Recover, BoardInStep
  <2>. QED
    BY <1>0, <2>1 DEF Live, Awaiting, UsesBoard
<1>7. ASSUME NEW t \in Task, RunOne(t) PROVE \A u \in Task : Progress(u)'
  <2> TAKE u \in Task
  <2>1. CASE u = t
    BY <1>7, <2>1, RunOneProgress
  <2>2. CASE u # t
    <3>1. /\ pc'[u] = pc[u] /\ order'[u] = order[u] /\ runs'[u] = runs[u] /\ cand'[u] = cand[u]
      BY <1>7, <2>2, RunOneInStep DEF BoardInStep, InStep
    <3>2. tries'[u] = tries[u] /\ base'[u] = base[u]
      BY <1>7, <2>2
      DEF RunOne, Begin, SkipUndriven, AssignCandidate, Acquire, RecordRunning, MarkRunning,
          StartDriver, DriverReturns, SettleSuccess, SettleFailure, GiveUp, TypeOK
    <3>. QED
      BY <3>1, <3>2, ProgressFrame
  <2>. QED
    BY <2>1, <2>2
<1>8. \/ UNCHANGED <<pc, cand, tries, base, order, runs>>
      \/ SpawnBatch \/ ProcessEnds
      \/ \E t \in Task, o \in Orders : CreateNext(t, o)
      \/ \E t \in Task : ResumeExisting(t) \/ Abort(t) \/ Recover(t) \/ RunOne(t)
  BY DEF vars, Next, BeginSchedule, CreateFails, Return, JoinNext, JoinFails, Resume, SetStatus,
         ProcessStarts
<1>. QED
  BY <1>1, <1>2, <1>3, <1>4, <1>5, <1>6, <1>7, <1>8

\* The attempts of one run_one use up MaxRetries on each driven candidate, in
\* order, whatever the interleaving, and it gives up only after the last.
THEOREM OrderIsFollowed == Spec => []AttemptsFollowOrder
<1>1. Init => \A t \in Task : Progress(t)
  BY DEF Init, Progress, Everywhere, Live, Awaiting, UsesBoard, Finished
<1>2. TypeOK /\ Placed /\ BoardInStep /\ (\A t \in Task : Progress(t)) /\ [Next]_vars
        => (\A t \in Task : Progress(t))'
  BY NextProgress
<1>3. TypeOK /\ BoardInStep /\ Awaited /\ (\A t \in Task : Progress(t)) => AttemptsFollowOrder
  <2> SUFFICES ASSUME TypeOK, BoardInStep, Awaited, NEW t \in Task, Progress(t),
                      pc[t] \in (Live \cup Finished) \ {"begin"}
               PROVE  /\ \A i \in base[t] + 1 .. Len(runs[t]) :
                           \E c \in 1 .. Len(order[t]) :
                             /\ order[t][c] \in Drivers
                             /\ order[t][c] = runs[t][i].agent
                             /\ i - base[t] \in MaxRetries * DrivenBefore(t, c) + 1 ..
                                               MaxRetries * (DrivenBefore(t, c) + 1)
                      /\ pc[t] = "failed" =>
                           /\ Len(runs[t]) = base[t] + MaxRetries * DrivenBefore(t, Len(order[t]) + 1)
                           /\ AttemptsIn(t, "failed") = 1 .. Len(runs[t])
    BY DEF AttemptsFollowOrder
  <2>1. \A c \in 1 .. Len(order[t]) :
          /\ Window(t, c) = MaxRetries * DrivenBefore(t, c)
          /\ Window(t, c) + MaxRetries = MaxRetries * (DrivenBefore(t, c) + 1)
    <3> TAKE c \in 1 .. Len(order[t])
    <3>1. c \in Nat \ {0}
      OBVIOUS
    <3>. QED
      BY <3>1, WindowNext DEF Window
  <2>2. \A i \in base[t] + 1 .. Len(runs[t]) : InTurn(t, i)
    BY DEF Progress
  <2>3. pc[t] = "failed" => AttemptsIn(t, "failed") = 1 .. Len(runs[t])
    BY DEF Awaited, Finished, BoardInStep, RowsMatchStatus, AllFailed, AttemptsIn
  <2>4. pc[t] = "failed" => Len(runs[t]) = base[t] + Window(t, Len(order[t]) + 1)
    BY DEF Progress
  <2>. QED
    BY <2>1, <2>2, <2>3, <2>4 DEF InTurn, Window
<1>4. Init => Awaited
  BY DEF Init, Awaited, Everywhere, Finished
<1>5. TypeOK /\ Placed /\ BoardInStep /\ Awaited /\ [Next]_vars => Awaited'
  BY NextAwaited
<1>. QED
  BY <1>1, <1>2, <1>3, <1>4, <1>5, InductiveInvariant, PTL DEF Spec


-----------------------------------------------------------------------------
(* The inductive invariant.                                                *)

Delegated == Task \ {Root}
Idle == Finished \cup {"none"}

\* The one row the root can have.
LeadRow(s) == [attempt |-> 1, agent |-> LeadAgent, status |-> s]

\* The call the process serves, and the tasks at work, told from the Lead.
InCall ==
  /\ (lead = "off") = (call = "off")
  /\ call \in {"creating", "joining"} => lead = "scheduling"
  /\ lead = "scheduling" => call \in {"creating", "joining", "failed"} /\ round < MaxRounds
  /\ lead \in Creating \cup {"recovering", "seed", "decide"} => call = "idle"
  /\ lead \in Creating \cup {"off", "recovering", "seed"} => \A t \in Task : pc[t] = "none"

\* What a delegated task is doing, told from the call.
Served(t) ==
  /\ call \in {"idle", "creating"} \/ (call = "joining" /\ t \notin handles) => pc[t] \in Idle
  /\ pc[t] \in Finished => status[t] = pc[t]
  /\ call = "creating" /\ t \in handles => status[t] = "pending" /\ pc[t] = "none"
  /\ t \in handles \/ pc[t] # "none" => order[t] \in Orders

\* What an earlier process or an earlier batch left of it: no attempt is
\* running once its recovery is done, and it has failed only if it was tried.
AtRest(t) ==
  /\ lead = "recovering" /\ t \notin todo => AttemptsIn(t, "running") = {}
  /\ lead \in {"seed", "decide", "scheduling"} /\ pc[t] = "none" =>
       AttemptsIn(t, "running") = {}

Tried(t) ==
  /\ pc[t] = "assign" /\ (\E j \in 1 .. cand[t] - 1 : order[t][j] \in Drivers) =>
       runs[t] # <<>>
  /\ status[t] = "failed" => runs[t] # <<>>

\* The tasks the Lead knows are all there are, whenever it decides.
Known ==
  /\ team \subseteq Children
  /\ lead = "decide" => team = Children
  /\ call = "creating" => Children = team \cup handles
  /\ call = "joining" => \A t \in Children : t \in team \/ pc[t] # "none"
  /\ IsFiniteSet(Children) /\ Cardinality(Children) <= MaxTasks

\* A selection that may stand as a final answer.
Grounded(selection) ==
  selection # {} /\ \A t \in selection : t \in Children /\ status[t] = "succeeded"

\* The root is never scheduled.  It has at most the one row of its Lead.
RootInPlace ==
  /\ pc[Root] = "none" /\ Root \notin handles
  /\ ~ Exists(Root) => Children = {} /\ runs[Root] = <<>>
  /\ runs[Root] = <<>> \/ \E s \in {"running", "succeeded", "failed"} : runs[Root] = <<LeadRow(s)>>
  /\ lead \notin {"off", "create", "refused"} => Exists(Root)
  /\ lead = "create" => ~ Exists(Root)
  /\ lead \in {"assign", "record"} => runs[Root] = <<>>
  /\ lead \in Creating => Children = {}

\* The three transactions of persist_final and the two of a failure, one ahead
\* of the other.
RootOutcome ==
  /\ lead \notin {"off", "done"} => status[Root] # "succeeded"
  /\ status[Root] = "succeeded" => runs[Root] = <<LeadRow("succeeded")>> /\ Grounded(refs)
  /\ lead \in Persisting => Grounded(chosen)
  /\ lead \in {"attempt", "status"} => refs = chosen
  /\ lead = "status" => runs[Root] = <<LeadRow("succeeded")>>
  /\ lead = "settle_status" => runs[Root] = <<LeadRow("failed")>>
  /\ FailureIsSettled

IInv ==
  /\ RunTypeOK /\ Placed
  /\ \A t \in Delegated : InStep(t) /\ Served(t) /\ AtRest(t) /\ Tried(t)
  /\ InCall /\ Known /\ RootInPlace /\ RootOutcome

-----------------------------------------------------------------------------
(* Types.                                                                  *)

\* A transaction on the board leaves process and tasks well typed and placed.
LEMMA BoardStepTyped ==
  ASSUME TypeOK, Placed, BoardTypeOK', UNCHANGED Rest, \A t \in Task : Exists(t) => Exists(t)'
  PROVE  TypeOK' /\ Placed'
BY DEF TypeOK, Placed, Rest, processVars, budgets, Candidate

\* The end of a process does, too.
LEMMA StopTyped ==
  ASSUME TypeOK, Placed, Stop, crashes' \in 0 .. MaxCrashes
  PROVE  TypeOK' /\ Placed'
<1>1. MaxConcurrency \in [Agent -> Nat]
  BY ConcurrencyAssumption
<1>2. BoardTypeOK'
  BY DEF Stop, boardVars, BoardTypeOK, TypeOK
<1>3. Placed'
  BY DEF Stop, Everywhere, Placed, AtCandidate, Holding
<1>. QED
  BY <1>1, <1>2, <1>3 DEF Stop, Everywhere, TypeOK

\* Attempt 1 of the root is settled, whether or not it was recorded.
LEMMA SettleLeadType ==
  ASSUME TypeOK, NEW s \in TaskStatus, SettleLeadAttempt(s)
  PROVE  BoardTypeOK' /\ status' = status
<1>1. Root \in Task /\ LeadAgent \in Agent /\ BoardTypeOK
  BY RootAssumption, LeadAssumption DEF TypeOK
<1>. QED
  BY <1>1, CompleteAttemptType, RecordAttemptType
     DEF SettleLeadAttempt, CompleteAttempt, RecordAttempt

\* Every step of a run is well typed.
LEMMA BoardTyped ==
  ASSUME IInv, [RunNext]_allVars
  PROVE  TypeOK' /\ Placed'
<1> USE DEF IInv, RunTypeOK
<1>a. /\ Root \in Task /\ LeadAgent \in Agent /\ BoardTypeOK
      /\ TaskStatus = {"pending", "assigned", "running", "succeeded", "failed", "cancelled"}
  BY RootAssumption, LeadAssumption DEF TypeOK, TaskStatus
<1>b. ASSUME UNCHANGED boardVars, UNCHANGED Rest PROVE TypeOK' /\ Placed'
  BY <1>b DEF Rest, boardVars, BoardTypeOK, TypeOK, Placed, processVars, budgets, Candidate, Exists
<1>c. ASSUME Next PROVE TypeOK' /\ Placed'
  BY <1>c, NextTyped
<1>1. CASE CreateRoot
  BY <1>a, <1>1, CreateTaskType, BoardStepTyped DEF CreateRoot, CreateTask, Exists, BoardTypeOK
<1>2. CASE AssignRoot
  BY <1>a, <1>2, AssignType, BoardStepTyped DEF AssignRoot, Assign, Exists, BoardTypeOK
<1>3. CASE RecordLeadAttempt
  BY <1>a, <1>3, RecordAttemptType, BoardStepTyped DEF RecordLeadAttempt, RecordAttempt, Exists
<1>4. CASE MarkRoot \/ PersistStatus \/ SettleFailedStatus
  BY <1>a, <1>4, SetStatusType, BoardStepTyped
     DEF MarkRoot, PersistStatus, SettleFailedStatus, SetStatus, Exists, BoardTypeOK
<1>5. CASE PersistAttempt
  BY <1>a, <1>5, SettleLeadType, BoardStepTyped DEF PersistAttempt, Exists
<1>6. CASE SettleFailedAttempt
  BY <1>a, <1>b, <1>6, SettleLeadType, BoardStepTyped DEF SettleFailedAttempt, Exists
<1>7. ASSUME NEW t \in Task, RecoverNext(t) PROVE TypeOK' /\ Placed'
  <2>1. CASE AttemptsIn(t, "running") = {}
    BY <1>b, <1>7, <2>1 DEF RecoverNext
  <2>2. CASE RecoverInterruptedAttempt(t) /\ UNCHANGED Rest
    <3>1. BoardTypeOK'
      BY <1>a, <2>2, RecoverType
    <3>2. \A u \in Task : Exists(u) => Exists(u)'
      BY <1>a, <2>2 DEF RecoverInterruptedAttempt, Exists, BoardTypeOK
    <3>. QED
      BY <2>2, <3>1, <3>2, BoardStepTyped
  <2>. QED
    BY <1>7, <2>1, <2>2 DEF RecoverNext
<1>8. CASE RecoveryDone \/ SeedTasks \/ BatchFails \/ DecisionFails \/ PersistRefs
           \/ \E selection \in SUBSET Task : Complete(selection)
  BY <1>b, <1>8 DEF RecoveryDone, SeedTasks, BatchFails, DecisionFails, PersistRefs, Complete
<1>9. CASE BoardFails
  <2>1. faults' \in 0 .. MaxFaults /\ UNCHANGED <<boardVars, order, processVars, crashes, resumes>>
    BY <1>9, BoundsAssumption DEF BoardFails, TypeOK
  <2>. QED
    BY <2>1 DEF boardVars, BoardTypeOK, TypeOK, Placed, processVars, Candidate, Exists
<1>10. CASE Exit \/ Kill
  <2>1. Stop
    BY <1>10 DEF Exit, Kill, Forget
  <2>2. crashes \in 0 .. MaxCrashes /\ MaxCrashes \in Nat
    BY BoundsAssumption DEF TypeOK
  <2>3. crashes' = crashes \/ (crashes < MaxCrashes /\ crashes' = crashes + 1)
    BY <1>10 DEF Exit, Kill
  <2>4. crashes' \in 0 .. MaxCrashes
    BY <2>2, <2>3
  <2>. QED
    BY <2>1, <2>4, StopTyped
<1>11. CASE StartRun \/ StartResume \/ Delegate \/ StartBatch \/ BatchReturns
            \/ (lead = "scheduling" /\ CreateFails /\ UNCHANGED runVars)
  BY <1>c, <1>11 DEF StartRun, StartResume, Delegate, StartBatch, BatchReturns, Next
<1>12. ASSUME NEW t \in Task, NEW o \in Orders, DelegateTask(t, o) PROVE TypeOK' /\ Placed'
  BY <1>c, <1>12 DEF DelegateTask, Next
<1>13. ASSUME NEW t \in Task, JoinNext(t) \/ JoinFails(t) \/ TaskStep(t) \/ Abort(t) \/ Recover(t)
       PROVE  TypeOK' /\ Placed'
  BY <1>c, <1>13 DEF TaskStep, Next
<1>14. CASE UNCHANGED allVars
  BY <1>b, <1>14 DEF allVars, vars, Rest
<1>. QED
  BY <1>1, <1>2, <1>3, <1>4, <1>5, <1>6, <1>7, <1>8, <1>9, <1>10, <1>11, <1>12, <1>13, <1>14
     DEF RunNext, LeadStep, OperatorRecovers

\* The Lead is where its own steps and its call leave it.
LEMMA ControlStep ==
  ASSUME IInv, [RunNext]_allVars
  PROVE  RunTypeOK' /\ Placed' /\ InCall'
<1> USE DEF IInv, RunTypeOK, InCall, RootInPlace, Creating, Persisting, Settling, Ended,
            GoOn, leadVars, Rest, processVars, runVars
<1>a. Root \in Task /\ MaxRounds \in Nat \ {0} /\ Children \subseteq Task \ {Root}
  BY RootAssumption, LimitsAssumption DEF Children
<1>b. TypeOK' /\ Placed'
  BY BoardTyped
<1>c. SUFFICES /\ refs' \subseteq Task /\ round' \in 0 .. MaxRounds
               /\ lead' \in {"off", "recovering", "seed", "decide", "scheduling"}
                           \cup Creating \cup Persisting \cup Settling \cup Ended
               /\ team' \subseteq Task \ {Root} /\ chosen' \subseteq Task
               /\ todo' \subseteq Task \ {Root}
               /\ InCall'
  BY <1>b
<1>1. CASE StartRun \/ StartResume
  BY <1>1, <1>a DEF StartRun, StartResume, ProcessStarts
<1>2. CASE CreateRoot \/ AssignRoot \/ RecordLeadAttempt \/ MarkRoot
  BY <1>2, <1>a DEF CreateRoot, AssignRoot, RecordLeadAttempt, MarkRoot
<1>3. ASSUME NEW t \in Task, RecoverNext(t)
      PROVE  <1>c!1
  BY <1>3, <1>a DEF RecoverNext
<1>4. CASE RecoveryDone \/ SeedTasks \/ DecisionFails \/ BatchFails
  BY <1>4, <1>a DEF RecoveryDone, SeedTasks, DecisionFails, BatchFails
<1>5. CASE Delegate
  BY <1>5, <1>a DEF Delegate, BeginSchedule
<1>6. ASSUME NEW t \in Task, NEW o \in Orders, DelegateTask(t, o) PROVE <1>c!1
  BY <1>6, <1>a DEF DelegateTask, CreateNext
<1>7. CASE StartBatch
  BY <1>7, <1>a DEF StartBatch, SpawnBatch
<1>8. CASE BatchReturns
  BY <1>8, <1>a DEF BatchReturns, Return, Finished
<1>9. ASSUME NEW t \in Task, lead = "scheduling", UNCHANGED runVars, JoinNext(t) \/ JoinFails(t)
      PROVE  <1>c!1
  BY <1>9, <1>a DEF JoinNext, JoinFails
<1>10. ASSUME NEW selection \in SUBSET Task, Complete(selection) PROVE <1>c!1
  BY <1>10, <1>a DEF Complete
<1>11. CASE PersistRefs \/ PersistAttempt \/ PersistStatus
  BY <1>11, <1>a DEF PersistRefs, PersistAttempt, PersistStatus
<1>12. CASE SettleFailedAttempt \/ SettleFailedStatus
  BY <1>12, <1>a DEF SettleFailedAttempt, SettleFailedStatus
<1>13. ASSUME NEW t \in Task, UNCHANGED runVars, call = "joining", RunOne(t) \/ Abort(t)
       PROVE  <1>c!1
  <2>1. UNCHANGED <<call, handles>>
    BY <1>13 DEF RunOne, Begin, SkipUndriven, AssignCandidate, Acquire, RecordRunning, MarkRunning,
                 StartDriver, DriverReturns, SettleSuccess, SettleFailure, GiveUp, Abort, callVars
  <2>. QED
    BY <1>13, <2>1, <1>a
<1>14. CASE lead = "scheduling" /\ CreateFails /\ UNCHANGED runVars
  BY <1>14, <1>a DEF CreateFails
<1>15. CASE BoardFails
  BY <1>15, <1>a DEF BoardFails
<1>16. CASE Exit \/ Kill
  BY <1>16, <1>a DEF Exit, Kill, Forget, Stop, Everywhere
<1>17. ASSUME NEW t \in Task, OperatorRecovers(t) PROVE <1>c!1
  BY <1>17, <1>a DEF OperatorRecovers, Recover
<1>18. CASE UNCHANGED allVars
  BY <1>18, <1>a DEF allVars, vars
<1>. QED
  BY <1>1, <1>2, <1>3, <1>4, <1>5, <1>6, <1>7, <1>8, <1>9, <1>10, <1>11, <1>12, <1>13, <1>14,
     <1>15, <1>16, <1>17, <1>18 DEF RunNext, LeadStep, TaskStep

-----------------------------------------------------------------------------
(* What a step can do to the delegated tasks.                              *)

\* Neither a row nor a local of t changes.
Still(t) ==
  /\ status'[t] = status[t] /\ assignee'[t] = assignee[t] /\ runs'[t] = runs[t]
  /\ outputs'[t] = outputs[t] /\ order'[t] = order[t] /\ pc'[t] = pc[t]
  /\ cand'[t] = cand[t] /\ seq'[t] = seq[t]

\* A step leaves them alone, ends the process, starts a batch, or is the step
\* of one of them: its creation, a step of its run_one, or its recovery.
LEMMA Shape ==
  ASSUME IInv, [RunNext]_allVars
  PROVE  \/ \A t \in Delegated : Still(t)
         \/ Stop
         \/ SpawnBatch
         \/ \E t \in Delegated, o \in Orders : CreateNext(t, o)
         \/ \E t \in Delegated : call = "joining" /\ (RunOne(t) \/ Abort(t))
         \/ \E t \in Delegated : /\ RecoverInterruptedAttempt(t) /\ UNCHANGED Rest
                                 /\ \A u \in Task : pc[u] = "none"
<1> USE DEF IInv, RunTypeOK, TypeOK, BoardTypeOK, Delegated
<1>a. Root \in Task
  BY RootAssumption
<1>1. CASE UNCHANGED <<boardVars, order, pc, loopVars>>
  BY <1>1 DEF boardVars, loopVars, Still
<1>2. CASE StartRun \/ StartResume \/ RecoveryDone \/ SeedTasks \/ DecisionFails \/ BatchFails
           \/ Delegate \/ BatchReturns \/ PersistRefs \/ BoardFails \/ UNCHANGED allVars
           \/ (lead = "scheduling" /\ CreateFails /\ UNCHANGED runVars)
           \/ \E selection \in SUBSET Task : Complete(selection)
           \/ \E t \in Task : JoinNext(t) \/ JoinFails(t)
  BY <1>1, <1>2 DEF StartRun, StartResume, ProcessStarts, RecoveryDone, SeedTasks, DecisionFails,
       BatchFails, Delegate, BeginSchedule, BatchReturns, Return, PersistRefs, BoardFails, CreateFails,
       Complete, JoinNext, JoinFails, Rest, processVars, allVars, vars, loopVars
<1>3. ASSUME UNCHANGED Rest, \A t \in Delegated : /\ status'[t] = status[t] /\ assignee'[t] = assignee[t]
                                                  /\ runs'[t] = runs[t] /\ outputs'[t] = outputs[t]
      PROVE  \A t \in Delegated : Still(t)
  BY <1>3 DEF Rest, processVars, Still
<1>4. CASE CreateRoot \/ AssignRoot \/ RecordLeadAttempt \/ MarkRoot \/ PersistStatus \/ SettleFailedStatus
  BY <1>a, <1>3, <1>4 DEF CreateRoot, AssignRoot, RecordLeadAttempt, MarkRoot, PersistStatus,
       SettleFailedStatus, CreateTask, Assign, RecordAttempt, SetStatus
<1>5. CASE PersistAttempt \/ SettleFailedAttempt
  BY <1>a, <1>3, <1>5 DEF PersistAttempt, SettleFailedAttempt, SettleLeadAttempt, CompleteAttempt,
       RecordAttempt, boardVars
<1>6. ASSUME NEW t \in Task, RecoverInterruptedAttempt(t), UNCHANGED Rest,
             \A u \in Task : pc[u] = "none"
      PROVE  \/ \A u \in Delegated : Still(u)
             \/ \E u \in Delegated : /\ RecoverInterruptedAttempt(u) /\ UNCHANGED Rest
                                     /\ \A v \in Task : pc[v] = "none"
  <2>1. CASE t = Root
    BY <1>a, <1>3, <1>6, <2>1 DEF RecoverInterruptedAttempt
  <2>. QED
    BY <1>6, <2>1
<1>7. ASSUME NEW t \in Task, RecoverNext(t) \/ OperatorRecovers(t)
      PROVE  \/ \A u \in Delegated : Still(u)
             \/ \E u \in Delegated : /\ RecoverInterruptedAttempt(u) /\ UNCHANGED Rest
                                     /\ \A v \in Task : pc[v] = "none"
  <2>1. (\A u \in Task : pc[u] = "none") /\ UNCHANGED Rest
    BY <1>7 DEF RecoverNext, OperatorRecovers, Recover, InCall, Rest
  <2>2. UNCHANGED boardVars \/ RecoverInterruptedAttempt(t)
    BY <1>7 DEF RecoverNext, OperatorRecovers, Recover
  <2>3. CASE UNCHANGED boardVars
    BY <1>3, <2>1, <2>3 DEF boardVars
  <2>4. CASE RecoverInterruptedAttempt(t)
    BY <1>6, <2>1, <2>4
  <2>. QED
    BY <2>2, <2>3, <2>4
<1>8. CASE Exit \/ Kill
  BY <1>8 DEF Exit, Kill, Forget
<1>9. ASSUME NEW t \in Task, NEW o \in Orders, DelegateTask(t, o)
      PROVE  \E u \in Delegated, n \in Orders : CreateNext(u, n)
  BY <1>9 DEF DelegateTask, CreateNext, CreateTask, RootInPlace
<1>10. ASSUME NEW t \in Task, call = "joining", RunOne(t) \/ Abort(t)
       PROVE  \E u \in Delegated : call = "joining" /\ (RunOne(u) \/ Abort(u))
  <2>1. pc[t] # "none"
    BY <1>10 DEF RunOne, Begin, SkipUndriven, AssignCandidate, Acquire, RecordRunning, MarkRunning,
                 StartDriver, DriverReturns, SettleSuccess, SettleFailure, GiveUp, Abort, UsesBoard
  <2>. QED
    BY <1>10, <2>1 DEF RootInPlace
<1>. QED
  BY <1>2, <1>4, <1>5, <1>7, <1>8, <1>9, <1>10 DEF RunNext, LeadStep, StartBatch, TaskStep

\* Every delegated task stays in step with its run_one.
LEMMA InStepStep ==
  ASSUME IInv, [RunNext]_allVars
  PROVE  \A t \in Delegated : InStep(t)'
<1>a. TypeOK /\ BoardTypeOK /\ Placed /\ handles \subseteq Task /\ Delegated \subseteq Task
  BY DEF IInv, RunTypeOK, TypeOK, Delegated
<1>b. \A t \in Delegated : InStep(t) /\ Served(t)
  BY DEF IInv
<1>1. CASE \A t \in Delegated : Still(t)
  BY <1>a, <1>b, <1>1, Frame DEF Still
<1>2. CASE Stop
  <2>1. \A t \in Delegated : pc'[t] = "none"
    BY <1>2, <1>a DEF Stop, Everywhere
  <2>. QED
    BY <1>a, <1>b, <1>2, <2>1, FrameBoard DEF Stop, boardVars
<1>3. CASE SpawnBatch
  <2> SUFFICES ASSUME NEW t \in Delegated PROVE InStep(t)'
    OBVIOUS
  <2>1. CASE t \in handles
    <3>1. pc'[t] = "begin" /\ status[t] = "pending" /\ InStep(t)
      BY <1>3, <1>a, <1>b, <2>1 DEF SpawnBatch, Served
    <3>. QED
      BY <1>3, <3>1
      DEF SpawnBatch, InStep, RowsMatchStatus, RowsMatchPc, AllFailed, LastIs, Holding, boardVars
  <2>2. CASE t \notin handles
    BY <1>3, <1>a, <1>b, <2>2, Frame DEF SpawnBatch, boardVars, loopVars
  <2>. QED
    BY <2>1, <2>2
<1>4. ASSUME NEW t \in Delegated, NEW o \in Orders, CreateNext(t, o)
      PROVE  \A u \in Delegated : InStep(u)'
  <2>1. status[t] = "absent" /\ pc[t] = "none"
    BY <1>4, <1>a DEF CreateNext, CreateTask, Placed, Exists
  <2>2. status'[t] = "pending" /\ pc'[t] = "none"
    BY <1>4, <1>a, <2>1 DEF CreateNext, CreateTask, BoardTypeOK
  <2>3. InStep(t)'
    BY <1>b, <1>4, <2>1, <2>2
    DEF CreateNext, CreateTask, InStep, RowsMatchStatus, RowsMatchPc, AllFailed, LastIs, Holding
  <2>4. \A u \in Delegated \ {t} : InStep(u)'
    BY <1>a, <1>b, <1>4, Frame DEF CreateNext, CreateTask, TypeOK, BoardTypeOK, loopVars
  <2>. QED
    BY <2>3, <2>4
<1>5. ASSUME NEW t \in Delegated, RunOne(t) PROVE \A u \in Delegated : InStep(u)'
  <2>1. /\ \A u \in Task \ {t} :
             /\ status'[u] = status[u] /\ assignee'[u] = assignee[u]
             /\ runs'[u] = runs[u] /\ outputs'[u] = outputs[u]
             /\ order'[u] = order[u] /\ pc'[u] = pc[u]
             /\ cand'[u] = cand[u] /\ seq'[u] = seq[u]
        /\ InStep(t)'
    BY <1>a, <1>b, <1>5, RunOneInStep
  <2>. QED
    BY <1>a, <1>b, <2>1, Frame
<1>6. ASSUME NEW t \in Delegated, Abort(t) PROVE \A u \in Delegated : InStep(u)'
  <2>1. pc'[t] = "broken" /\ \A u \in Task \ {t} : pc'[u] = pc[u]
    BY <1>a, <1>6 DEF Abort, Goto, TypeOK
  <2>2. InStep(t)'
    BY <1>a, <1>b, <1>6, <2>1, FrameBoard DEF Abort, boardVars
  <2>. QED
    BY <1>a, <1>b, <1>6, <2>1, <2>2, Frame DEF Abort, boardVars, loopVars
<1>7. ASSUME NEW t \in Delegated, RecoverInterruptedAttempt(t), UNCHANGED Rest,
             \A u \in Task : pc[u] = "none"
      PROVE  \A u \in Delegated : InStep(u)'
  <2>1. UNCHANGED <<order, pc, cand, seq>> /\ pc'[t] = "none"
    BY <1>a, <1>7 DEF Rest, processVars
  <2>2. /\ InStep(t)'
        /\ \A u \in Task \ {t} : /\ status'[u] = status[u] /\ runs'[u] = runs[u]
                                 /\ outputs'[u] = outputs[u] /\ assignee'[u] = assignee[u]
    BY <1>a, <1>b, <1>7, <2>1, RecoverInStep
  <2>. QED
    BY <1>a, <1>b, <2>1, <2>2, Frame
<1>. QED
  BY <1>1, <1>2, <1>3, <1>4, <1>5, <1>6, <1>7, Shape

\* A step of run_one works on a task that has no outcome, and gives it one only
\* where it ends.
LEMMA RunOneMoves ==
  ASSUME TypeOK, Placed, NEW t \in Task, InStep(t), RunOne(t)
  PROVE  /\ pc[t] \in Live /\ pc'[t] # "none" /\ UNCHANGED order
         /\ status[t] # "succeeded" /\ Exists(t)'
         /\ pc'[t] \in Finished => status'[t] = pc'[t]
<1> USE DEF TypeOK, BoardTypeOK, Live, Awaiting, UsesBoard, Finished, Goto, Exists
<1>a. pc[t] \in Live => status[t] # "succeeded" /\ status[t] # "absent"
  BY DEF InStep, RowsMatchPc, Placed
<1>1. CASE Begin(t) \/ SkipUndriven(t) \/ Acquire(t) \/ StartDriver(t) \/ DriverReturns(t)
  BY <1>1, <1>a DEF Begin, SkipUndriven, Acquire, StartDriver, DriverReturns, boardVars
<1>2. CASE AssignCandidate(t) \/ MarkRunning(t) \/ GiveUp(t)
  BY <1>2, <1>a DEF AssignCandidate, Assign, MarkRunning, GiveUp, SetStatus
<1>3. CASE RecordRunning(t) \/ SettleSuccess(t)
  BY <1>3, <1>a DEF RecordRunning, RecordAttempt, SettleSuccess, CommitSuccessfulResult
<1>4. CASE SettleFailure(t)
  BY <1>4, <1>a DEF SettleFailure, CompleteAttempt
<1>. QED
  BY <1>1, <1>2, <1>3, <1>4 DEF RunOne

\* Whoever has an outcome is tried: candidates without a driver alone cannot
\* use up an order.
LEMMA RunOneTried ==
  ASSUME TypeOK, Placed, NEW t \in Task, InStep(t), Tried(t), order[t] \in Orders, RunOne(t)
  PROVE  Tried(t)'
<1> USE DEF TypeOK, BoardTypeOK, Tried, Goto
<1>a. /\ runs[t] \in Seq(Attempt) /\ cand[t] \in Nat \ {0} /\ Len(order[t]) \in Nat
      /\ BoardTypeOK
  BY OrdersAssumption
<1>1. CASE Begin(t)
  BY <1>1, <1>a DEF Begin, boardVars
<1>2. CASE SkipUndriven(t)
  <2>1. cand'[t] = cand[t] + 1 /\ order[t][cand[t]] \notin Drivers
    BY <1>2 DEF SkipUndriven, Candidate
  <2>2. UNCHANGED <<status, runs, order, pc>>
    BY <1>2 DEF SkipUndriven, boardVars
  <2>3. \A j \in 1 .. (cand[t] + 1) - 1 : j \in 1 .. cand[t] - 1 \/ j = cand[t]
    BY <1>a
  <2>. QED
    BY <2>1, <2>2, <2>3
<1>3. CASE AssignCandidate(t) \/ MarkRunning(t)
  BY <1>3 DEF AssignCandidate, Assign, MarkRunning, SetStatus
<1>4. CASE Acquire(t) \/ StartDriver(t) \/ DriverReturns(t)
  BY <1>4 DEF Acquire, StartDriver, DriverReturns, boardVars
<1>5. CASE RecordRunning(t)
  <2> DEFINE row == [attempt |-> seq[t], agent |-> Candidate(t), status |-> "running"]
  <2>1. runs'[t] = Append(runs[t], row)
    BY <1>5 DEF RecordRunning, RecordAttempt
  <2>2. row \in Attempt
    BY <1>5, DriversAssumption DEF RecordRunning, Placed, AtCandidate, Holding, Attempt, TaskStatus
  <2>3. Len(runs'[t]) = Len(runs[t]) + 1
    BY <1>a, <2>1, <2>2, AppendProperties
  <2>4. runs'[t] # <<>>
    BY <1>a, <2>3
  <2>. QED
    BY <2>4
<1>6. CASE SettleSuccess(t)
  BY <1>6 DEF SettleSuccess, CommitSuccessfulResult
<1>7. CASE SettleFailure(t)
  <2>1. Len(runs[t]) > 0
    BY <1>7 DEF SettleFailure, InStep, RowsMatchPc, LastIs
  <2>2. runs'[t] = Settled(t, seq[t], TaskStatus, "failed")
    BY <1>7 DEF SettleFailure, CompleteAttempt
  <2>3. Len(runs'[t]) = Len(runs[t])
    BY <1>a, <2>2, SettledAgents DEF TaskStatus
  <2>4. runs'[t] # <<>>
    BY <2>1, <2>3
  <2>. QED
    BY <2>4
<1>8. CASE GiveUp(t)
  <2>1. /\ pc[t] = "assign" /\ cand[t] > Len(order[t])
        /\ UNCHANGED <<runs, order, cand>> /\ pc'[t] = "failed"
    BY <1>8 DEF GiveUp, SetStatus, loopVars
  <2>2. PICK i \in 1 .. Len(order[t]) : order[t][i] \in Drivers
    BY RoutableAssumption
  <2>3. i \in 1 .. cand[t] - 1
    BY <1>a, <2>1
  <2>4. runs[t] # <<>>
    BY <2>1, <2>2, <2>3
  <2>. QED
    BY <2>1, <2>4
<1>. QED
  BY <1>1, <1>2, <1>3, <1>4, <1>5, <1>6, <1>7, <1>8 DEF RunOne

\* Delegated tasks do not vanish, and what has succeeded stays as it is.
LEMMA KeptStep ==
  ASSUME IInv, [RunNext]_allVars
  PROVE  \A t \in Delegated :
           /\ Exists(t) => Exists(t)'
           /\ status[t] = "succeeded" =>
                status'[t] = "succeeded" /\ runs'[t] = runs[t] /\ outputs'[t] = outputs[t]
<1>a. TypeOK /\ BoardTypeOK /\ Placed /\ Delegated \subseteq Task /\ \A t \in Delegated : InStep(t)
  BY DEF IInv, RunTypeOK, TypeOK, Delegated
<1>1. CASE \A t \in Delegated : Still(t)
  BY <1>1 DEF Still, Exists
<1>2. CASE Stop \/ SpawnBatch
  BY <1>2 DEF Stop, SpawnBatch, boardVars, Exists
<1>3. ASSUME NEW t \in Delegated, NEW o \in Orders, CreateNext(t, o)
      PROVE  \A u \in Delegated :
               /\ Exists(u) => Exists(u)'
               /\ status[u] = "succeeded" =>
                    status'[u] = "succeeded" /\ runs'[u] = runs[u] /\ outputs'[u] = outputs[u]
  BY <1>a, <1>3 DEF CreateNext, CreateTask, Exists, BoardTypeOK
<1>4. ASSUME NEW t \in Delegated, RunOne(t)
      PROVE  \A u \in Delegated :
               /\ Exists(u) => Exists(u)'
               /\ status[u] = "succeeded" =>
                    status'[u] = "succeeded" /\ runs'[u] = runs[u] /\ outputs'[u] = outputs[u]
  BY <1>a, <1>4, RunOneInStep, RunOneMoves DEF Exists
<1>5. ASSUME NEW t \in Delegated, Abort(t)
      PROVE  \A u \in Delegated : UNCHANGED <<status, runs, outputs>>
  BY <1>5 DEF Abort, boardVars
<1>6. ASSUME NEW t \in Delegated, RecoverInterruptedAttempt(t), UNCHANGED Rest,
             \A u \in Task : pc[u] = "none"
      PROVE  \A u \in Delegated :
               /\ Exists(u) => Exists(u)'
               /\ status[u] = "succeeded" =>
                    status'[u] = "succeeded" /\ runs'[u] = runs[u] /\ outputs'[u] = outputs[u]
  <2>1. pc'[t] = "none"
    BY <1>a, <1>6 DEF Rest, processVars
  <2>. QED
    BY <1>a, <1>6, <2>1, RecoverInStep DEF Exists
<1>. QED
  BY <1>1, <1>2, <1>3, <1>4, <1>5, <1>6, Shape DEF Exists

-----------------------------------------------------------------------------
(* What the call and the Lead know of them.                                *)

\* A task whose status is not that of a task at work has no running attempt.
LEMMA NoneRunning ==
  ASSUME NEW t \in Task, BoardTypeOK, InStep(t),
         status[t] \in {"absent", "pending", "succeeded", "failed"}
  PROVE  AttemptsIn(t, "running") = {}
<1>1. Len(runs[t]) \in Nat
  BY DEF BoardTypeOK
<1>2. CASE status[t] = "succeeded"
  BY <1>1, <1>2 DEF InStep, RowsMatchStatus, LastIs, AttemptsIn
<1>3. CASE status[t] # "succeeded"
  BY <1>3 DEF InStep, RowsMatchStatus, AllFailed, AttemptsIn
<1>. QED
  BY <1>2, <1>3

\* A step of one delegated task shows in its own outcome only.
LEMMA TriedStep ==
  ASSUME IInv, [RunNext]_allVars
  PROVE  \A t \in Delegated : Tried(t)'
<1>a. TypeOK /\ BoardTypeOK /\ Placed /\ Delegated \subseteq Task
  BY DEF IInv, RunTypeOK, TypeOK, Delegated
<1>b. \A t \in Delegated : InStep(t) /\ Tried(t) /\ Served(t)
  BY DEF IInv
<1>c. ASSUME NEW u \in Delegated, status'[u] = status[u], runs'[u] = runs[u],
             pc'[u] # "assign" \/ (pc'[u] = pc[u] /\ cand'[u] = cand[u] /\ order'[u] = order[u])
      PROVE  Tried(u)'
  BY <1>b, <1>c DEF Tried
<1>1. CASE \A t \in Delegated : Still(t)
  BY <1>c, <1>1 DEF Still
<1>2. CASE Stop \/ SpawnBatch
  BY <1>a, <1>c, <1>2 DEF Stop, SpawnBatch, Everywhere, boardVars, loopVars
<1>3. ASSUME NEW t \in Delegated, NEW o \in Orders, CreateNext(t, o)
      PROVE  \A u \in Delegated : Tried(u)'
  <2>1. status'[t] = "pending" /\ pc'[t] # "assign"
    BY <1>a, <1>3 DEF CreateNext, CreateTask, Placed, Exists, BoardTypeOK
  <2>2. Tried(t)'
    BY <2>1 DEF Tried
  <2>3. \A u \in Delegated \ {t} : Tried(u)'
    BY <1>a, <1>c, <1>3 DEF CreateNext, CreateTask, BoardTypeOK, TypeOK, loopVars
  <2>. QED
    BY <2>2, <2>3
<1>4. ASSUME NEW t \in Delegated, RunOne(t) PROVE \A u \in Delegated : Tried(u)'
  <2>1. order[t] \in Orders
    BY <1>a, <1>b, <1>4, RunOneMoves DEF Served, Live, Awaiting, UsesBoard
  <2>2. Tried(t)'
    BY <1>a, <1>b, <1>4, <2>1, RunOneTried
  <2>3. \A u \in Delegated \ {t} : Tried(u)'
    BY <1>a, <1>b, <1>c, <1>4, RunOneInStep
  <2>. QED
    BY <2>2, <2>3
<1>5. ASSUME NEW t \in Delegated, Abort(t) PROVE \A u \in Delegated : Tried(u)'
  BY <1>a, <1>c, <1>5 DEF Abort, Goto, TypeOK, boardVars, loopVars
<1>6. ASSUME NEW t \in Delegated, RecoverInterruptedAttempt(t), UNCHANGED Rest,
             \A u \in Task : pc[u] = "none"
      PROVE  \A u \in Delegated : Tried(u)'
  <2>1. UNCHANGED <<pc, cand, order>> /\ pc'[t] = "none"
    BY <1>a, <1>6 DEF Rest, processVars
  <2>2. /\ Len(runs'[t]) > 0
        /\ \A u \in Task \ {t} : status'[u] = status[u] /\ runs'[u] = runs[u]
    BY <1>a, <1>b, <1>6, <2>1, RecoverInStep
  <2>3. Tried(t)'
    BY <2>1, <2>2 DEF Tried
  <2>4. \A u \in Delegated \ {t} : Tried(u)'
    BY <1>a, <1>c, <2>1, <2>2
  <2>. QED
    BY <2>3, <2>4
<1>. QED
  BY <1>1, <1>2, <1>3, <1>4, <1>5, <1>6, Shape

\* Tasks at work are those the call awaits, and those that are not have no
\* attempt running.
LEMMA ServedStep ==
  ASSUME IInv, [RunNext]_allVars
  PROVE  \A t \in Delegated : Served(t)' /\ AtRest(t)'
<1>a. /\ TypeOK /\ BoardTypeOK /\ Placed /\ Delegated \subseteq Task /\ Root \in Task
      /\ InCall /\ RootInPlace /\ Children \subseteq Delegated
  BY RootAssumption DEF IInv, RunTypeOK, TypeOK, Delegated, Children
<1>b. \A t \in Delegated : InStep(t) /\ Served(t) /\ AtRest(t)
  BY DEF IInv
<1>c. \A t \in Delegated : ~ Exists(t) => AttemptsIn(t, "running") = {}
  BY <1>a, <1>b, NoneRunning DEF Exists
<1>d. ASSUME NEW t \in Delegated, pc'[t] = pc[t], order'[t] = order[t], status'[t] = status[t],
             call' = call, handles' = handles
      PROVE  Served(t)'
  BY <1>b, <1>d DEF Served
<1>e. ASSUME NEW t \in Delegated, runs'[t] = runs[t], pc'[t] = "none" => pc[t] = "none",
             \/ lead' = lead /\ todo' = todo
             \/ lead' \notin {"recovering", "seed", "decide", "scheduling"}
             \/ lead' # "recovering" /\ lead \in {"seed", "decide", "scheduling"}
      PROVE  AtRest(t)'
  BY <1>b, <1>e DEF AtRest, AttemptsIn
<1> USE DEF Idle
<1>1. CASE StartRun \/ StartResume
  <2>1. ASSUME NEW t \in Delegated PROVE Served(t)'
    BY <1>1, <1>a, <1>b, <2>1
       DEF StartRun, StartResume, ProcessStarts, Served, InCall, boardVars
  <2>2. ASSUME NEW t \in Delegated PROVE AtRest(t)'
    <3>1. AttemptsIn(t, "running")' = AttemptsIn(t, "running")
      BY <1>1 DEF StartRun, StartResume, ProcessStarts, boardVars, AttemptsIn
    <3>2. lead' = "recovering" /\ t \notin todo' => ~ Exists(t)
      BY <1>1, <2>2 DEF StartRun, StartResume, GoOn, Children, Delegated
    <3>3. lead' \notin {"seed", "decide", "scheduling"}
      BY <1>1 DEF StartRun, StartResume, GoOn
    <3>. QED
      BY <1>c, <3>1, <3>2, <3>3 DEF AtRest
  <2>. QED
    BY <2>1, <2>2
<1>2. CASE CreateRoot \/ AssignRoot \/ RecordLeadAttempt \/ PersistStatus \/ SettleFailedStatus
           \/ PersistAttempt \/ SettleFailedAttempt
  <2>1. /\ UNCHANGED Rest
        /\ \A t \in Delegated : status'[t] = status[t] /\ runs'[t] = runs[t]
        /\ lead' \notin {"recovering", "seed", "decide", "scheduling"}
    BY <1>2, <1>a DEF CreateRoot, AssignRoot, RecordLeadAttempt, PersistStatus, SettleFailedStatus,
       PersistAttempt, SettleFailedAttempt, SettleLeadAttempt, CreateTask, Assign, SetStatus,
       CompleteAttempt, RecordAttempt, BoardTypeOK, GoOn, Delegated, boardVars
  <2>. QED
    BY <1>d, <1>e, <2>1 DEF Rest, processVars
<1>3. CASE MarkRoot
  <2>1. UNCHANGED Rest /\ \A t \in Delegated : status'[t] = status[t] /\ runs'[t] = runs[t]
    BY <1>3, <1>a DEF MarkRoot, SetStatus, Delegated, BoardTypeOK
  <2>2. lead' = "seed" /\ \A t \in Delegated : ~ Exists(t)
    BY <1>3, <1>a DEF MarkRoot, GoOn, RootInPlace, Creating, Children, Delegated
  <2>3. \A t \in Delegated : AtRest(t)'
    BY <1>c, <2>1, <2>2 DEF AtRest, AttemptsIn
  <2>. QED
    BY <1>d, <2>1, <2>3 DEF Rest, processVars
<1>4. ASSUME NEW t \in Task, RecoverNext(t) PROVE \A u \in Delegated : Served(u)' /\ AtRest(u)'
  <2>1. /\ UNCHANGED <<order, pc, call, handles, lead>> /\ pc'[t] = "none"
        /\ lead = "recovering" /\ todo' = todo \ {t} /\ t \in Delegated
    BY <1>4, <1>a DEF RecoverNext, Rest, processVars, InCall, IInv, RunTypeOK, Delegated
  <2>2. CASE AttemptsIn(t, "running") = {}
    BY <1>4, <1>b, <1>d, <2>1, <2>2 DEF RecoverNext, AtRest, AttemptsIn, boardVars
  <2>3. CASE RecoverInterruptedAttempt(t)
    <3>1. /\ InStep(t)' /\ AllFailed(t)' /\ status'[t] = "failed"
          /\ \A u \in Task \ {t} : status'[u] = status[u] /\ runs'[u] = runs[u]
      BY <1>a, <1>b, <2>1, <2>3, RecoverInStep
    <3>2. AttemptsIn(t, "running")' = {}
      BY <3>1 DEF AllFailed, AttemptsIn
    <3>3. \A u \in Delegated \ {t} : Served(u)' /\ AtRest(u)'
      BY <1>a, <1>b, <1>d, <2>1, <3>1 DEF AtRest, AttemptsIn
    <3>4. Served(t)' /\ AtRest(t)'
      BY <1>a, <1>b, <2>1, <3>2 DEF Served, AtRest, Finished, InCall, Creating
    <3>. QED
      BY <3>3, <3>4
  <2>. QED
    BY <1>4, <2>2, <2>3 DEF RecoverNext
<1>5. CASE RecoveryDone
  <2>1. UNCHANGED <<boardVars, Rest>> /\ lead = "recovering" /\ lead' = "seed" /\ todo = {}
    BY <1>5 DEF RecoveryDone, GoOn
  <2>2. \A t \in Delegated : AtRest(t)'
    BY <1>b, <2>1 DEF AtRest, AttemptsIn, boardVars
  <2>. QED
    BY <1>d, <2>1, <2>2 DEF Rest, processVars, boardVars
<1>6. CASE SeedTasks \/ DecisionFails \/ BatchFails \/ PersistRefs
           \/ \E selection \in SUBSET Task : Complete(selection)
  <2>1. /\ UNCHANGED <<boardVars, Rest>>
        /\ \/ lead' \notin {"recovering", "seed", "decide", "scheduling"}
           \/ lead' # "recovering" /\ lead \in {"seed", "decide", "scheduling"}
    BY <1>6 DEF SeedTasks, DecisionFails, BatchFails, PersistRefs, Complete, GoOn
  <2>. QED
    BY <1>d, <1>e, <2>1 DEF Rest, processVars, boardVars
<1>7. CASE Delegate \/ BatchReturns
  <2>1. ASSUME NEW t \in Delegated PROVE Served(t)'
    BY <1>7, <1>b, <2>1 DEF Delegate, BeginSchedule, BatchReturns, Return, Served, boardVars
  <2>. QED
    BY <1>7, <1>e, <2>1 DEF Delegate, BeginSchedule, BatchReturns, Return, GoOn, boardVars
<1>8. ASSUME NEW t \in Task, NEW o \in Orders, DelegateTask(t, o)
      PROVE  \A u \in Delegated : Served(u)' /\ AtRest(u)'
  <2>1. /\ status[t] = "absent" /\ pc[t] = "none" /\ pc' = pc /\ runs' = runs
        /\ call = "creating" /\ call' = call /\ UNCHANGED runVars
        /\ order' = [order EXCEPT ![t] = o] /\ handles' = handles \cup {t}
        /\ status' = [status EXCEPT ![t] = "pending"]
    BY <1>8, <1>a DEF DelegateTask, CreateNext, CreateTask, Placed, Exists
  <2>2. \A u \in Delegated : Served(u)'
    BY <1>a, <1>b, <2>1 DEF Served, BoardTypeOK, TypeOK, Finished
  <2>. QED
    BY <1>e, <2>1, <2>2 DEF runVars, leadVars
<1>9. CASE StartBatch
  <2>1. ASSUME NEW t \in Delegated PROVE Served(t)'
    BY <1>9, <1>a, <1>b, <2>1 DEF StartBatch, SpawnBatch, Served, Finished, boardVars
  <2>. QED
    BY <1>9, <1>a, <1>e, <2>1 DEF StartBatch, SpawnBatch, runVars, leadVars, boardVars
<1>10. ASSUME NEW t \in Task, UNCHANGED runVars, JoinNext(t) \/ JoinFails(t)
       PROVE  \A u \in Delegated : Served(u)' /\ AtRest(u)'
  <2>1. ASSUME NEW u \in Delegated PROVE Served(u)'
    BY <1>10, <1>b, <2>1 DEF JoinNext, JoinFails, Served, boardVars
  <2>. QED
    BY <1>10, <1>e, <2>1 DEF JoinNext, JoinFails, runVars, leadVars, boardVars
<1>11. ASSUME NEW t \in Delegated, call = "joining", RunOne(t), UNCHANGED runVars
       PROVE  \A u \in Delegated : Served(u)' /\ AtRest(u)'
  <2>1. /\ call' = call /\ handles' = handles
        /\ \A u \in Task \ {t} : /\ status'[u] = status[u] /\ runs'[u] = runs[u]
                                 /\ order'[u] = order[u] /\ pc'[u] = pc[u]
    BY <1>a, <1>b, <1>11, RunOneInStep
  <2>2. /\ pc[t] \in Live /\ pc'[t] # "none" /\ order' = order
        /\ pc'[t] \in Finished => status'[t] = pc'[t]
    BY <1>a, <1>b, <1>11, RunOneMoves
  <2>3. Served(t)'
    BY <1>b, <1>11, <2>1, <2>2 DEF Served, Live, Awaiting, UsesBoard, Finished
  <2>4. AtRest(t)'
    BY <1>a, <1>11, <2>2 DEF AtRest, InCall, runVars
  <2>5. \A u \in Delegated \ {t} : Served(u)' /\ AtRest(u)'
    BY <1>a, <1>d, <1>e, <1>11, <2>1 DEF runVars, leadVars
  <2>. QED
    BY <2>3, <2>4, <2>5
<1>12. ASSUME NEW t \in Delegated, call = "joining", Abort(t), UNCHANGED runVars
       PROVE  \A u \in Delegated : Served(u)' /\ AtRest(u)'
  <2>1. /\ pc[t] \in Live /\ pc' = [pc EXCEPT ![t] = "broken"]
        /\ UNCHANGED <<boardVars, order, call, handles>>
    BY <1>12 DEF Abort, Goto, callVars, Live, Awaiting
  <2>2. Served(t)'
    BY <1>a, <1>b, <1>12, <2>1
       DEF Served, Live, Awaiting, UsesBoard, Finished, TypeOK, boardVars
  <2>3. \A u \in Delegated \ {t} : Served(u)'
    BY <1>a, <1>d, <2>1 DEF boardVars, TypeOK
  <2>4. \A u \in Delegated : AtRest(u)'
    BY <1>a, <1>e, <1>12, <2>1 DEF runVars, leadVars, boardVars, TypeOK
  <2>. QED
    BY <2>2, <2>3, <2>4
<1>13. CASE lead = "scheduling" /\ CreateFails /\ UNCHANGED runVars
  <2>1. ASSUME NEW t \in Delegated PROVE Served(t)'
    BY <1>13, <1>b, <2>1 DEF CreateFails, Served, boardVars
  <2>. QED
    BY <1>13, <1>e, <2>1 DEF CreateFails, runVars, leadVars, boardVars
<1>14. CASE BoardFails
  <2>1. /\ UNCHANGED <<boardVars, order, processVars>>
        /\ lead' \notin {"recovering", "seed", "decide", "scheduling"}
    BY <1>14 DEF BoardFails
  <2>. QED
    BY <1>d, <1>e, <2>1 DEF processVars, boardVars
<1>15. CASE Exit \/ Kill
  <2>1. lead' = "off" /\ call' = "off" /\ handles' = {} /\ \A t \in Delegated : pc'[t] = "none"
    BY <1>15, <1>a DEF Exit, Kill, Forget, Stop, Everywhere
  <2>. QED
    BY <2>1 DEF Served, AtRest, Finished
<1>16. ASSUME NEW t \in Task, OperatorRecovers(t) PROVE \A u \in Delegated : Served(u)' /\ AtRest(u)'
  <2>1. /\ call' = "off" /\ lead' = "off" /\ UNCHANGED <<order, pc, handles>>
        /\ \A u \in Task : pc[u] = "none"
    BY <1>16, <1>a DEF OperatorRecovers, Recover, InCall, processVars, runVars
  <2>. QED
    BY <1>a, <1>b, <2>1 DEF Served, AtRest, Finished
<1>17. CASE UNCHANGED allVars
  BY <1>17, <1>d, <1>e DEF allVars, vars, processVars, runVars, leadVars, boardVars
<1>18. ASSUME NEW t \in Task, call = "joining", RunOne(t) \/ Abort(t) PROVE t \in Delegated
  <2>1. pc[t] # "none"
    BY <1>18 DEF RunOne, Begin, SkipUndriven, AssignCandidate, Acquire, RecordRunning, MarkRunning,
                 StartDriver, DriverReturns, SettleSuccess, SettleFailure, GiveUp, Abort, UsesBoard
  <2>. QED
    BY <1>a, <2>1 DEF RootInPlace, Delegated
<1>. QED
  BY <1>1, <1>2, <1>3, <1>4, <1>5, <1>6, <1>7, <1>8, <1>9, <1>10, <1>11, <1>12, <1>13, <1>14,
     <1>15, <1>16, <1>17, <1>18 DEF RunNext, LeadStep, TaskStep

\* The Lead misses no task, and none is created beyond the budget.
LEMMA KnownStep ==
  ASSUME IInv, [RunNext]_allVars
  PROVE  Known'
<1>a. /\ TypeOK /\ BoardTypeOK /\ Placed /\ Root \in Task /\ MaxTasks \in Nat \ {0}
      /\ InCall /\ RootInPlace /\ InCall' /\ handles \subseteq Task
  BY RootAssumption, LimitsAssumption, ControlStep DEF IInv, RunTypeOK, TypeOK
<1>b. /\ Known /\ \A t \in Delegated : InStep(t) /\ Served(t)
  BY DEF IInv
<1>c. \A t \in Task : t \in Children <=> t \in Delegated /\ Exists(t)
  BY DEF Children, Delegated
<1>d. ASSUME Children' = Children, team' \in {team, {}}, lead' # "decide" \/ team' = Children,
             call' \notin {"creating", "joining"}
      PROVE  Known'
  BY <1>b, <1>d DEF Known
<1>e. ASSUME UNCHANGED status PROVE Children' = Children
  BY <1>e DEF Children, Exists
<1>f. ASSUME \A t \in Delegated : Exists(t)' = Exists(t) PROVE Children' = Children
  BY <1>f DEF Children, Delegated
<1> USE DEF InCall, GoOn, leadVars, runVars, boardVars
<1>1. CASE StartRun \/ StartResume
  BY <1>1, <1>d, <1>e DEF StartRun, StartResume, ProcessStarts
<1>2. CASE CreateRoot \/ AssignRoot \/ MarkRoot \/ PersistStatus \/ SettleFailedStatus
  <2>1. Children' = Children
    BY <1>2, <1>a, <1>f DEF CreateRoot, AssignRoot, MarkRoot, PersistStatus, SettleFailedStatus,
       CreateTask, Assign, SetStatus, BoardTypeOK, Delegated, Exists
  <2>2. UNCHANGED <<team, call>> /\ lead' # "decide" /\ lead # "scheduling"
    BY <1>2 DEF CreateRoot, AssignRoot, MarkRoot, PersistStatus, SettleFailedStatus, Rest, processVars
  <2>. QED
    BY <1>a, <1>d, <2>1, <2>2
<1>3. CASE RecordLeadAttempt \/ PersistAttempt \/ SettleFailedAttempt
  <2>1. UNCHANGED status
    BY <1>3 DEF RecordLeadAttempt, PersistAttempt, SettleFailedAttempt, SettleLeadAttempt,
       CompleteAttempt, RecordAttempt
  <2>2. UNCHANGED <<team, call>> /\ lead' # "decide" /\ lead # "scheduling"
    BY <1>3 DEF RecordLeadAttempt, PersistAttempt, SettleFailedAttempt, Rest, processVars
  <2>. QED
    BY <1>a, <1>d, <1>e, <2>1, <2>2
<1>4. ASSUME NEW t \in Task, RecoverInterruptedAttempt(t), pc' = pc, \A u \in Task : pc[u] = "none"
      PROVE  Children' = Children
  <2>1. CASE t = Root
    BY <1>4, <1>f, <2>1 DEF RecoverInterruptedAttempt, BoardTypeOK, Delegated, Exists
  <2>2. CASE t # Root
    <3>1. status'[t] = "failed" /\ \A u \in Task \ {t} : status'[u] = status[u]
      BY <1>4, <1>a, <1>b, <2>2, RecoverInStep DEF Delegated
    <3>2. Exists(t)
      BY <1>4, <1>a, <1>b, <2>2, NoneRunning DEF RecoverInterruptedAttempt, Exists, Delegated
    <3>. QED
      BY <1>f, <3>1, <3>2 DEF Exists, Delegated
  <2>. QED
    BY <2>1, <2>2
<1>5. ASSUME NEW t \in Task, RecoverNext(t) PROVE Known'
  <2>1. /\ UNCHANGED <<pc, call, team, lead>> /\ lead = "recovering"
        /\ \A u \in Task : pc[u] = "none"
    BY <1>5, <1>a DEF RecoverNext, Rest, processVars
  <2>2. Children' = Children
    BY <1>4, <1>5, <1>e, <2>1 DEF RecoverNext
  <2>. QED
    BY <1>a, <1>d, <2>1, <2>2
<1>6. ASSUME NEW t \in Task, OperatorRecovers(t) PROVE Known'
  <2>1. /\ UNCHANGED <<pc, call, team, lead>> /\ call = "off" /\ \A u \in Task : pc[u] = "none"
    BY <1>6, <1>a DEF OperatorRecovers, Recover, processVars
  <2>2. Children' = Children
    BY <1>4, <1>6, <2>1 DEF OperatorRecovers, Recover
  <2>. QED
    BY <1>a, <1>d, <2>1, <2>2
<1>7. CASE RecoveryDone \/ DecisionFails \/ BatchFails \/ PersistRefs \/ SeedTasks
           \/ \E selection \in SUBSET Task : Complete(selection)
  <2>1. Children' = Children
    BY <1>7, <1>e DEF RecoveryDone, DecisionFails, BatchFails, PersistRefs, SeedTasks, Complete
  <2>2. UNCHANGED call /\ call \notin {"creating", "joining"}
    BY <1>7, <1>a DEF RecoveryDone, DecisionFails, BatchFails, PersistRefs, SeedTasks, Complete,
                      Rest, processVars, Creating
  <2>3. CASE SeedTasks
    BY <1>b, <2>1, <2>2, <2>3 DEF SeedTasks, Known
  <2>4. CASE ~ SeedTasks
    BY <1>7, <1>d, <2>1, <2>2, <2>4
       DEF RecoveryDone, DecisionFails, BatchFails, PersistRefs, Complete
  <2>. QED
    BY <2>3, <2>4
<1>8. CASE Delegate
  BY <1>8, <1>b, <1>e DEF Delegate, BeginSchedule, Known
<1>9. ASSUME NEW t \in Task, NEW o \in Orders, DelegateTask(t, o) PROVE Known'
  <2>1. /\ call = "creating" /\ call' = "creating" /\ lead' = "scheduling" /\ team' = team
        /\ handles' = handles \cup {t} /\ ~ Exists(t)
        /\ status' = [status EXCEPT ![t] = "pending"]
        /\ Cardinality(team \cup handles) < MaxTasks
    BY <1>9 DEF DelegateTask, CreateNext, CreateTask
  <2>2. t \in Delegated /\ t \notin Children
    BY <1>a, <1>c, <2>1 DEF Delegated, RootInPlace
  <2>3. Children' = Children \cup {t}
    BY <1>a, <2>1, <2>2 DEF Children, Delegated, BoardTypeOK, Exists
  <2>4. Children = team \cup handles
    BY <1>b, <2>1 DEF Known
  <2>5. Children' = team' \cup handles'
    BY <2>1, <2>3, <2>4
  <2>6. IsFiniteSet(Children') /\ Cardinality(Children') = Cardinality(Children) + 1
    BY <1>b, <2>2, <2>3, FS_AddElement DEF Known
  <2>7. Cardinality(Children) \in Nat /\ Cardinality(Children) < MaxTasks
    BY <1>b, <2>1, <2>4, FS_CardinalityType DEF Known
  <2>8. Cardinality(Children') <= MaxTasks
    BY <1>a, <2>6, <2>7
  <2>9. team' \subseteq Children'
    BY <1>b, <2>1, <2>3 DEF Known
  <2>. QED
    BY <2>1, <2>5, <2>6, <2>8, <2>9 DEF Known
<1>10. CASE StartBatch
  <2>1. /\ call = "creating" /\ call' = "joining" /\ lead' = "scheduling" /\ team' = team
        /\ \A t \in Task : t \in handles => pc'[t] = "begin"
    BY <1>10 DEF StartBatch, SpawnBatch
  <2>2. Children' = Children
    BY <1>10, <1>e DEF StartBatch, SpawnBatch
  <2>. QED
    BY <1>b, <1>c, <2>1, <2>2 DEF Known, Delegated, Children
<1>11. CASE BatchReturns
  <2>1. /\ call = "joining" /\ call' = "idle" /\ handles = {}
        /\ team' = team \cup {t \in Task : pc[t] \in Finished}
    BY <1>11 DEF BatchReturns, Return
  <2>2. Children' = Children
    BY <1>11, <1>e DEF BatchReturns, Return
  <2>3. \A t \in Task : pc[t] \in Finished => t \in Children
    BY <1>a DEF Children, Placed, RootInPlace, Finished
  <2>4. \A t \in Children : t \in team \/ pc[t] \in Finished
    BY <1>b, <1>c, <2>1 DEF Known, Served, Idle, Children
  <2>5. team' = Children
    BY <1>b, <2>1, <2>3, <2>4 DEF Known, Children
  <2>. QED
    BY <1>b, <2>1, <2>2, <2>5 DEF Known
<1>12. ASSUME NEW t \in Task, UNCHANGED runVars, lead = "scheduling", JoinNext(t) \/ JoinFails(t)
       PROVE  Known'
  BY <1>12, <1>b, <1>e DEF JoinNext, JoinFails, Known
<1>13. ASSUME NEW t \in Task, call = "joining", UNCHANGED runVars, call' = call,
              pc[t] # "none", pc'[t] # "none", Exists(t)',
              \A u \in Task \ {t} : status'[u] = status[u] /\ pc'[u] = pc[u]
       PROVE  Known'
  <2>1. Exists(t) /\ t \in Delegated
    BY <1>13, <1>a DEF Placed, RootInPlace, Delegated
  <2>2. Children' = Children
    BY <1>13, <1>f, <2>1 DEF Exists, Delegated
  <2>. QED
    BY <1>13, <1>a, <1>b, <2>2 DEF Known, Children
<1>14. ASSUME NEW t \in Task, call = "joining", UNCHANGED runVars, RunOne(t) PROVE Known'
  <2>1. pc[t] # "none"
    BY <1>14 DEF RunOne, Begin, SkipUndriven, AssignCandidate, Acquire, RecordRunning, MarkRunning,
                 StartDriver, DriverReturns, SettleSuccess, SettleFailure, GiveUp
  <2>2. InStep(t)
    BY <1>a, <1>b, <2>1 DEF RootInPlace, Delegated
  <2>. QED
    BY <1>13, <1>14, <1>a, <2>1, <2>2, RunOneInStep, RunOneMoves
<1>15. ASSUME NEW t \in Task, call = "joining", UNCHANGED runVars, Abort(t) PROVE Known'
  <2>1. /\ pc[t] # "none" /\ pc' = [pc EXCEPT ![t] = "broken"]
        /\ UNCHANGED <<status, call>>
    BY <1>15 DEF Abort, Goto, UsesBoard, callVars
  <2>2. Exists(t)' /\ pc'[t] = "broken" /\ \A u \in Task \ {t} : pc'[u] = pc[u]
    BY <1>a, <2>1 DEF Placed, Exists, TypeOK
  <2>. QED
    BY <1>13, <1>15, <2>1, <2>2
<1>16. CASE lead = "scheduling" /\ CreateFails /\ UNCHANGED runVars
  BY <1>16, <1>d, <1>e DEF CreateFails
<1>17. CASE BoardFails
  BY <1>17, <1>a, <1>d, <1>e DEF BoardFails, processVars, Creating, Persisting, Settling
<1>18. CASE Exit \/ Kill
  BY <1>18, <1>d, <1>e DEF Exit, Kill, Forget, Stop
<1>19. CASE UNCHANGED allVars
  <2>1. Children' = Children
    BY <1>19, <1>e DEF allVars, vars
  <2>. QED
    BY <1>19, <1>b, <2>1 DEF allVars, vars, processVars, Known
<1>. QED
  BY <1>1, <1>2, <1>3, <1>5, <1>6, <1>7, <1>8, <1>9, <1>10, <1>11, <1>12, <1>14,
     <1>15, <1>16, <1>17, <1>18, <1>19 DEF RunNext, LeadStep, TaskStep

-----------------------------------------------------------------------------
(* The root.                                                               *)

\* Only a call creates tasks.
LEMMA ChildrenStep ==
  ASSUME IInv, [RunNext]_allVars
  PROVE  Children' = Children \/ lead = "scheduling"
<1>a. /\ TypeOK /\ BoardTypeOK /\ InCall /\ Delegated \subseteq Task
      /\ \A t \in Delegated : InStep(t)
  BY DEF IInv, RunTypeOK, TypeOK, Delegated
<1>b. ASSUME \A t \in Delegated : Exists(t)' = Exists(t) PROVE Children' = Children
  BY <1>b DEF Children, Delegated
<1>1. CASE (\A t \in Delegated : Still(t)) \/ Stop \/ SpawnBatch
  BY <1>1, <1>b DEF Still, Stop, SpawnBatch, boardVars, Exists
<1>2. ASSUME NEW t \in Delegated, RecoverInterruptedAttempt(t), UNCHANGED Rest,
             \A u \in Task : pc[u] = "none"
      PROVE  Children' = Children
  <2>1. pc'[t] = "none"
    BY <1>a, <1>2 DEF Rest, processVars
  <2>2. status'[t] = "failed" /\ \A u \in Task \ {t} : status'[u] = status[u]
    BY <1>a, <1>2, <2>1, RecoverInStep
  <2>3. Exists(t)
    BY <1>a, <1>2, NoneRunning DEF RecoverInterruptedAttempt, Exists
  <2>. QED
    BY <1>a, <1>b, <2>2, <2>3 DEF Exists
<1>3. ASSUME NEW t \in Delegated, NEW o \in Orders, CreateNext(t, o) PROVE lead = "scheduling"
  BY <1>a, <1>3 DEF CreateNext, InCall
<1>4. ASSUME NEW t \in Delegated, call = "joining" PROVE lead = "scheduling"
  BY <1>a, <1>4 DEF InCall
<1>. QED
  BY <1>1, <1>2, <1>3, <1>4, Shape

\* An answer that may stand may stand after every step.
LEMMA GroundedStays ==
  ASSUME IInv, [RunNext]_allVars, NEW S, Grounded(S)
  PROVE  S # {} /\ \A t \in S : t \in Children' /\ status'[t] = "succeeded"
BY KeptStep DEF Grounded, Children, Delegated

\* The row of the Lead after it is settled, recorded or not.
LEMMA LeadSettled ==
  ASSUME BoardTypeOK, RootInPlace, NEW s, SettleLeadAttempt(s)
  PROVE  runs'[Root] = <<LeadRow(s)>> /\ UNCHANGED <<status, outputs>>
<1>a. Root \in Task
  BY RootAssumption
<1>1. CASE runs[Root] = <<>>
  <2>1. ~ HasAttempt(Root, 1)
    BY <1>1 DEF HasAttempt
  <2>2. runs'[Root] = Append(<<>>, LeadRow(s))
    BY <1>a, <1>1, <2>1 DEF SettleLeadAttempt, RecordAttempt, LeadRow, BoardTypeOK
  <2>. QED
    BY <2>1, <2>2 DEF SettleLeadAttempt, RecordAttempt
<1>2. ASSUME NEW r \in TaskStatus, runs[Root] = <<LeadRow(r)>>
      PROVE  runs'[Root] = <<LeadRow(s)>> /\ UNCHANGED <<status, outputs>>
  <2>1. Len(runs[Root]) = 1 /\ runs[Root][1] = LeadRow(r)
    BY <1>2
  <2>2. HasAttempt(Root, 1)
    BY <2>1 DEF HasAttempt, LeadRow
  <2>3. runs'[Root] = Settled(Root, 1, TaskStatus, s)
    BY <1>a, <2>2 DEF SettleLeadAttempt, CompleteAttempt, BoardTypeOK
  <2>4. Settled(Root, 1, TaskStatus, s) = [i \in 1 .. 1 |-> LeadRow(s)]
    BY <2>1 DEF Settled, LeadRow
  <2>. QED
    BY <2>2, <2>3, <2>4 DEF SettleLeadAttempt, CompleteAttempt
<1>. QED
  BY <1>1, <1>2 DEF RootInPlace, TaskStatus

\* Recovery of the root between two runs fails its one row, if it is running.
LEMMA LeadRecovered ==
  ASSUME BoardTypeOK, RootInPlace, RecoverInterruptedAttempt(Root)
  PROVE  /\ runs[Root] = <<LeadRow("running")>> /\ runs'[Root] = <<LeadRow("failed")>>
         /\ status'[Root] = "failed"
<1>a. Root \in Task
  BY RootAssumption
<1>1. \A i \in 1 .. Len(runs[Root]) : i = 1 /\ runs[Root][i].attempt = i
  <2>1. CASE runs[Root] = <<>>
    BY <2>1
  <2>2. ASSUME NEW s, runs[Root] = <<LeadRow(s)>>
        PROVE  \A i \in 1 .. Len(runs[Root]) : i = 1 /\ runs[Root][i].attempt = i
    BY <2>2 DEF LeadRow
  <2>. QED
    BY <2>1, <2>2 DEF RootInPlace
<1>2. PICK k \in AttemptsIn(Root, "running") :
        /\ runs' = [runs EXCEPT ![Root] = Settled(Root, k, {"running"}, "failed")]
        /\ status' = [status EXCEPT ![Root] = "failed"]
  BY <1>a, <1>1, RecoverPicks
<1>3. k = 1 /\ runs[Root] = <<LeadRow("running")>>
  BY <1>1, <1>2 DEF RootInPlace, AttemptsIn, LeadRow
<1>4. Settled(Root, 1, {"running"}, "failed") = [i \in 1 .. 1 |-> LeadRow("failed")]
  BY <1>3 DEF Settled, LeadRow
<1>5. runs'[Root] = <<LeadRow("failed")>>
  BY <1>a, <1>2, <1>3, <1>4 DEF BoardTypeOK
<1>. QED
  BY <1>a, <1>2, <1>3, <1>5 DEF BoardTypeOK

\* The root is where the transactions of the run leave it.
LEMMA RootStep ==
  ASSUME IInv, [RunNext]_allVars
  PROVE  RootInPlace' /\ RootOutcome'
<1>a. /\ TypeOK /\ BoardTypeOK /\ Placed /\ Root \in Task /\ LeadAgent \in Agent
      /\ InCall /\ RootInPlace /\ RootOutcome /\ handles \subseteq Task /\ Children \subseteq Delegated
      /\ Root \notin Delegated /\ todo \subseteq Delegated /\ Delegated = Task \ {Root}
      /\ \A t \in Delegated : InStep(t)
  BY RootAssumption, LeadAssumption DEF IInv, RunTypeOK, TypeOK, Delegated, Children
<1>b. Children' = Children \/ (lead = "scheduling" /\ Exists(Root))
  BY <1>a, ChildrenStep DEF RootInPlace
<1>c. \A S : Grounded(S) => S # {} /\ \A t \in S : t \in Children' /\ status'[t] = "succeeded"
  BY GroundedStays
<1> DEFINE RootStays == /\ status'[Root] = status[Root] /\ runs'[Root] = runs[Root]
                        /\ pc'[Root] = "none" /\ Root \notin handles'
           Goal == RootInPlace' /\ RootOutcome'
<1>d. ASSUME RootStays, refs' = refs, chosen' = chosen, lead' = lead PROVE Goal
  <2>1. RootInPlace'
    BY <1>a, <1>b, <1>d DEF RootInPlace, Exists, Creating
  <2>2. RootOutcome'
    BY <1>a, <1>c, <1>d DEF RootOutcome, FailureIsSettled, Grounded
  <2>. QED
    BY <2>1, <2>2
<1>e. ASSUME RootStays, refs' = refs, lead' \in {"off", "refused"}, lead = "scheduling" => lead' = "off",
             lead' = "refused" => lead \notin {"off", "done"}
      PROVE  Goal
  <2>1. RootInPlace'
    BY <1>a, <1>b, <1>e DEF RootInPlace, Exists, Creating
  <2>2. RootOutcome'
    BY <1>a, <1>c, <1>e DEF RootOutcome, FailureIsSettled, Grounded, Persisting
  <2>. QED
    BY <2>1, <2>2
<1>f. ASSUME RootStays, refs' = refs, lead \notin {"off", "create", "refused", "done"},
             lead' \in {"recovering", "seed", "decide", "scheduling", "settle", "unsettled"}
      PROVE  Goal
  <2>1. RootInPlace'
    BY <1>a, <1>b, <1>f DEF RootInPlace, Exists, Creating
  <2>2. RootOutcome'
    BY <1>a, <1>c, <1>f DEF RootOutcome, FailureIsSettled, Grounded, Persisting
  <2>. QED
    BY <2>1, <2>2
<1>g. ASSUME UNCHANGED <<status, runs, pc, handles>> PROVE RootStays
  BY <1>a, <1>g DEF RootInPlace
<1> HIDE DEF Goal, RootStays
<1> SUFFICES Goal
  BY DEF Goal
<1> USE DEF GoOn, leadVars, runVars
<1>1. CASE StartRun
  <2>1. RootStays /\ Children' = Children /\ refs' = refs /\ lead' = "create" /\ ~ Exists(Root)
    BY <1>1, <1>b, <1>g, <1>a DEF StartRun, ProcessStarts, boardVars
  <2>. QED
    BY <1>a, <2>1
       DEF Goal, RootStays, RootInPlace, RootOutcome, FailureIsSettled, Creating, Persisting, Exists
<1>2. CASE StartResume
  <2>1. RootStays /\ refs' = refs /\ Exists(Root)
        /\ lead' = IF status[Root] = "succeeded" THEN "done" ELSE "recovering"
    BY <1>2, <1>g DEF StartResume, ProcessStarts, boardVars
  <2>2. RootInPlace'
    BY <1>a, <1>b, <2>1 DEF RootStays, RootInPlace, Creating, Exists
  <2>3. RootOutcome'
    BY <1>a, <1>c, <2>1 DEF RootStays, RootOutcome, FailureIsSettled, Persisting, Grounded
  <2>. QED
    BY <2>2, <2>3 DEF Goal
<1>3. CASE CreateRoot
  <2>1. /\ status'[Root] = "pending" /\ runs' = runs /\ lead = "create" /\ lead' = "assign"
        /\ UNCHANGED <<pc, handles>>
    BY <1>3, <1>a DEF CreateRoot, CreateTask, Rest, processVars, BoardTypeOK
  <2>. QED
    BY <1>a, <1>b, <2>1
       DEF Goal, RootInPlace, RootOutcome, FailureIsSettled, Creating, Persisting, Exists
<1>4. CASE AssignRoot \/ MarkRoot
  <2>1. /\ status'[Root] \in {"assigned", "running"} /\ runs' = runs
        /\ UNCHANGED <<pc, handles>>
        /\ (lead = "assign" /\ lead' = "record") \/ (lead = "mark" /\ lead' = "seed")
    BY <1>4, <1>a DEF AssignRoot, MarkRoot, Assign, SetStatus, Rest, processVars, BoardTypeOK
  <2>. QED
    BY <1>a, <1>b, <2>1
       DEF Goal, RootInPlace, RootOutcome, FailureIsSettled, Creating, Persisting, Exists
<1>5. CASE RecordLeadAttempt
  <2>1. /\ status' = status /\ lead = "record" /\ lead' = "mark" /\ UNCHANGED <<pc, handles>>
        /\ runs'[Root] = Append(<<>>, LeadRow("running"))
    BY <1>5, <1>a
       DEF RecordLeadAttempt, RecordAttempt, Rest, processVars, BoardTypeOK, RootInPlace, LeadRow
  <2>2. runs'[Root] = <<LeadRow("running")>>
    BY <2>1
  <2>. QED
    BY <1>a, <1>b, <2>1, <2>2
       DEF Goal, RootInPlace, RootOutcome, FailureIsSettled, Creating, Persisting, Exists, LeadRow
<1>6. ASSUME NEW t \in Delegated, RecoverInterruptedAttempt(t), pc' = pc, handles' = handles, pc[t] = "none"
      PROVE  RootStays
  <2>1. status'[Root] = status[Root] /\ runs'[Root] = runs[Root]
    BY <1>a, <1>6, RecoverInStep
  <2>. QED
    BY <1>a, <1>6, <2>1 DEF RootStays, RootInPlace
<1>7. ASSUME NEW t \in Task, RecoverNext(t) PROVE Goal
  <2>1. /\ t \in Delegated /\ pc' = pc /\ handles' = handles /\ pc[t] = "none"
        /\ refs' = refs /\ chosen' = chosen /\ lead' = lead
    BY <1>7, <1>a DEF RecoverNext, Rest, processVars, InCall
  <2>2. RootStays
    BY <1>6, <1>7, <1>g, <2>1 DEF RecoverNext, boardVars
  <2>. QED
    BY <1>d, <2>1, <2>2
<1>8. CASE RecoveryDone \/ SeedTasks \/ DecisionFails \/ BatchFails
  <2>1. RootStays
    BY <1>8, <1>g DEF RecoveryDone, SeedTasks, DecisionFails, BatchFails, Rest, processVars, boardVars
  <2>. QED
    BY <1>8, <1>f, <2>1 DEF RecoveryDone, SeedTasks, DecisionFails, BatchFails
<1>9. CASE Delegate \/ BatchReturns
  <2>1. RootStays
    BY <1>9, <1>a DEF Delegate, BeginSchedule, BatchReturns, Return, boardVars, RootStays, RootInPlace
  <2>. QED
    BY <1>9, <1>f, <2>1 DEF Delegate, BatchReturns
<1>10. ASSUME NEW t \in Task, NEW o \in Orders, DelegateTask(t, o) PROVE Goal
  <2>1. t # Root
    BY <1>10, <1>a DEF DelegateTask, CreateNext, CreateTask, RootInPlace
  <2>2. RootStays
    BY <1>10, <1>a, <2>1
       DEF DelegateTask, CreateNext, CreateTask, RootStays, RootInPlace, BoardTypeOK
  <2>. QED
    BY <1>10, <1>d, <2>2 DEF DelegateTask
<1>11. CASE StartBatch
  <2>1. RootStays
    BY <1>11, <1>a DEF StartBatch, SpawnBatch, RootStays, RootInPlace, boardVars
  <2>. QED
    BY <1>11, <1>d, <2>1 DEF StartBatch
<1>12. ASSUME NEW t \in Task, UNCHANGED runVars, JoinNext(t) \/ JoinFails(t) PROVE Goal
  <2>1. RootStays
    BY <1>12, <1>a DEF JoinNext, JoinFails, RootStays, RootInPlace, boardVars
  <2>. QED
    BY <1>12, <1>d, <2>1
<1>13. ASSUME NEW selection \in SUBSET Task, Complete(selection) PROVE Goal
  <2>1. /\ RootStays /\ lead = "decide" /\ lead' = "refs" /\ refs' = refs
        /\ chosen' = selection /\ Grounded(selection)
    BY <1>13, <1>g DEF Complete, Rest, processVars, boardVars, Grounded
  <2>2. RootInPlace'
    BY <1>a, <1>b, <2>1 DEF RootStays, RootInPlace, Creating, Exists
  <2>3. RootOutcome'
    BY <1>a, <1>c, <2>1 DEF RootStays, RootOutcome, FailureIsSettled, Grounded
  <2>. QED
    BY <2>2, <2>3 DEF Goal
<1>14. CASE PersistRefs
  <2>1. /\ RootStays /\ lead = "refs" /\ lead' = "attempt" /\ refs' = chosen /\ chosen' = chosen
        /\ Grounded(chosen)
    BY <1>14, <1>a, <1>g DEF PersistRefs, Rest, processVars, boardVars, RootOutcome, Persisting
  <2>2. RootInPlace'
    BY <1>a, <1>b, <2>1 DEF RootStays, RootInPlace, Creating, Exists
  <2>3. RootOutcome'
    BY <1>a, <1>c, <2>1 DEF RootStays, RootOutcome, FailureIsSettled, Grounded
  <2>. QED
    BY <2>2, <2>3 DEF Goal
<1>15. CASE PersistAttempt
  <2>1. /\ lead = "attempt" /\ lead' = "status" /\ UNCHANGED <<refs, chosen, pc, handles>>
        /\ Grounded(chosen) /\ refs = chosen /\ status[Root] # "succeeded"
    BY <1>15, <1>a DEF PersistAttempt, Rest, processVars, RootOutcome, Persisting
  <2>2. runs'[Root] = <<LeadRow("succeeded")>> /\ status' = status
    BY <1>15, <1>a, LeadSettled DEF PersistAttempt
  <2>3. RootInPlace'
    BY <1>a, <1>b, <2>1, <2>2 DEF RootInPlace, Creating, Exists
  <2>4. RootOutcome'
    BY <1>a, <1>c, <2>1, <2>2 DEF RootOutcome, FailureIsSettled, Grounded
  <2>. QED
    BY <2>3, <2>4 DEF Goal
<1>16. CASE PersistStatus
  <2>1. /\ lead = "status" /\ lead' = "done" /\ UNCHANGED <<refs, chosen, pc, handles, runs>>
        /\ Grounded(refs) /\ runs[Root] = <<LeadRow("succeeded")>> /\ status'[Root] = "succeeded"
    BY <1>16, <1>a DEF PersistStatus, SetStatus, Rest, processVars, RootOutcome, Persisting, BoardTypeOK
  <2>2. RootInPlace'
    BY <1>a, <1>b, <2>1 DEF RootInPlace, Creating, Exists
  <2>3. RootOutcome'
    BY <1>a, <1>c, <2>1 DEF RootOutcome, FailureIsSettled, Grounded, Persisting
  <2>. QED
    BY <2>2, <2>3 DEF Goal
<1>17. CASE SettleFailedAttempt
  <2>1. /\ lead = "settle" /\ status[Root] # "succeeded"
        /\ lead' = "settle_status" /\ UNCHANGED <<pc, handles>>
    BY <1>17, <1>a DEF SettleFailedAttempt, Rest, processVars, RootOutcome
  <2>2. runs'[Root] = <<LeadRow("failed")>> /\ status' = status
    BY <1>17, <1>a, <2>1, LeadSettled DEF SettleFailedAttempt
  <2>. QED
    BY <1>a, <1>b, <2>1, <2>2
       DEF Goal, RootInPlace, RootOutcome, FailureIsSettled, Creating, Persisting, Exists
<1>18. CASE SettleFailedStatus
  <2>1. /\ lead = "settle_status" /\ lead' = "failed" /\ UNCHANGED <<pc, handles, runs>>
        /\ runs[Root] = <<LeadRow("failed")>> /\ status'[Root] = "failed"
    BY <1>18, <1>a DEF SettleFailedStatus, SetStatus, Rest, processVars, RootOutcome, BoardTypeOK
  <2>. QED
    BY <1>a, <1>b, <2>1
       DEF Goal, RootInPlace, RootOutcome, FailureIsSettled, Creating, Persisting, Exists, LeadRow
<1>19. ASSUME NEW t \in Task, call = "joining", UNCHANGED runVars, RunOne(t) \/ Abort(t) PROVE Goal
  <2>1. t \in Delegated
    <3>1. pc[t] # "none"
      BY <1>19 DEF RunOne, Begin, SkipUndriven, AssignCandidate, Acquire, RecordRunning, MarkRunning,
                   StartDriver, DriverReturns, SettleSuccess, SettleFailure, GiveUp, Abort, UsesBoard
    <3>. QED
      BY <1>a, <3>1 DEF RootInPlace
  <2>2. CASE RunOne(t)
    <3>1. RootStays
      BY <1>a, <2>1, <2>2, RunOneInStep DEF RootStays, RootInPlace
    <3>. QED
      BY <1>19, <1>d, <3>1
  <2>3. CASE Abort(t)
    <3>1. RootStays
      BY <1>a, <2>1, <2>3 DEF Abort, Goto, callVars, boardVars, TypeOK, RootStays, RootInPlace
    <3>. QED
      BY <1>19, <1>d, <3>1
  <2>. QED
    BY <1>19, <2>2, <2>3
<1>20. CASE lead = "scheduling" /\ CreateFails /\ UNCHANGED runVars
  <2>1. RootStays
    BY <1>20, <1>a DEF CreateFails, boardVars, RootStays, RootInPlace
  <2>. QED
    BY <1>20, <1>d, <2>1
<1>21. CASE BoardFails
  <2>1. RootStays /\ refs' = refs
    BY <1>21, <1>g DEF BoardFails, boardVars, processVars
  <2>. QED
    BY <1>21, <1>e, <1>f, <2>1 DEF BoardFails, Creating, Persisting, Settling
<1>22. CASE Exit \/ Kill
  <2>1. RootStays /\ refs' = refs /\ lead' = "off"
    BY <1>22, <1>a DEF Exit, Kill, Forget, Stop, Everywhere, boardVars, RootStays, RootInPlace
  <2>. QED
    BY <1>e, <2>1
<1>23. ASSUME NEW t \in Task, OperatorRecovers(t) PROVE Goal
  <2>1. /\ UNCHANGED <<pc, handles, refs, chosen, lead>> /\ lead = "off"
        /\ \A u \in Task : pc[u] = "none"
    BY <1>23, <1>a DEF OperatorRecovers, Recover, processVars, InCall
  <2>2. CASE t = Root
    <3>1. /\ runs[Root] = <<LeadRow("running")>> /\ runs'[Root] = <<LeadRow("failed")>>
          /\ status'[Root] = "failed"
      BY <1>23, <1>a, <2>2, LeadRecovered DEF OperatorRecovers, Recover
    <3>2. Exists(Root) \/ Children = {}
      BY <1>a DEF RootInPlace
    <3>. QED
      BY <1>a, <1>b, <2>1, <3>1, <3>2
         DEF Goal, RootInPlace, RootOutcome, FailureIsSettled, Creating, Persisting, Exists
  <2>3. CASE t # Root
    BY <1>23, <1>a, <1>6, <1>d, <2>1, <2>3 DEF OperatorRecovers, Recover
  <2>. QED
    BY <2>2, <2>3
<1>24. CASE UNCHANGED allVars
  <2>1. RootStays
    BY <1>24, <1>g DEF allVars, vars, boardVars, processVars
  <2>. QED
    BY <1>24, <1>d, <2>1 DEF allVars
<1>. QED
  BY <1>1, <1>2, <1>3, <1>4, <1>5, <1>7, <1>8, <1>9, <1>10, <1>11, <1>12, <1>13, <1>14, <1>15,
     <1>16, <1>17, <1>18, <1>19, <1>20, <1>21, <1>22, <1>23, <1>24
     DEF RunNext, LeadStep, TaskStep

-----------------------------------------------------------------------------
(* The theorems.                                                           *)

\* Nobody has asked for anything yet.
LEMMA InitIInv == RunInit => IInv
<1> SUFFICES ASSUME RunInit PROVE IInv
  OBVIOUS
<1>a. TypeOK /\ Placed
  BY InitTyped DEF RunInit
<1>b. Root \in Task /\ LeadAgent \in Agent /\ MaxRounds \in Nat /\ MaxTasks \in Nat
  BY RootAssumption, LeadAssumption, LimitsAssumption
<1>c. /\ \A t \in Task : /\ status[t] = "absent" /\ runs[t] = <<>> /\ outputs[t] = <<>>
                         /\ pc[t] = "none"
      /\ call = "off" /\ handles = {} /\ lead = "off" /\ team = {} /\ round = 0
      /\ refs = {} /\ chosen = {} /\ todo = {}
  BY DEF RunInit, Init, BoardInit, Everywhere
<1>1. RunTypeOK
  BY <1>a, <1>b, <1>c DEF RunTypeOK
<1>2. Children = {} /\ IsFiniteSet({}) /\ Cardinality({}) = 0
  BY <1>c, FS_EmptySet DEF Children, Exists
<1>3. ASSUME NEW t \in Delegated PROVE InStep(t) /\ Served(t) /\ AtRest(t) /\ Tried(t)
  <2>1. /\ status[t] = "absent" /\ runs[t] = <<>> /\ outputs[t] = <<>> /\ pc[t] = "none"
        /\ call = "off" /\ lead = "off" /\ handles = {}
    BY <1>c DEF Delegated
  <2>2. RowsMatchStatus(t)
    <3>1. Len(runs[t]) = 0
      BY <2>1
    <3>2. AllFailed(t)
      BY <3>1 DEF AllFailed
    <3>. QED
      BY <2>1, <3>1, <3>2 DEF RowsMatchStatus
  <2>3. RowsMatchPc(t)
    BY <2>1 DEF RowsMatchPc, Holding, Finished
  <2>4. Served(t)
    BY <2>1 DEF Served, Idle, Finished
  <2>5. AtRest(t) /\ Tried(t)
    BY <2>1 DEF AtRest, Tried
  <2>. QED
    BY <2>2, <2>3, <2>4, <2>5 DEF InStep
<1>4. InCall
  BY <1>c DEF InCall, Creating
<1>5. Known
  BY <1>b, <1>c, <1>2 DEF Known
<1>6. RootInPlace /\ RootOutcome
  BY <1>b, <1>c, <1>2 DEF RootInPlace, RootOutcome, FailureIsSettled, Persisting, Exists, Creating
<1>. QED
  BY <1>a, <1>1, <1>3, <1>4, <1>5, <1>6 DEF IInv

\* Every step of the run, its tasks and its operator keeps the invariant.
LEMMA NextIInv == IInv /\ [RunNext]_allVars => IInv'
<1> SUFFICES ASSUME IInv, [RunNext]_allVars PROVE IInv'
  OBVIOUS
<1>1. \A t \in Delegated : InStep(t)' /\ Served(t)' /\ AtRest(t)' /\ Tried(t)'
  BY InStepStep, ServedStep, TriedStep
<1>2. RunTypeOK' /\ Placed' /\ InCall' /\ Known' /\ RootInPlace' /\ RootOutcome'
  BY ControlStep, KnownStep, RootStep
<1>. QED
  BY <1>1, <1>2 DEF IInv, Delegated

\* Root, Lead and delegated tasks agree in every reachable state, whatever was
\* killed, failed on the board or resumed (team_runner.rs, lead.rs).
THEOREM RunInvariant == RunSpec => []IInv
BY InitIInv, NextIInv, PTL DEF RunSpec

\* A root that shows succeeded has its one succeeded attempt and a selection
\* of descendants whose results are on the board, at every crash point.
THEOREM AnswersAreGrounded == RunSpec => []RootIsGrounded
<1>1. IInv => RootIsGrounded
  <2> SUFFICES ASSUME IInv, status[Root] = "succeeded" PROVE RootIsGrounded
    BY DEF RootIsGrounded
  <2>1. runs[Root] = <<LeadRow("succeeded")>> /\ Grounded(refs)
    BY DEF IInv, RootOutcome
  <2>2. ASSUME NEW t \in refs PROVE t \in Children /\ status[t] = "succeeded" /\ Len(outputs[t]) = 1
    <3>1. t \in Delegated /\ t \in Children /\ status[t] = "succeeded"
      BY <2>1, <2>2 DEF Grounded, Children, Delegated
    <3>2. outputs[t] = <<Len(runs[t])>>
      BY <3>1 DEF IInv, InStep, RowsMatchStatus
    <3>. QED
      BY <3>1, <3>2
  <2>. QED
    BY <2>1, <2>2 DEF RootIsGrounded, LeadRow, Grounded
<1>. QED
  BY <1>1, RunInvariant, PTL

\* A run that reports its error has settled the root and its Lead attempt.
THEOREM FailuresAreSettled == RunSpec => []FailureIsSettled
<1>1. IInv => FailureIsSettled
  BY DEF IInv, RootOutcome
<1>. QED
  BY <1>1, RunInvariant, PTL

\* Whenever the Lead decides, no descendant has a running attempt, and it is
\* told of every one that is settled.
THEOREM DecisionsSeeSettledWork == RunSpec => []LeadSeesSettledWork
<1>1. IInv => LeadSeesSettledWork
  <2> SUFFICES ASSUME IInv, lead = "decide"
               PROVE  /\ team = Children
                      /\ \A t \in Children :
                           /\ AttemptsIn(t, "running") = {}
                           /\ status[t] \in Finished => t \in Told.results \cup Told.failures
    BY DEF LeadSeesSettledWork
  <2>1. team = Children
    BY DEF IInv, Known
  <2>2. ASSUME NEW t \in Children
        PROVE  /\ AttemptsIn(t, "running") = {}
               /\ status[t] \in Finished => t \in Told.results \cup Told.failures
    <3>1. /\ t \in Delegated /\ InStep(t) /\ Served(t) /\ AtRest(t) /\ Tried(t)
          /\ runs[t] \in Seq(Attempt) /\ BoardTypeOK /\ t \in Task /\ call = "idle"
      BY <2>2 DEF IInv, RunTypeOK, TypeOK, BoardTypeOK, Children, Delegated, InCall
    <3>2. AttemptsIn(t, "running") = {}
      <4>1. CASE pc[t] = "none"
        BY <3>1, <4>1 DEF AtRest
      <4>2. CASE pc[t] # "none"
        <5>1. status[t] \in {"succeeded", "failed"}
          BY <3>1, <4>2 DEF Served, Idle, Finished
        <5>. QED
          BY <3>1, <5>1, NoneRunning
      <4>. QED
        BY <4>1, <4>2
    <3>3. CASE status[t] = "succeeded"
      <4>1. Len(runs[t]) \in AttemptsIn(t, "succeeded")
        BY <3>1, <3>3 DEF InStep, RowsMatchStatus, LastIs, AttemptsIn
      <4>. QED
        BY <2>1, <3>2, <3>3, <4>1 DEF Told
    <3>4. CASE status[t] = "failed"
      <4>1. AllFailed(t) /\ runs[t] # <<>>
        BY <3>1, <3>4 DEF InStep, RowsMatchStatus, Tried
      <4>2. Len(runs[t]) \in Nat /\ Len(runs[t]) # 0
        BY <3>1, <4>1, EmptySeq
      <4>3. 1 \in AttemptsIn(t, "failed")
        BY <4>1, <4>2 DEF AllFailed, AttemptsIn
      <4>. QED
        BY <2>1, <3>2, <3>4, <4>3 DEF Told
    <3>. QED
      BY <3>2, <3>3, <3>4 DEF Finished
  <2>. QED
    BY <2>1, <2>2
<1>. QED
  BY <1>1, RunInvariant, PTL

\* However often a run is interrupted and resumed, its tasks stay within the
\* budget.
THEOREM BudgetHolds == RunSpec => []BudgetRespected
<1>1. IInv => BudgetRespected
  BY DEF IInv, Known, BudgetRespected
<1>. QED
  BY <1>1, RunInvariant, PTL

\* A root that has succeeded is only looked at.
LEMMA RootKept ==
  ASSUME IInv, [RunNext]_allVars, status[Root] = "succeeded"
  PROVE  /\ status'[Root] = "succeeded" /\ runs'[Root] = runs[Root] /\ outputs'[Root] = outputs[Root]
         /\ refs' = refs
<1>a. /\ TypeOK /\ BoardTypeOK /\ InCall /\ RootInPlace /\ Root \in Task
      /\ lead \in {"off", "done"} /\ runs[Root] = <<LeadRow("succeeded")>>
      /\ \A t \in Delegated : InStep(t)
  BY RootAssumption DEF IInv, RunTypeOK, TypeOK, RootOutcome
<1>b. call \notin {"creating", "joining"}
  BY <1>a DEF InCall
<1>1. CASE StartRun \/ StartResume \/ Exit \/ Kill \/ UNCHANGED allVars
  BY <1>1 DEF StartRun, StartResume, ProcessStarts, Exit, Kill, Forget, Stop, GoOn, boardVars,
              allVars, vars, runVars
<1>2. ASSUME NEW t \in Task, OperatorRecovers(t)
      PROVE  /\ status'[Root] = "succeeded" /\ runs'[Root] = runs[Root] /\ outputs'[Root] = outputs[Root]
             /\ refs' = refs
  <2>1. RecoverInterruptedAttempt(t) /\ pc'[t] = "none"
    BY <1>2, <1>a DEF OperatorRecovers, Recover, InCall, processVars
  <2>2. t # Root
    <3>1. LeadRow("succeeded") # LeadRow("running")
      BY DEF LeadRow
    <3>2. <<LeadRow("succeeded")>> # <<LeadRow("running")>>
      BY <3>1
    <3>. QED
      BY <1>a, <2>1, <3>2, LeadRecovered
  <2>. QED
    BY <1>a, <1>2, <2>1, <2>2, RecoverInStep DEF Delegated, OperatorRecovers, runVars
<1>3. ~ LeadStep /\ ~ BoardFails
  BY <1>a DEF LeadStep, CreateRoot, AssignRoot, RecordLeadAttempt, MarkRoot, RecoverNext,
       RecoveryDone, SeedTasks, Delegate, DelegateTask, StartBatch, BatchReturns, BatchFails,
       DecisionFails, Complete, PersistRefs, PersistAttempt, PersistStatus, SettleFailedAttempt,
       SettleFailedStatus, BoardFails, GoOn, Creating, Persisting, Settling
<1>. QED
  BY <1>a, <1>b, <1>1, <1>2, <1>3 DEF RunNext, TaskStep

\* What has succeeded, root or delegated, is never touched again.
THEOREM CompletedWorkStays == RunSpec => CompletedWorkIsKept
<1>1. IInv /\ [RunNext]_allVars =>
        [\A t \in Task : status[t] = "succeeded" =>
           status'[t] = "succeeded" /\ runs'[t] = runs[t] /\ outputs'[t] = outputs[t]]_allVars
  BY KeptStep, RootKept DEF Delegated
<1>. QED
  BY <1>1, RunInvariant, PTL DEF RunSpec, CompletedWorkIsKept

\* The rows of the delegated tasks, read as a ledger of their own.
delegatedRows == [t \in Task \ {Root} |-> Column(runs[t])]

\* What the ledger of all tasks takes as a step of t, that of the delegated
\* ones does.
LEMMA DelegatedWrites ==
  ASSUME NEW t \in Delegated
  PROVE  /\ Ledger!Open(t) => TeamLedger!Open(t)
         /\ \A o : Ledger!Settle(t, o) => TeamLedger!Settle(t, o)
<1>1. t \in Task /\ t \in Task \ {Root}
  BY DEF Delegated
<1> DEFINE after == [u \in Task |-> Column(runs'[u])]
<1>2. /\ \A u \in Task : columns[u] = Column(runs[u]) /\ after[u] = Column(runs'[u])
      /\ \A u \in Task \ {Root} :
           delegatedRows[u] = columns[u] /\ delegatedRows'[u] = after[u]
  BY DEF columns, delegatedRows
<1>3. ASSUME NEW c, after = [columns EXCEPT ![t] = c]
      PROVE  delegatedRows' = [delegatedRows EXCEPT ![t] = c]
  <2>1. \A u \in Task \ {Root} : after[u] = IF u = t THEN c ELSE columns[u]
    BY <1>1, <1>3 DEF columns
  <2>2. /\ delegatedRows' = [u \in Task \ {Root} |-> Column(runs'[u])]
        /\ [delegatedRows EXCEPT ![t] = c] =
             [u \in Task \ {Root} |-> IF u = t THEN c ELSE Column(runs[u])]
    BY DEF delegatedRows
  <2>3. \A u \in Task \ {Root} : Column(runs'[u]) = IF u = t THEN c ELSE Column(runs[u])
    BY <1>2, <2>1
  <2>. QED
    BY <2>2, <2>3
<1>4. ASSUME Ledger!Open(t) PROVE TeamLedger!Open(t)
  <2>1. /\ \A i \in 1 .. Len(columns[t]) : columns[t][i] = "failed"
        /\ after = [columns EXCEPT ![t] = Append(columns[t], "running")]
    BY <1>4 DEF Ledger!Open, Ledger!Entries, columns
  <2>2. delegatedRows[t] = columns[t]
    BY <1>1, <1>2
  <2> HIDE DEF after
  <2>3. delegatedRows' = [delegatedRows EXCEPT ![t] = Append(delegatedRows[t], "running")]
    BY <1>3, <2>1, <2>2
  <2>4. \A i \in 1 .. Len(delegatedRows[t]) : delegatedRows[t][i] = "failed"
    BY <2>1, <2>2
  <2>. QED
    BY <2>3, <2>4 DEF TeamLedger!Open, TeamLedger!Entries, delegatedRows
<1>5. ASSUME NEW o, Ledger!Settle(t, o) PROVE TeamLedger!Settle(t, o)
  <2>1. /\ Len(columns[t]) > 0 /\ columns[t][Len(columns[t])] = "running"
        /\ after = [columns EXCEPT ![t] = [columns[t] EXCEPT ![Len(columns[t])] = o]]
    BY <1>5 DEF Ledger!Settle, columns
  <2>2. delegatedRows[t] = columns[t]
    BY <1>1, <1>2
  <2> HIDE DEF after
  <2>3. delegatedRows' =
          [delegatedRows EXCEPT ![t] = [delegatedRows[t] EXCEPT ![Len(delegatedRows[t])] = o]]
    BY <1>3, <2>1, <2>2
  <2>4. Len(delegatedRows[t]) > 0 /\ delegatedRows[t][Len(delegatedRows[t])] = "running"
    BY <2>1, <2>2
  <2>. QED
    BY <2>3, <2>4 DEF TeamLedger!Settle, delegatedRows
<1>. QED
  BY <1>4, <1>5

\* In a team run the delegated tasks implement the ledger: through retries,
\* failing boards, kills, resumes and recoveries by resume-team or the
\* operator, no outcome of theirs is ever overwritten (board.rs:62-63).
THEOREM TasksKeepLedger == RunSpec => TeamLedgerSpec
<1>1. RunInit => TeamLedger!Init
  BY DEF RunInit, Init, BoardInit, TeamLedger!Init, Column
<1>2. IInv /\ [RunNext]_allVars => [TeamLedger!Next]_delegatedRows
  <2> SUFFICES ASSUME IInv, [RunNext]_allVars
               PROVE  TeamLedger!Next \/ delegatedRows' = delegatedRows
    OBVIOUS
  <2>a. TypeOK /\ Placed /\ (\A t \in Delegated : InStep(t)) /\ Delegated = Task \ {Root}
    BY DEF IInv, RunTypeOK, Delegated
  <2>1. CASE \A t \in Delegated : runs'[t] = runs[t]
    BY <2>a, <2>1 DEF delegatedRows
  <2>2. ASSUME NEW t \in Delegated, RunOne(t) \/ RecoverInterruptedAttempt(t)
        PROVE  TeamLedger!Next \/ runs' = runs
    <3>1. \/ runs' = runs
          \/ Ledger!Open(t) \/ Ledger!Settle(t, "succeeded") \/ Ledger!Settle(t, "failed")
      BY <2>a, <2>2, TaskWrites
    <3>2. \/ runs' = runs
          \/ TeamLedger!Open(t) \/ TeamLedger!Settle(t, "succeeded")
          \/ TeamLedger!Settle(t, "failed")
      BY <3>1, DelegatedWrites
    <3>. QED
      BY <2>a, <3>2 DEF TeamLedger!Next
  <2>3. Stop \/ SpawnBatch \/ (\E t \in Delegated, o \in Orders : CreateNext(t, o))
          \/ (\E t \in Delegated : Abort(t)) => runs' = runs
    BY DEF Stop, SpawnBatch, CreateNext, CreateTask, Abort, boardVars
  <2>4. \/ \A t \in Delegated : runs'[t] = runs[t]
        \/ \E t \in Delegated : RunOne(t) \/ RecoverInterruptedAttempt(t)
    BY <2>3, Shape DEF Still
  <2>. QED
    BY <2>1, <2>2, <2>4
<1>. QED
  BY <1>1, <1>2, RunInvariant, PTL
  DEF RunSpec, TeamLedgerSpec, TeamLedger!Spec, delegatedRows

-----------------------------------------------------------------------------
(* What is announced (RunReport).                                          *)

\* The last line of a delegated task, told from where its run_one is; that of
\* a broken one is what it was, and what it claimed still holds.
Spoken(t) ==
  /\ pc[t] = "none" => line[t] = "none"
  /\ pc[t] = "begin" => line[t] = "TaskDelegated"
  /\ pc[t] \in {"assign", "acquire", "record", "mark"} =>
       line[t] \in {"TaskDelegated", "AttemptFailed"}
  /\ pc[t] \in {"context", "driving", "settle"} => line[t] = "AttemptStarted"
  /\ pc[t] = "broken" => line[t] \in {"TaskDelegated", "AttemptStarted", "AttemptFailed"}
  /\ pc[t] = "succeeded" => line[t] = "TaskSucceeded"
  /\ pc[t] = "failed" => line[t] = "TaskFailed"
  /\ line[t] \in {"TaskDelegated", "AttemptStarted", "AttemptFailed"} =>
       status[t] \notin {"absent", "succeeded"}
  /\ line[t] = "AttemptStarted" => status[t] = "running" /\ LastIs(t, "running")
  /\ line[t] = "AttemptFailed" => AttemptsIn(t, "failed") # {}

\* Before the runner's first event, and from then to its last.
Untold == Creating \cup {"off", "recovering", "refused"}
Underway == {"seed", "decide", "scheduling"} \cup Persisting \cup Settling

Announced ==
  /\ lead \in Untold => \A t \in Task : line[t] = "none"
  /\ lead \in Underway => line[Root] \in {"RunStarted", "RunResumed", "LeadRoundStarted"}
  /\ lead = "done" => /\ status[Root] = "succeeded"
                      /\ line[Root] \in {"RunCompleted", "none"}
                      /\ line[Root] = "RunCompleted" => refs = chosen
  /\ lead \in {"failed", "unsettled"} => line[Root] = "RunFailed"

Reported == (\A t \in Delegated : Spoken(t)) /\ Announced

\* The sink takes down what a step of a delegated task emits, and nothing else.
LEMMA TaskHeard ==
  ASSUME Observe, lead' # "off", NEW t \in Delegated
  PROVE  /\ Emitted(t) = {} => line'[t] = line[t]
         /\ \A e \in Emitted(t) : line'[t] = e
<1>1. t \in Task /\ Observed(t) = Emitted(t)
  BY DEF Delegated, Observed
<1>2. line'[t] = IF Emitted(t) = {} THEN line[t] ELSE CHOOSE e \in Emitted(t) : TRUE
  BY <1>1 DEF Observe
<1>3. \A e, f \in Emitted(t) : e = f
  BY DEF Emitted, Moves, TaskEvent
<1>. QED
  BY <1>2, <1>3

LEMMA RunHeard ==
  ASSUME Observe, lead' # "off"
  PROVE  /\ EmittedByRun = {} => line'[Root] = line[Root]
         /\ \A e \in EmittedByRun : line'[Root] = e
<1>1. Root \in Task /\ Observed(Root) = EmittedByRun
  BY RootAssumption DEF Observed
<1>2. line'[Root] = IF EmittedByRun = {} THEN line[Root] ELSE CHOOSE e \in EmittedByRun : TRUE
  BY <1>1 DEF Observe
<1>3. \A e, f \in EmittedByRun : e = f
  BY DEF EmittedByRun, LeadMoves, RootEvent, Settling
<1>. QED
  BY <1>2, <1>3

\* A task that stays where it is, or breaks there, emits nothing.
LEMMA Silent ==
  ASSUME Observe, lead' # "off", NEW t \in Delegated,
         pc'[t] = pc[t] \/ pc'[t] = "broken"
  PROVE  line'[t] = line[t]
<1>1. Emitted(t) = {}
  BY DEF Emitted, Moves, TaskEvent
<1>. QED
  BY <1>1, TaskHeard

\* What a line claims still holds if the rows stay.
LEMMA SpokenFrame ==
  ASSUME NEW t \in Delegated, Spoken(t), line'[t] = line[t], pc'[t] = pc[t],
         status'[t] = status[t], runs'[t] = runs[t]
  PROVE  Spoken(t)'
BY DEF Spoken, AttemptsIn, LastIs

\* A line stands as long as its claim does.
LEMMA SpokenAt ==
  ASSUME NEW t \in Delegated, Spoken(t), line'[t] = line[t],
         \/ pc'[t] = pc[t]
         \/ pc[t] = "begin" /\ pc'[t] = "assign"
         \/ pc[t] \in {"assign", "acquire", "record"} /\ pc'[t] \in {"acquire", "record", "mark"}
         \/ pc[t] \in {"context", "driving"} /\ pc'[t] \in {"driving", "settle"}
         \/ pc[t] \in UsesBoard \cup {"driving"} /\ pc'[t] = "broken",
         status'[t] = status[t]
           \/ (status'[t] \notin {"absent", "succeeded"} /\ line[t] # "AttemptStarted"),
         AttemptsIn(t, "failed") # {} => AttemptsIn(t, "failed")' # {},
         line[t] = "AttemptStarted" => runs'[t] = runs[t]
  PROVE  Spoken(t)'
BY DEF Spoken, LastIs, UsesBoard

\* A run_one announces what it has just written.
LEMMA RunOneSpoken ==
  ASSUME TypeOK, Placed, Observe, lead' # "off",
         NEW t \in Delegated, InStep(t), InStep(t)', Spoken(t), RunOne(t)
  PROVE  Spoken(t)'
<1> USE DEF Goto, UsesBoard
<1>a. t \in Task /\ pc \in [Task -> Live \cup Finished \cup {"none", "broken"}] /\ BoardTypeOK
      /\ runs[t] \in Seq(Attempt) /\ Len(runs[t]) \in Nat
  BY DEF Delegated, TypeOK, BoardTypeOK, TaskStatus
<1>b. ASSUME NEW e \in TaskEvent, e \in Emitted(t) PROVE line'[t] = e
  BY <1>b, TaskHeard
<1>c. ASSUME Emitted(t) = {} PROVE line'[t] = line[t]
  BY <1>c, TaskHeard
<1>1. CASE Begin(t) \/ SkipUndriven(t) \/ Acquire(t) \/ StartDriver(t) \/ DriverReturns(t)
  <2>1. UNCHANGED boardVars /\ \/ pc'[t] = pc[t]
                               \/ pc[t] = "begin" /\ pc'[t] = "assign"
                               \/ pc[t] = "acquire" /\ pc'[t] = "record"
                               \/ pc[t] = "context" /\ pc'[t] = "driving"
                               \/ pc[t] = "driving" /\ pc'[t] = "settle"
    BY <1>a, <1>1 DEF Begin, SkipUndriven, Acquire, StartDriver, DriverReturns
  <2>2. Emitted(t) = {}
    BY <2>1 DEF Emitted, Moves, TaskEvent
  <2>. QED
    BY <1>c, <2>1, <2>2, SpokenAt DEF boardVars, AttemptsIn
<1>2. CASE AssignCandidate(t)
  <2>1. pc[t] = "assign" /\ pc'[t] = "acquire" /\ status'[t] = "assigned" /\ runs' = runs
    BY <1>a, <1>2 DEF AssignCandidate, Assign, BoardTypeOK
  <2>2. Emitted(t) = {}
    BY <2>1 DEF Emitted, Moves, TaskEvent
  <2>3. line[t] # "AttemptStarted"
    BY <2>1 DEF Spoken
  <2>. QED
    BY <1>c, <2>1, <2>2, <2>3, SpokenAt DEF AttemptsIn
<1>3. CASE RecordRunning(t)
  <2>1. pc[t] = "record" /\ pc'[t] = "mark" /\ status' = status
        /\ \E row : runs'[t] = Append(runs[t], row)
    BY <1>a, <1>3 DEF RecordRunning, RecordAttempt, BoardTypeOK
  <2>2. Emitted(t) = {}
    BY <2>1 DEF Emitted, Moves, TaskEvent
  <2>3. line[t] # "AttemptStarted"
    BY <2>1 DEF Spoken
  <2>4. AttemptsIn(t, "failed") # {} => AttemptsIn(t, "failed")' # {}
    <3>1. PICK row : runs'[t] = Append(runs[t], row)
      BY <2>1
    <3>2. Len(runs'[t]) = Len(runs[t]) + 1 /\ \A i \in 1 .. Len(runs[t]) : runs'[t][i] = runs[t][i]
      BY <1>a, <3>1, AppendProperties
    <3>. QED
      BY <1>a, <3>2 DEF AttemptsIn
  <2>. QED
    BY <1>c, <2>1, <2>2, <2>3, <2>4, SpokenAt
<1>4. CASE MarkRunning(t)
  <2>1. pc[t] = "mark" /\ pc'[t] = "context" /\ status'[t] = "running" /\ runs' = runs
    BY <1>a, <1>4 DEF MarkRunning, SetStatus, BoardTypeOK
  <2>2. line'[t] = "AttemptStarted"
    BY <1>b, <2>1 DEF Emitted, Moves, TaskEvent
  <2>3. LastIs(t, "running")'
    BY <2>1 DEF InStep, RowsMatchPc, LastIs
  <2>. QED
    BY <2>1, <2>2, <2>3 DEF Spoken
<1>5. CASE SettleSuccess(t)
  <2>1. pc[t] = "settle" /\ pc'[t] = "succeeded"
    BY <1>a, <1>5 DEF SettleSuccess
  <2>2. line'[t] = "TaskSucceeded"
    BY <1>b, <2>1 DEF Emitted, Moves, TaskEvent
  <2>. QED
    BY <2>1, <2>2 DEF Spoken
<1>6. CASE SettleFailure(t)
  <2>1. /\ pc[t] = "settle" /\ pc'[t] \in {"acquire", "assign"} /\ status' = status
        /\ runs'[t] = Settled(t, seq[t], TaskStatus, "failed")
    BY <1>a, <1>6 DEF SettleFailure, CompleteAttempt, BoardTypeOK
  <2>2. line'[t] = "AttemptFailed"
    BY <1>b, <2>1 DEF Emitted, Moves, TaskEvent
  <2>3. status[t] = "running" /\ Len(runs[t]) > 0
    BY <2>1 DEF InStep, RowsMatchPc, LastIs
  <2>4. AllFailed(t)'
    BY <2>1 DEF InStep, RowsMatchPc
  <2>5. Len(runs'[t]) = Len(runs[t])
    BY <1>a, <2>1, SettledType DEF TaskStatus
  <2>6. 1 \in AttemptsIn(t, "failed")'
    BY <1>a, <2>3, <2>4, <2>5 DEF AllFailed, AttemptsIn
  <2>. QED
    BY <2>1, <2>2, <2>3, <2>6 DEF Spoken
<1>7. CASE GiveUp(t)
  <2>1. pc[t] = "assign" /\ pc'[t] = "failed"
    BY <1>a, <1>7 DEF GiveUp
  <2>2. line'[t] = "TaskFailed"
    BY <1>b, <2>1 DEF Emitted, Moves, TaskEvent
  <2>. QED
    BY <2>1, <2>2 DEF Spoken
<1>. QED
  BY <1>1, <1>2, <1>3, <1>4, <1>5, <1>6, <1>7 DEF RunOne

\* The lines of the delegated tasks stand in every step of the run.
LEMMA SpokenStep ==
  ASSUME IInv, IInv', RunNext, Observe, Reported
  PROVE  \A t \in Delegated : Spoken(t)'
<1>a. /\ TypeOK /\ BoardTypeOK /\ Placed /\ Delegated \subseteq Task /\ handles \subseteq Task
      /\ \A t \in Delegated : InStep(t) /\ InStep(t)' /\ Spoken(t) /\ Served(t)
  BY DEF IInv, RunTypeOK, TypeOK, Delegated, Reported
<1>b. (lead' = "off") = (call' = "off") /\ (lead' = "off" => \A t \in Task : pc'[t] = "none")
  BY DEF IInv, InCall
<1>1. CASE lead' = "off"
  <2>1. \A t \in Delegated : pc'[t] = "none" /\ line'[t] = "none"
    BY <1>a, <1>b, <1>1 DEF Observe
  <2>. QED
    BY <2>1 DEF Spoken
<1>2. CASE lead' # "off"
  <2>a. ASSUME NEW t \in Delegated, pc'[t] = pc[t], status'[t] = status[t], runs'[t] = runs[t]
        PROVE  Spoken(t)'
    BY <1>a, <1>2, <2>a, Silent, SpokenFrame
  <2>1. CASE \A t \in Delegated : Still(t)
    BY <2>1, <2>a DEF Still
  <2>2. CASE Stop
    BY <1>b, <1>2, <2>2 DEF Stop
  <2>3. CASE SpawnBatch
    <3> SUFFICES ASSUME NEW t \in Delegated PROVE Spoken(t)'
      OBVIOUS
    <3>1. CASE t \in handles
      <4>1. pc[t] = "none" /\ status[t] = "pending" /\ pc'[t] = "begin" /\ status' = status
        BY <1>a, <2>3, <3>1 DEF SpawnBatch, Served, boardVars
      <4>2. "TaskDelegated" \in Emitted(t)
        BY <4>1 DEF Emitted, Moves, TaskEvent
      <4>3. line'[t] = "TaskDelegated"
        BY <1>2, <4>2, TaskHeard
      <4>. QED
        BY <4>1, <4>3 DEF Spoken
    <3>2. CASE t \notin handles
      BY <1>a, <2>3, <2>a, <3>2 DEF SpawnBatch, boardVars
    <3>. QED
      BY <3>1, <3>2
  <2>4. ASSUME NEW t \in Delegated, NEW o \in Orders, CreateNext(t, o)
        PROVE  \A u \in Delegated : Spoken(u)'
    <3>1. pc' = pc /\ runs' = runs /\ status[t] = "absent"
          /\ \A u \in Delegated \ {t} : status'[u] = status[u]
      BY <1>a, <2>4 DEF CreateNext, CreateTask, Exists, BoardTypeOK
    <3>2. pc[t] = "none"
      BY <1>a, <3>1 DEF Placed, Exists
    <3>3. line[t] = "none" /\ line'[t] = "none"
      BY <1>a, <1>2, <3>1, <3>2, Silent DEF Spoken
    <3>4. Spoken(t)'
      BY <3>1, <3>2, <3>3 DEF Spoken
    <3>. QED
      BY <2>a, <3>1, <3>4
  <2>5. ASSUME NEW t \in Delegated, RunOne(t)
        PROVE  \A u \in Delegated : Spoken(u)'
    <3>1. \A u \in Task \ {t} : status'[u] = status[u] /\ runs'[u] = runs[u] /\ pc'[u] = pc[u]
      BY <1>a, <2>5, RunOneInStep
    <3>2. Spoken(t)'
      BY <1>a, <1>2, <2>5, RunOneSpoken
    <3>. QED
      BY <1>a, <2>a, <3>1, <3>2
  <2>6. ASSUME NEW t \in Delegated, Abort(t)
        PROVE  \A u \in Delegated : Spoken(u)'
    <3>1. /\ pc[t] \in UsesBoard \cup {"driving"} /\ pc'[t] = "broken"
          /\ UNCHANGED <<status, runs>> /\ \A u \in Task \ {t} : pc'[u] = pc[u]
      BY <1>a, <2>6 DEF Abort, Goto, TypeOK, boardVars
    <3>2. Spoken(t)'
      BY <1>a, <1>2, <3>1, Silent, SpokenAt DEF AttemptsIn
    <3>. QED
      BY <1>a, <2>a, <3>1, <3>2
  <2>7. ASSUME NEW t \in Delegated, RecoverInterruptedAttempt(t), UNCHANGED Rest,
               \A u \in Task : pc[u] = "none"
        PROVE  \A u \in Delegated : Spoken(u)'
    <3>1. \A u \in Delegated : pc[u] = "none" /\ pc'[u] = "none"
      BY <1>a, <2>7 DEF Rest, processVars
    <3>2. \A u \in Delegated : line[u] = "none" /\ line'[u] = "none"
      BY <1>a, <1>2, <3>1, Silent DEF Spoken
    <3>. QED
      BY <3>1, <3>2 DEF Spoken
  <2>. QED
    BY <2>1, <2>2, <2>3, <2>4, <2>5, <2>6, <2>7, Shape
<1>. QED
  BY <1>1, <1>2

\* How the runner moves, as far as it is announced.
LEMMA RunnerMoves ==
  ASSUME IInv, RunNext, lead = "done" => status[Root] = "succeeded"
  PROVE  \/ lead' = "off"
         \/ lead \in Untold /\ lead' \in Untold /\ (lead' = "refused" => pc' = pc)
         \/ lead \in Underway /\ lead' \in Underway
         \/ lead \in {"mark", "recovering"} /\ lead' = "seed"
         \/ lead = "status" /\ lead' = "done" /\ status'[Root] = "succeeded" /\ refs' = chosen'
         \/ lead = "off" /\ lead' = "done" /\ status'[Root] = "succeeded"
         \/ lead = "done" /\ lead' = "done" /\ status'[Root] = "succeeded"
              /\ UNCHANGED <<refs, chosen>>
         \/ lead \in Settling /\ lead' \in {"failed", "unsettled"}
         \/ lead \in {"failed", "unsettled"} /\ lead' = lead
<1> USE DEF Creating, Persisting, Settling, Ended, Untold, Underway, GoOn
<1>a. /\ Root \in Task /\ TypeOK /\ BoardTypeOK /\ InCall /\ RootOutcome
      /\ lead \in Untold \cup Underway \cup {"done", "failed", "unsettled"}
  BY RootAssumption DEF IInv, RunTypeOK, TypeOK
<1>1. CASE StartRun \/ CreateRoot \/ AssignRoot \/ RecordLeadAttempt \/ MarkRoot
           \/ \E t \in Task : RecoverNext(t)
  BY <1>1 DEF StartRun, CreateRoot, AssignRoot, RecordLeadAttempt, MarkRoot, RecoverNext
<1>2. CASE StartResume
  BY <1>2 DEF StartResume, ProcessStarts, boardVars
<1>3. CASE RecoveryDone \/ SeedTasks \/ Delegate \/ DecisionFails \/ BatchFails \/ BatchReturns
           \/ (\E selection \in SUBSET Task : Complete(selection))
           \/ PersistRefs \/ PersistAttempt \/ SettleFailedAttempt \/ SettleFailedStatus
  BY <1>3 DEF RecoveryDone, SeedTasks, Delegate, DecisionFails, BatchFails, BatchReturns, Complete,
       PersistRefs, PersistAttempt, SettleFailedAttempt, SettleFailedStatus
<1>4. CASE PersistStatus
  BY <1>a, <1>4 DEF PersistStatus, SetStatus, RootOutcome, BoardTypeOK, leadVars
<1>5. CASE BoardFails
  BY <1>5 DEF BoardFails, processVars
<1>6. CASE Exit \/ Kill
  BY <1>6 DEF Exit, Kill, Forget
<1>7. ASSUME lead = "scheduling", UNCHANGED runVars PROVE lead \in Underway /\ lead' \in Underway
  BY <1>7 DEF runVars
<1>8. CASE StartBatch \/ (\E t \in Task, o \in Orders : DelegateTask(t, o))
           \/ (lead = "scheduling" /\ UNCHANGED runVars
                 /\ \E t \in Task : JoinNext(t) \/ JoinFails(t))
           \/ (lead = "scheduling" /\ CreateFails /\ UNCHANGED runVars)
           \/ (\E t \in Task : TaskStep(t))
           \/ (\E t \in Task : call = "joining" /\ Abort(t) /\ UNCHANGED runVars)
  BY <1>a, <1>7, <1>8 DEF StartBatch, DelegateTask, TaskStep, InCall
<1>9. ASSUME NEW t \in Task, OperatorRecovers(t) PROVE lead' = "off"
  BY <1>a, <1>9 DEF OperatorRecovers, Recover, InCall, runVars
<1>. QED
  BY <1>1, <1>2, <1>3, <1>4, <1>5, <1>6, <1>8, <1>9 DEF RunNext, LeadStep

\* The lines of the root follow the runner.
LEMMA AnnouncedStep ==
  ASSUME IInv, IInv', RunNext, Observe, Reported, \A t \in Delegated : Spoken(t)'
  PROVE  Announced'
<1> USE DEF Creating, Persisting, Settling, Untold, Underway
<1>a. Root \in Task /\ Task = Delegated \cup {Root} /\ Announced
  BY RootAssumption DEF Delegated, Reported
<1>1. CASE lead' = "off"
  <2>1. \A t \in Task : line'[t] = "none"
    BY <1>1 DEF Observe
  <2>. QED
    BY <1>1, <2>1 DEF Announced
<1>2. CASE lead' # "off" /\ lead \in Untold /\ lead' \in Untold /\ (lead' = "refused" => pc' = pc)
  <2>1. EmittedByRun = {}
    BY <1>2 DEF EmittedByRun, LeadMoves, RootEvent
  <2>2. line'[Root] = "none"
    BY <1>a, <1>2, <2>1, RunHeard DEF Announced
  <2>3. ASSUME NEW t \in Delegated PROVE line'[t] = "none"
    <3>1. CASE lead' = "refused"
      BY <1>a, <1>2, <3>1, Silent DEF Announced
    <3>2. CASE lead' # "refused"
      <4>1. pc'[t] = "none"
        BY <1>a, <1>2, <3>2 DEF IInv, InCall
      <4>. QED
        BY <2>3, <4>1 DEF Spoken
    <3>. QED
      BY <3>1, <3>2
  <2>. QED
    BY <1>a, <1>2, <2>2, <2>3 DEF Announced
<1>3. CASE lead \in Underway /\ lead' \in Underway
  <2>1. EmittedByRun \subseteq {"LeadRoundStarted"}
    BY <1>3 DEF EmittedByRun, LeadMoves, RootEvent
  <2>2. line'[Root] = line[Root] \/ line'[Root] = "LeadRoundStarted"
    BY <1>3, <2>1, RunHeard
  <2>. QED
    BY <1>a, <1>3, <2>2 DEF Announced
<1>4. CASE lead \in {"mark", "recovering"} /\ lead' = "seed"
  <2>1. (IF lead = "mark" THEN "RunStarted" ELSE "RunResumed") \in EmittedByRun
    BY <1>4 DEF EmittedByRun, LeadMoves, RootEvent
  <2>2. line'[Root] \in {"RunStarted", "RunResumed"}
    BY <1>4, <2>1, RunHeard
  <2>. QED
    BY <1>4, <2>2 DEF Announced
<1>5. CASE lead = "status" /\ lead' = "done" /\ status'[Root] = "succeeded" /\ refs' = chosen'
  <2>1. "RunCompleted" \in EmittedByRun
    BY <1>5 DEF EmittedByRun, LeadMoves, RootEvent
  <2>2. line'[Root] = "RunCompleted"
    BY <1>5, <2>1, RunHeard
  <2>. QED
    BY <1>5, <2>2 DEF Announced
<1>6. CASE lead \in {"off", "done"} /\ lead' = "done" /\ status'[Root] = "succeeded"
           /\ (lead = "done" => UNCHANGED <<refs, chosen>>)
  <2>1. EmittedByRun = {}
    BY <1>6 DEF EmittedByRun, LeadMoves, RootEvent
  <2>2. line'[Root] = line[Root]
    BY <1>6, <2>1, RunHeard
  <2>. QED
    BY <1>a, <1>6, <2>2 DEF Announced
<1>7. CASE lead \in Settling /\ lead' \in {"failed", "unsettled"}
  <2>1. "RunFailed" \in EmittedByRun
    BY <1>7 DEF EmittedByRun, LeadMoves, RootEvent
  <2>2. line'[Root] = "RunFailed"
    BY <1>7, <2>1, RunHeard
  <2>. QED
    BY <1>7, <2>2 DEF Announced
<1>8. CASE lead \in {"failed", "unsettled"} /\ lead' = lead
  <2>1. EmittedByRun = {}
    BY <1>8 DEF EmittedByRun, LeadMoves, RootEvent
  <2>2. line'[Root] = line[Root]
    BY <1>8, <2>1, RunHeard
  <2>. QED
    BY <1>a, <1>8, <2>2 DEF Announced
<1>9. lead = "done" => status[Root] = "succeeded"
  BY <1>a DEF Announced
<1>. QED
  BY <1>1, <1>2, <1>3, <1>4, <1>5, <1>6, <1>7, <1>8, <1>9, RunnerMoves

\* A reported run is a run: the sink only listens.
LEMMA ReportRefines == ReportNext \/ UNCHANGED reportVars => [RunNext]_allVars
BY DEF ReportNext, reportVars

\* Runner, tasks and lines agree in every reachable state of a reported run.
THEOREM ReportInvariant == ReportSpec => [](IInv /\ Reported)
<1>1. ReportInit => IInv /\ Reported
  <2> SUFFICES ASSUME ReportInit PROVE IInv /\ Reported
    OBVIOUS
  <2>1. IInv /\ lead = "off" /\ Root \in Task
    BY InitIInv, RootAssumption DEF ReportInit, RunInit
  <2>2. \A t \in Task : line[t] = "none" /\ pc[t] = "none"
    BY DEF ReportInit, RunInit, Init, Everywhere
  <2>. QED
    BY <2>1, <2>2 DEF Reported, Announced, Spoken, Delegated, Underway, Persisting, Settling
<1>2. IInv /\ Reported /\ [ReportNext]_reportVars => (IInv /\ Reported)'
  <2> SUFFICES ASSUME IInv, Reported, [ReportNext]_reportVars PROVE IInv' /\ Reported'
    OBVIOUS
  <2>1. IInv'
    BY NextIInv, ReportRefines
  <2>2. CASE ReportNext
    <3>1. RunNext /\ Observe
      BY <2>2 DEF ReportNext
    <3>2. \A t \in Delegated : Spoken(t)'
      BY <2>1, <3>1, SpokenStep
    <3>. QED
      BY <2>1, <3>1, <3>2, AnnouncedStep DEF Reported
  <2>3. CASE UNCHANGED reportVars
    <3>1. UNCHANGED <<line, status, runs, pc, lead, refs, chosen>>
      BY <2>3 DEF reportVars, allVars, vars, boardVars, processVars, runVars, leadVars
    <3>2. \A t \in Delegated : Spoken(t)'
      BY <3>1, SpokenFrame DEF Reported
    <3>. QED
      BY <2>1, <3>1, <3>2 DEF Reported, Announced
  <2>. QED
    BY <2>1, <2>2, <2>3
<1>. QED
  BY <1>1, <1>2, PTL DEF ReportSpec

\* A task that has not succeeded has no succeeded attempt.
LEMMA NoneSucceeded ==
  ASSUME NEW t \in Delegated, BoardTypeOK, InStep(t), status[t] \notin {"absent", "succeeded"}
  PROVE  Exists(t) /\ AttemptsIn(t, "succeeded") = {}
<1>1. status[t] \in {"pending", "assigned", "running", "failed"} /\ Len(runs[t]) \in Nat
  BY DEF BoardTypeOK, TaskStatus, InStep, RowsMatchStatus, Delegated
<1>2. AllFailed(t) \/ LastIs(t, "running")
  BY <1>1 DEF InStep, RowsMatchStatus
<1>. QED
  BY <1>1, <1>2 DEF Exists, AllFailed, LastIs, AttemptsIn

\* Whatever breaks after an event, what it claimed is on the board for as long
\* as it is the last of its task, and a failed run is told with its state.
LEMMA LinesHold ==
  ASSUME IInv, Reported
  PROVE  ReportFollowsBoard
<1> USE DEF Creating, Persisting, Settling, Untold, Underway
<1>a. /\ Root \in Task /\ Task = Delegated \cup {Root} /\ BoardTypeOK /\ TypeOK
      /\ Announced /\ RootInPlace /\ RootOutcome
      /\ lead \in Untold \cup Underway \cup {"done", "failed", "unsettled"}
  BY RootAssumption DEF Delegated, Reported, IInv, RunTypeOK, TypeOK, Ended
<1>1. ASSUME NEW t \in Delegated, line[t] # "none" PROVE Claim(t, line[t])
  <2>a. /\ t \in Task /\ InStep(t) /\ Served(t) /\ Spoken(t)
        /\ pc[t] \in Live \cup Finished \cup {"none", "broken"}
    BY <1>a, <1>1 DEF IInv, Reported, TypeOK
  <2>b. \/ line[t] \in {"TaskDelegated", "AttemptStarted", "AttemptFailed"}
        \/ line[t] = "TaskSucceeded" /\ status[t] = "succeeded"
        \/ line[t] = "TaskFailed" /\ status[t] = "failed"
    BY <1>1, <2>a DEF Spoken, Served, Live, Awaiting, UsesBoard, Finished
  <2>1. CASE line[t] = "TaskDelegated"
    BY <1>a, <2>a, <2>1, NoneSucceeded DEF Claim, Spoken
  <2>2. CASE line[t] = "AttemptStarted"
    BY <2>a, <2>2 DEF Claim, Spoken, LastIs
  <2>3. CASE line[t] = "AttemptFailed"
    BY <1>a, <2>a, <2>3, NoneSucceeded DEF Claim, Spoken
  <2>4. CASE line[t] = "TaskSucceeded" /\ status[t] = "succeeded"
    <3>1. outputs[t] = <<Len(runs[t])>>
      BY <2>a, <2>4 DEF InStep, RowsMatchStatus
    <3>2. Len(outputs[t]) = 1
      BY <3>1
    <3>. QED
      BY <2>4, <3>2 DEF Claim
  <2>5. CASE line[t] = "TaskFailed" /\ status[t] = "failed"
    BY <1>a, <2>a, <2>5, NoneRunning DEF Claim
  <2>. QED
    BY <2>b, <2>1, <2>2, <2>3, <2>4, <2>5
<1>2. ASSUME line[Root] # "none" PROVE Claim(Root, line[Root])
  <2>1. CASE line[Root] = "RunCompleted"
    <3>1. lead = "done"
      BY <1>a, <2>1 DEF Announced
    <3>. QED
      BY <1>a, <2>1, <3>1 DEF Announced, Claim
  <2>2. CASE line[Root] = "RunFailed"
    <3>1. lead \in {"failed", "unsettled"}
      BY <1>a, <2>2 DEF Announced
    <3>. QED
      BY <1>a, <2>2, <3>1 DEF Claim, RootOutcome, FailureIsSettled
  <2>3. CASE line[Root] \notin {"RunCompleted", "RunFailed"}
    <3>1. line[Root] \in {"RunStarted", "RunResumed", "LeadRoundStarted"} /\ lead \in Underway
      BY <1>a, <1>2, <2>3 DEF Announced
    <3>2. Exists(Root)
      BY <1>a, <3>1 DEF RootInPlace
    <3>. QED
      BY <3>1, <3>2 DEF Claim
  <2>. QED
    BY <2>1, <2>2, <2>3
<1>3. lead \in {"failed", "unsettled"} <=> line[Root] = "RunFailed"
  BY <1>a DEF Announced
<1>. QED
  BY <1>a, <1>1, <1>2, <1>3 DEF ReportFollowsBoard, FailurePayload, RunKnown, Announced

\* No event of a run claims what the board does not hold.
THEOREM EventsFollowBoard == ReportSpec => []ReportFollowsBoard
BY LinesHold, ReportInvariant, PTL

-----------------------------------------------------------------------------
(* What is shown (BoardViews).                                             *)

View == [at : {"closed", "list", "row", "outputs", "refs", "answer", "shown", "answered"},
         header : BOOLEAN, left : SUBSET Task, good : SUBSET Task,
         bare : SUBSET Task, selection : SUBSET Task]

\* What a run with a header that says succeeded rests on.
Due == refs \cup {Root}

\* The picture so far: only the row just read may lack its outputs, and
\* whatever a succeeded header rests on is shown or still to be read.
Pictured ==
  /\ view \in View
  /\ view.at \in {"closed", "list", "answer"} => view.good = {} /\ view.bare = {} /\ view.left = {}
  /\ view.at = "row" => view.bare \subseteq {Root}
  /\ view.at = "outputs" => \A t \in view.bare : t = Root \/ IsNextTask(t)
  /\ view.at = "refs" => view.bare \subseteq {Root}
  /\ \A t \in view.bare : Succeeded(t)
  /\ view.header => Succeeded(Root)
  /\ view.header /\ view.at = "row" => Due \subseteq view.good \cup view.left
  /\ view.header /\ view.at = "outputs" =>
       \A t \in Due : t \in view.good \/ (t \in view.left /\ ~ IsNextTask(t))
  /\ view.header /\ view.at = "refs" => Due \subseteq view.good
  /\ ShownIsGrounded

\* While somebody looks the run goes on, but takes back no success.
LEMMA ViewOutlivesStep ==
  ASSUME IInv, [RunNext]_allVars, Pictured, UNCHANGED view
  PROVE  Pictured'
<1>1. \A t \in Task : Succeeded(t) => Succeeded(t)'
  BY KeptStep, RootKept DEF Succeeded, Delegated
<1>2. Succeeded(Root) => Due' = Due
  BY RootKept DEF Succeeded, Due
<1>3. view.bare \subseteq Task /\ Root \in Task
  BY RootAssumption DEF Pictured, View
<1>. QED
  BY <1>1, <1>2, <1>3 DEF Pictured, ShownIsGrounded, IsNextTask

\* What a picture rests on when the header says that the run has succeeded.
LEMMA DueIsSucceeded ==
  ASSUME IInv, Succeeded(Root)
  PROVE  /\ refs # {} /\ Root \in Task /\ Due \subseteq Task
         /\ \A t \in Due : Succeeded(t) /\ Exists(t)
         /\ AttemptsIn(Root, "succeeded") # {}
<1>1. Grounded(refs) /\ runs[Root] = <<LeadRow("succeeded")>> /\ Root \in Task
  BY RootAssumption DEF IInv, RootOutcome, Succeeded
<1>2. 1 \in AttemptsIn(Root, "succeeded")
  BY <1>1 DEF AttemptsIn, LeadRow
<1>. QED
  BY <1>1, <1>2 DEF Grounded, Children, Due, Succeeded, Exists

\* A delegated task that has succeeded has its outputs.
LEMMA SucceededHasOutputs ==
  ASSUME IInv, NEW t \in Delegated, Succeeded(t)
  PROVE  OutputsOf(t)
<1>1. t \in Task /\ InStep(t) /\ Len(runs[t]) \in Nat
  BY DEF IInv, RunTypeOK, TypeOK, BoardTypeOK, Delegated
<1>2. outputs[t] = <<Len(runs[t])>> /\ LastIs(t, "succeeded")
  BY <1>1 DEF Succeeded, InStep, RowsMatchStatus
<1>3. Len(runs[t]) \in AttemptsIn(t, "succeeded")
  BY <1>1, <1>2 DEF LastIs, AttemptsIn
<1>. QED
  BY <1>2, <1>3 DEF OutputsOf, ArtifactsOf

\* Each statement of a picture keeps it so.
LEMMA LookKeeps ==
  ASSUME IInv, Pictured, ViewStep
  PROVE  Pictured'
<1> USE DEF Show
<1>a. /\ Root \in Task /\ Task = Delegated \cup {Root} /\ Task \subseteq Nat /\ refs \subseteq Task
      /\ view \in View /\ (view.header => Succeeded(Root))
  BY RootAssumption, TaskAssumption DEF IInv, RunTypeOK, Delegated, Pictured
<1>b. UNCHANGED <<status, runs, outputs, refs>> /\ (\A t : Succeeded(t)' = Succeeded(t)) /\ Due' = Due
  BY DEF ViewStep, OpenView, ListTasks, ReadRow, ReadOutputs, EndRows, ReadSelection, ReadAnswer,
     Close, reportVars, allVars, vars, boardVars, runVars, Succeeded, Due
<1>c. Succeeded(Root) => /\ refs # {} /\ Due \subseteq Task /\ Root \in Due
                         /\ \A t \in Due : Succeeded(t) /\ Exists(t)
                         /\ AttemptsIn(Root, "succeeded") # {}
  BY DueIsSucceeded DEF Due
<1>1. ASSUME NEW goal \in {"list", "answer"}, OpenView(goal) PROVE Pictured'
  <2>1. Succeeded(Root) => Exists(Root)
    BY DEF Succeeded, Exists
  <2>2. view' = [at |-> IF Exists(Root) THEN goal ELSE "shown", header |-> Succeeded(Root),
                 left |-> {}, good |-> {}, bare |-> {}, selection |-> {}]
    BY <1>1 DEF OpenView, Closed
  <2>. QED
    BY <1>a, <1>b, <2>1, <2>2 DEF Pictured, View, ShownIsGrounded, Succeeded
<1>2. CASE ListTasks
  <2>1. /\ view'.at = "row" /\ view'.left = {t \in Task : Exists(t)} /\ view'.header = view.header
        /\ view'.good = {} /\ view'.bare = {} /\ view' \in View
    BY <1>a, <1>2 DEF ListTasks, View, Pictured
  <2>2. view.header => Due \subseteq view'.left
    BY <1>a, <1>c, <2>1
  <2>. QED
    BY <1>a, <1>b, <2>1, <2>2 DEF Pictured, ShownIsGrounded
<1>3. ASSUME NEW t \in Task, ReadRow(t) PROVE Pictured'
  <2>1. /\ view.at = "row" /\ IsNextTask(t) /\ view'.at = "outputs" /\ view' \in View
        /\ view'.left = view.left /\ view'.header = view.header
        /\ Succeeded(t) => view'.good = view.good \cup {t} /\ view'.bare = view.bare \cup {t}
        /\ ~ Succeeded(t) => view'.good = view.good /\ view'.bare = view.bare
    BY <1>a, <1>3 DEF ReadRow, View
  <2>2. view.bare \subseteq {Root} /\ \A u \in view.bare : Succeeded(u)
    BY <2>1 DEF Pictured
  <2>3. \A u \in Task : IsNextTask(u)' <=> u = t
    BY <1>a, <2>1 DEF IsNextTask
  <2>4. ASSUME view'.header, NEW u \in Due
        PROVE  u \in view'.good \/ (u \in view'.left /\ ~ IsNextTask(u)')
    <3>1. u \in view.good \cup view.left /\ u \in Task /\ Succeeded(u)
      BY <1>a, <1>c, <2>1, <2>4 DEF Pictured
    <3>. QED
      BY <2>1, <2>3, <3>1
  <2>. QED
    BY <1>a, <1>b, <2>1, <2>2, <2>3, <2>4 DEF Pictured, ShownIsGrounded
<1>4. ASSUME NEW t \in Task, ReadOutputs(t) PROVE Pictured'
  <2>1. /\ view.at = "outputs" /\ IsNextTask(t) /\ view'.at = "row" /\ view' \in View
        /\ view'.left = view.left \ {t} /\ view'.header = view.header /\ view'.good = view.good
        /\ view'.bare = IF OutputsOf(t) THEN view.bare \ {t} ELSE view.bare
    BY <1>a, <1>4 DEF ReadOutputs, View
  <2>2. \A u \in Task : IsNextTask(u) <=> u = t
    BY <1>a, <2>1 DEF IsNextTask, View
  <2>3. view'.bare \subseteq {Root} /\ \A u \in view'.bare : Succeeded(u)
    <3>1. \A u \in view.bare : Succeeded(u) /\ (u = Root \/ u = t) /\ u \in Task
      BY <1>a, <2>1, <2>2 DEF Pictured, View
    <3>2. t # Root /\ Succeeded(t) => OutputsOf(t)
      BY <1>a, SucceededHasOutputs
    <3>. QED
      BY <2>1, <3>1, <3>2
  <2>4. view'.header => Due \subseteq view'.good \cup view'.left
    BY <1>a, <1>c, <2>1, <2>2 DEF Pictured
  <2>. QED
    BY <1>a, <1>b, <2>1, <2>3, <2>4 DEF Pictured, ShownIsGrounded
<1>5. CASE EndRows
  <2>1. /\ view.at = "row" /\ view.left = {} /\ view'.at = "refs" /\ view' \in View
        /\ view'.header = view.header /\ view'.good = view.good /\ view'.bare = view.bare
    BY <1>a, <1>5 DEF EndRows, View
  <2>. QED
    BY <1>a, <1>b, <2>1 DEF Pictured, ShownIsGrounded
<1>6. CASE ReadSelection
  <2>1. /\ view.at = "refs" /\ view'.at = "shown" /\ view' \in View /\ view'.selection = refs
        /\ view'.header = view.header /\ view'.good = view.good /\ view'.bare = view.bare
    BY <1>a, <1>6 DEF ReadSelection, FinalRefs, View
  <2>. QED
    BY <1>a, <1>b, <1>c, <2>1 DEF Pictured, ShownIsGrounded, Due
<1>7. CASE ReadAnswer
  <2>1. /\ view.at = "answer" /\ view'.at = "answered" /\ view' \in View
        /\ view'.header = view.header /\ view'.bare = view.bare
        /\ AttemptsIn(Root, "succeeded") # {} => view'.good = {Root}
    BY <1>a, <1>7 DEF ReadAnswer, View
  <2>. QED
    BY <1>a, <1>b, <1>c, <2>1 DEF Pictured, ShownIsGrounded
<1>8. CASE Close
  <2>1. view' = Closed
    BY <1>8 DEF Close
  <2>. QED
    BY <2>1 DEF Closed, Pictured, View, ShownIsGrounded
<1>. QED
  BY <1>1, <1>2, <1>3, <1>4, <1>5, <1>6, <1>7, <1>8 DEF ViewStep

\* Those who look leave the run alone.
THEOREM ViewersOnlyLook == ViewSpec => ReportSpec
<1>1. ViewInit => ReportInit
  BY DEF ViewInit
<1>2. [ViewNext]_viewVars => [ReportNext]_reportVars
  BY DEF ViewNext, ViewStep, OpenView, ListTasks, ReadRow, ReadOutputs, EndRows, ReadSelection,
     ReadAnswer, Close, Show, viewVars
<1>. QED
  BY <1>1, <1>2, PTL DEF ViewSpec, ReportSpec

\* No picture shows an outcome without what it rests on, however many steps of
\* the run come between the statements it is read with.
THEOREM PicturesAreGrounded == ViewSpec => []ShownIsGrounded
<1>1. ViewInit => Pictured
  BY DEF ViewInit, Closed, Pictured, View, ShownIsGrounded
<1>2. IInv /\ Pictured /\ [ViewNext]_viewVars => Pictured'
  <2> SUFFICES ASSUME IInv, Pictured, [ViewNext]_viewVars PROVE Pictured'
    OBVIOUS
  <2>1. CASE ViewStep
    BY <2>1, LookKeeps
  <2>2. CASE UNCHANGED view /\ [ReportNext]_reportVars
    BY <2>2, ReportRefines, ViewOutlivesStep
  <2>. QED
    BY <2>1, <2>2 DEF ViewNext, viewVars
<1>3. Pictured => ShownIsGrounded
  BY DEF Pictured
<1>. QED
  BY <1>1, <1>2, <1>3, ViewersOnlyLook, ReportInvariant, PTL DEF ViewSpec
=============================================================================
