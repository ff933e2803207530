----------------------------- MODULE Scheduler -----------------------------
(***************************************************************************)
(* The bounded-concurrency scheduler of agentmosaic-team: `schedule` puts  *)
(* a batch of tasks on the board and spawns one `run_one` per task; each   *)
(* walks its candidate agents, retrying every one MaxRetries times under   *)
(* the agent's semaphore, and settles every attempt on the board.          *)
(*                                                                         *)
(* One action is one board transaction or one await.  The process may be   *)
(* killed between any two of them, a board call may fail and a driver may  *)
(* panic.  While no process runs, the operator has the documented way      *)
(* back: `am recover`, `am resume`, then `resume_existing`.                *)
(***************************************************************************)
EXTENDS TeamBoard, FiniteSets

CONSTANTS
  Orders,          \* the candidate orders `candidate_order` can return
  Drivers,         \* the agents that have a driver
  MaxConcurrency,  \* AgentConfig::max_concurrency of each agent
  MaxRetries,      \* attempts per agent, positive: parse_positive_u32
  MaxFaults,       \* bound: board calls that fail and drivers that panic
  MaxCrashes,      \* bound: kills of the process while it has work
  MaxResumes       \* bound: `am resume` commands

ASSUME OrdersAssumption == Orders \subseteq Seq(Agent)
ASSUME DriversAssumption == Drivers \subseteq Agent
ASSUME ConcurrencyAssumption == MaxConcurrency \in [Agent -> Nat \ {0}]
ASSUME RetriesAssumption == MaxRetries \in Nat \ {0}
ASSUME BoundsAssumption ==
  MaxFaults \in Nat /\ MaxCrashes \in Nat /\ MaxResumes \in Nat

VARIABLES
  order,    \* candidate order of each task; kind and target are durable
  call,     \* where the process is: in no call, in `schedule`, or not running
  handles,  \* the tasks of the call whose JoinHandle is still to be awaited
  pc,       \* where each `run_one` is
  cand,     \* index of the candidate it is at
  tries,    \* attempts it has finished on that candidate
  seq,      \* its attempt_seq
  base,     \* attempts the task already had when it started
  permits,  \* free permits of each agent's semaphore
  faults, crashes, resumes

callVars == <<call, handles>>
loopVars == <<cand, tries, seq, base>>
budgets == <<faults, crashes, resumes>>
processVars == <<call, handles, pc, cand, tries, seq, base, permits>>
vars == <<boardVars, order, processVars, budgets>>

Awaiting == {"acquire", "driving"}
UsesBoard == {"begin", "assign", "record", "mark", "context", "settle"}
Finished == {"succeeded", "failed"}
Live == Awaiting \cup UsesBoard
\* A permit is held from acquire() to the drop right after the driver returns.
Holding == {"record", "mark", "context", "driving"}

TypeOK ==
  /\ BoardTypeOK
  /\ order \in [Task -> Orders \cup {<<>>}]
  /\ call \in {"off", "idle", "creating", "joining", "failed"}
  /\ handles \subseteq Task
  /\ pc \in [Task -> Live \cup Finished \cup {"none", "broken"}]
  /\ cand \in [Task -> Nat \ {0}]
  /\ tries \in [Task -> Nat]
  /\ seq \in [Task -> Nat]
  /\ base \in [Task -> Nat]
  /\ permits \in [Agent -> Nat]
  /\ faults \in 0 .. MaxFaults
  /\ crashes \in 0 .. MaxCrashes
  /\ resumes \in 0 .. MaxResumes

Everywhere(v) == [t \in Task |-> v]

Init ==
  /\ BoardInit
  /\ order = [t \in Task |-> <<>>]
  /\ call = "off"
  /\ handles = {}
  /\ pc = Everywhere("none")
  /\ cand = Everywhere(1)
  /\ tries = Everywhere(0)
  /\ seq = Everywhere(0)
  /\ base = Everywhere(0)
  /\ permits = MaxConcurrency
  /\ faults = 0 /\ crashes = 0 /\ resumes = 0

-----------------------------------------------------------------------------
(* schedule and resume_existing.                                           *)

BeginSchedule ==
  /\ call = "idle"
  /\ call' = "creating"
  /\ handles' = {}
  /\ UNCHANGED <<boardVars, order, pc, loopVars, permits, budgets>>

CreateNext(t, o) ==
  /\ call = "creating"
  /\ CreateTask(t)
  /\ order' = [order EXCEPT ![t] = o]
  /\ handles' = handles \cup {t}
  /\ UNCHANGED <<call, pc, loopVars, permits, budgets>>

\* An empty batch is allowed: there is nothing to spawn or to join.
SpawnBatch ==
  /\ call = "creating"
  /\ call' = "joining"
  /\ pc' = [t \in Task |-> IF t \in handles THEN "begin" ELSE pc[t]]
  /\ UNCHANGED <<boardVars, order, handles, loopVars, permits, budgets>>

\* create_task fails: the rows created so far stay behind as pending.
CreateFails ==
  /\ call = "creating"
  /\ faults < MaxFaults
  /\ faults' = faults + 1
  /\ call' = "failed"
  /\ handles' = {}
  /\ UNCHANGED <<boardVars, order, pc, loopVars, permits, crashes, resumes>>

\* Mutant: any task can be run again, whatever its status.
ResumeAnything(t) ==
  /\ call = "idle"
  /\ Exists(t)
  /\ call' = "joining"
  /\ handles' = {t}
  /\ pc' = [pc EXCEPT ![t] = "begin"]
  /\ UNCHANGED <<boardVars, order, loopVars, permits, budgets>>

ResumeExisting(t) ==
  /\ call = "idle"
  /\ status[t] = "pending"
  /\ call' = "joining"
  /\ handles' = {t}
  /\ pc' = [pc EXCEPT ![t] = "begin"]
  /\ UNCHANGED <<boardVars, order, loopVars, permits, budgets>>

\* Handles are awaited in the order of the batch, that is of the ids.
IsNextHandle(t) == t \in handles /\ \A u \in handles : t <= u

\* Mutant: the error of a joined task is dropped.
JoinIgnoringErrors(t) ==
  /\ call = "joining"
  /\ IsNextHandle(t)
  /\ pc[t] \in Finished \cup {"broken"}
  /\ handles' = handles \ {t}
  /\ UNCHANGED <<boardVars, order, call, pc, loopVars, permits, budgets>>

JoinNext(t) ==
  /\ call = "joining"
  /\ IsNextHandle(t)
  /\ pc[t] \in Finished
  /\ handles' = handles \ {t}
  /\ UNCHANGED <<boardVars, order, call, pc, loopVars, permits, budgets>>

\* `??` on a task that ended in a board error or a panic: the call returns at
\* once and drops the handles it has not awaited, which detaches their tasks.
JoinFails(t) ==
  /\ call = "joining"
  /\ IsNextHandle(t)
  /\ pc[t] = "broken"
  /\ call' = "failed"
  /\ handles' = {}
  /\ UNCHANGED <<boardVars, order, pc, loopVars, permits, budgets>>

Return ==
  /\ call = "joining"
  /\ handles = {}
  /\ call' = "idle"
  /\ UNCHANGED <<boardVars, order, handles, pc, loopVars, permits, budgets>>

-----------------------------------------------------------------------------
(* run_one.                                                                *)

Candidate(t) == order[t][cand[t]]

\* The board mutex is held across record_attempt and set_status.
LockFree(t) == \A u \in Task \ {t} : pc[u] # "mark"

Goto(t, l) == pc' = [pc EXCEPT ![t] = l]

Begin(t) ==
  /\ pc[t] = "begin"
  /\ LockFree(t)
  /\ Goto(t, "assign")
  /\ cand' = [cand EXCEPT ![t] = 1]
  /\ tries' = [tries EXCEPT ![t] = 0]
  /\ seq' = [seq EXCEPT ![t] = Len(runs[t])]
  /\ base' = [base EXCEPT ![t] = Len(runs[t])]
  /\ UNCHANGED <<boardVars, order, callVars, permits, budgets>>

SkipUndriven(t) ==
  /\ pc[t] = "assign"
  /\ cand[t] <= Len(order[t])
  /\ Candidate(t) \notin Drivers
  /\ cand' = [cand EXCEPT ![t] = @ + 1]
  /\ UNCHANGED <<boardVars, order, callVars, pc, tries, seq, base, permits, budgets>>

AssignCandidate(t) ==
  /\ pc[t] = "assign"
  /\ LockFree(t)
  /\ cand[t] <= Len(order[t])
  /\ Candidate(t) \in Drivers
  /\ Assign(t, Candidate(t))
  /\ Goto(t, "acquire")
  /\ tries' = [tries EXCEPT ![t] = 0]
  /\ UNCHANGED <<order, callVars, cand, seq, base, permits, budgets>>

Acquire(t) ==
  /\ pc[t] = "acquire"
  /\ permits[Candidate(t)] > 0
  /\ permits' = [permits EXCEPT ![Candidate(t)] = @ - 1]
  /\ seq' = [seq EXCEPT ![t] = @ + 1]
  /\ Goto(t, "record")
  /\ UNCHANGED <<boardVars, order, callVars, cand, tries, base, budgets>>

\* Mutant: attempts are numbered from one again on every candidate.
RecordFromOne(t) ==
  /\ pc[t] = "record"
  /\ LockFree(t)
  /\ RecordAttempt(t, tries[t] + 1, Candidate(t), "running")
  /\ Goto(t, "mark")
  /\ UNCHANGED <<order, callVars, loopVars, permits, budgets>>

RecordRunning(t) ==
  /\ pc[t] = "record"
  /\ LockFree(t)
  /\ RecordAttempt(t, seq[t], Candidate(t), "running")
  /\ Goto(t, "mark")
  /\ UNCHANGED <<order, callVars, loopVars, permits, budgets>>

MarkRunning(t) ==
  /\ pc[t] = "mark"
  /\ SetStatus(t, "running")
  /\ Goto(t, "context")
  /\ UNCHANGED <<order, callVars, loopVars, permits, budgets>>

\* Reads the directed messages, then hands the task to the driver.
StartDriver(t) ==
  /\ pc[t] = "context"
  /\ LockFree(t)
  /\ Goto(t, "driving")
  /\ UNCHANGED <<boardVars, order, callVars, loopVars, permits, budgets>>

\* Mutant: the permit is forgotten.
DriverKeepsPermit(t) ==
  /\ pc[t] = "driving"
  /\ Goto(t, "settle")
  /\ UNCHANGED <<boardVars, order, callVars, loopVars, permits, budgets>>

\* The permit is dropped here, before the outcome is on the board.
DriverReturns(t) ==
  /\ pc[t] = "driving"
  /\ permits' = [permits EXCEPT ![Candidate(t)] = @ + 1]
  /\ Goto(t, "settle")
  /\ UNCHANGED <<boardVars, order, callVars, loopVars, budgets>>

SettleSuccess(t) ==
  /\ pc[t] = "settle"
  /\ LockFree(t)
  /\ CommitSuccessfulResult(t, seq[t])
  /\ Goto(t, "succeeded")
  /\ UNCHANGED <<order, callVars, loopVars, permits, budgets>>

\* Mutant: a candidate is tried once more than MaxRetries.
SettleFailureLate(t) ==
  LET exhausted == tries[t] >= MaxRetries
  IN  /\ pc[t] = "settle"
      /\ LockFree(t)
      /\ CompleteAttempt(t, seq[t], "failed")
      /\ Goto(t, IF exhausted THEN "assign" ELSE "acquire")
      /\ cand' = [cand EXCEPT ![t] = IF exhausted THEN @ + 1 ELSE @]
      /\ tries' = [tries EXCEPT ![t] = @ + 1]
      /\ UNCHANGED <<order, callVars, seq, base, permits, budgets>>

\* Only the attempt is settled: the task stays running until the next attempt,
\* the next assignment or the final failure.
SettleFailure(t) ==
  LET exhausted == tries[t] + 1 >= MaxRetries
  IN  /\ pc[t] = "settle"
      /\ LockFree(t)
      /\ CompleteAttempt(t, seq[t], "failed")
      /\ Goto(t, IF exhausted THEN "assign" ELSE "acquire")
      /\ cand' = [cand EXCEPT ![t] = IF exhausted THEN @ + 1 ELSE @]
      /\ tries' = [tries EXCEPT ![t] = @ + 1]
      /\ UNCHANGED <<order, callVars, seq, base, permits, budgets>>

GiveUp(t) ==
  /\ pc[t] = "assign"
  /\ LockFree(t)
  /\ cand[t] > Len(order[t])
  /\ SetStatus(t, "failed")
  /\ Goto(t, "failed")
  /\ UNCHANGED <<order, callVars, loopVars, permits, budgets>>

\* Mutant: a run_one that ends early does not give its permit back.
AbortKeepingPermit(t) ==
  /\ pc[t] \in UsesBoard \cup {"driving"}
  /\ faults < MaxFaults
  /\ faults' = faults + 1
  /\ Goto(t, "broken")
  /\ UNCHANGED <<boardVars, order, callVars, loopVars, permits, crashes, resumes>>

\* `?` on any board call, or a panic of the driver, ends run_one.  Leaving the
\* function drops the permit it holds.
Abort(t) ==
  /\ \/ pc[t] \in UsesBoard /\ LockFree(t)
     \/ pc[t] = "driving"
  /\ faults < MaxFaults
  /\ faults' = faults + 1
  /\ permits' = IF pc[t] \in Holding
                THEN [permits EXCEPT ![Candidate(t)] = @ + 1]
                ELSE permits
  /\ Goto(t, "broken")
  /\ UNCHANGED <<boardVars, order, callVars, loopVars, crashes, resumes>>

RunOne(t) ==
  \/ Begin(t) \/ SkipUndriven(t) \/ AssignCandidate(t) \/ Acquire(t)
  \/ RecordRunning(t) \/ MarkRunning(t) \/ StartDriver(t) \/ DriverReturns(t)
  \/ SettleSuccess(t) \/ SettleFailure(t) \/ GiveUp(t)

-----------------------------------------------------------------------------
(* The process and its operator.                                           *)

\* All that is left of a process when it is gone is the board.
Stop ==
  /\ call' = "off"
  /\ handles' = {}
  /\ pc' = Everywhere("none")
  /\ cand' = Everywhere(1)
  /\ tries' = Everywhere(0)
  /\ seq' = Everywhere(0)
  /\ base' = Everywhere(0)
  /\ permits' = MaxConcurrency
  /\ UNCHANGED <<boardVars, order, faults, resumes>>

\* The process ends, by itself when no call is being served (a failed call
\* makes the Lead return), or killed.
ProcessEnds ==
  /\ call # "off"
  /\ IF call \in {"idle", "failed"} THEN crashes' = crashes
     ELSE crashes < MaxCrashes /\ crashes' = crashes + 1
  /\ Stop

ProcessStarts ==
  /\ call = "off"
  /\ call' = "idle"
  /\ UNCHANGED <<boardVars, order, handles, pc, loopVars, permits, budgets>>

\* `am recover`, and `am recover-all` one task at a time.
Recover(t) ==
  /\ call = "off"
  /\ RecoverInterruptedAttempt(t)
  /\ UNCHANGED <<order, processVars, budgets>>

\* `am resume`.
Resume(t) ==
  /\ call = "off"
  /\ resumes < MaxResumes
  /\ status[t] \in {"failed", "cancelled"}
  /\ SetStatus(t, "pending")
  /\ resumes' = resumes + 1
  /\ UNCHANGED <<order, processVars, faults, crashes>>

-----------------------------------------------------------------------------
Next ==
  \/ BeginSchedule \/ SpawnBatch \/ CreateFails \/ Return
  \/ \E t \in Task, o \in Orders : CreateNext(t, o)
  \/ \E t \in Task :
       \/ ResumeExisting(t) \/ JoinNext(t) \/ JoinFails(t)
       \/ RunOne(t) \/ Abort(t)
       \/ Recover(t) \/ Resume(t)
  \/ ProcessEnds \/ ProcessStarts

\* The runtime keeps polling every task that can move, and every driver
\* returns: each carries a deadline of its own.
Fairness ==
  /\ WF_vars(SpawnBatch) /\ WF_vars(Return)
  /\ \A t \in Task : WF_vars(RunOne(t)) /\ WF_vars(JoinNext(t) \/ JoinFails(t))

Spec == Init /\ [][Next]_vars

FairSpec == Spec /\ Fairness

-----------------------------------------------------------------------------
(* What the scheduler must guarantee.                                      *)

Holders(a) == {t \in Task : pc[t] \in Holding /\ Candidate(t) = a}

\* However attempts end - settled, retried, broken by the board, panicking -
\* the permit of an agent is either free or held by exactly one task: none is
\* lost and none is returned twice (scheduler.rs:367-400 and every `?`).
PermitsConserved ==
  \A a \in Agent : permits[a] + Cardinality(Holders(a)) = MaxConcurrency[a]

\* "The durable Running attempt now exactly brackets possible side effects"
\* (scheduler.rs:397-398): while the driver of a task is at work the board
\* shows the task running, assigned to that agent, with one running attempt,
\* the newest one, carrying its number and agent.
DrivingIsBracketed ==
  \A t \in Task : pc[t] = "driving" =>
    /\ status[t] = "running"
    /\ assignee[t] = Candidate(t)
    /\ Len(runs[t]) = seq[t]
    /\ AttemptsIn(t, "running") = {seq[t]}
    /\ runs[t][seq[t]] = [attempt |-> seq[t], agent |-> Candidate(t),
                          status |-> "running"]

\* A task is succeeded exactly when its messages and artifacts are on the
\* board, once, from its only succeeded attempt, which is its last: no crash
\* or failing call shows a success without the data that grounds it, and no
\* retry runs past one (team board.rs:164-167).
SuccessIsGrounded ==
  \A t \in Task :
    IF status[t] = "succeeded"
    THEN /\ outputs[t] = <<Len(runs[t])>>
         /\ AttemptsIn(t, "succeeded") = {Len(runs[t])}
         /\ AttemptsIn(t, "running") = {}
    ELSE outputs[t] = <<>> /\ AttemptsIn(t, "succeeded") = {}

\* How many candidates of t ahead of position c have a driver.
DrivenBefore(t, c) == Cardinality({j \in 1 .. c - 1 : order[t][j] \in Drivers})

\* Reassignment is deterministic whatever the interleaving: the attempts of
\* one run_one use up MaxRetries on each driven candidate, in order, and the
\* task is given up only when every one of them has failed that often.
AttemptsFollowOrder ==
  \A t \in Task : pc[t] \in (Live \cup Finished) \ {"begin"} =>
    /\ \A i \in base[t] + 1 .. Len(runs[t]) :
         \E c \in 1 .. Len(order[t]) :
           /\ order[t][c] \in Drivers
           /\ order[t][c] = runs[t][i].agent
           /\ i - base[t] \in MaxRetries * DrivenBefore(t, c) + 1 ..
                             MaxRetries * (DrivenBefore(t, c) + 1)
    /\ pc[t] = "failed" =>
         /\ Len(runs[t]) = base[t] + MaxRetries * DrivenBefore(t, Len(order[t]) + 1)
         /\ AttemptsIn(t, "failed") = 1 .. Len(runs[t])

\* A call that returns normally leaves nothing behind: every task it was
\* given is settled on the board and no permit is out.
ReturnedCallIsSettled ==
  [][Return => /\ \A t \in Task : pc[t] # "none" => status[t] \in Finished
               /\ permits = MaxConcurrency]_vars

\* The header of scheduler.rs (10-12): after a crash no task is stuck, that
\* is, a task the board shows running has a running attempt that `am recover`
\* can close.  `am resume` and `run-acp` both refuse a running task.
CrashIsRecoverable ==
  call = "off" =>
    \A t \in Task : status[t] = "running" => AttemptsIn(t, "running") # {}

\* The rows of t are all failed; all but the newest are, and that one is in s.
AllFailed(t) == \A i \in 1 .. Len(runs[t]) : runs[t][i].status = "failed"

LastIs(t, s) ==
  /\ Len(runs[t]) > 0
  /\ runs[t][Len(runs[t])].status = s
  /\ \A i \in 1 .. Len(runs[t]) - 1 : runs[t][i].status = "failed"

\* How far the rows of t are, told from its status alone.
RowsMatchStatus(t) ==
  /\ \A i \in 1 .. Len(runs[t]) : runs[t][i].attempt = i
  /\ outputs[t] = IF status[t] = "succeeded" THEN <<Len(runs[t])>> ELSE <<>>
  /\ status[t] \in {"absent", "pending", "failed"} => AllFailed(t)
  /\ status[t] \in {"assigned", "running"} => AllFailed(t) \/ LastIs(t, "running")
  /\ status[t] = "succeeded" => LastIs(t, "succeeded")
  /\ status[t] # "cancelled"

\* ... and told from where its run_one is.
RowsMatchPc(t) ==
  /\ pc[t] = "begin" => status[t] = "pending"
  /\ pc[t] \in {"assign", "acquire", "record"} =>
       /\ AllFailed(t)
       /\ seq[t] = IF pc[t] = "record" THEN NextAttempt(t) ELSE Len(runs[t])
       /\ status[t] \in {"assigned", "running"} \cup
                        IF pc[t] = "assign" THEN {"pending"} ELSE {}
  /\ pc[t] \in {"mark", "context", "driving", "settle"} =>
       /\ LastIs(t, "running")
       /\ seq[t] = Len(runs[t])
       /\ runs[t][Len(runs[t])].agent = Candidate(t)
       /\ status[t] = "running" \/ (pc[t] = "mark" /\ status[t] = "assigned")
  /\ pc[t] \in {"acquire", "settle"} \cup Holding => assignee[t] = Candidate(t)

\* The board and the volatile state agree, at every crash point: this is the
\* inductive invariant the proofs rest on (run_one keeps status, rows and
\* counters in step although it writes them in separate transactions).
BoardInStep ==
  /\ \A t \in Task : RowsMatchStatus(t) /\ RowsMatchPc(t)
  /\ call = "creating" =>
       \A t \in handles : status[t] = "pending" /\ pc[t] = "none"
  /\ call = "off" => \A t \in Task : pc[t] = "none"

\* Every task of a call being awaited is eventually settled, broken, or cut
\* off by the end of the process: tasks do not starve each other of permits.
EveryTaskEnds ==
  \A t \in Task :
    pc[t] = "begin" ~> pc[t] \in Finished \cup {"broken", "none"}

\* The scheduler implements the ledger of attempts: read off the status column
\* of its rows, every step opens an attempt, settles the open one or stutters.
Column(rows) == [i \in 1 .. Len(rows) |-> rows[i].status]

Ledger == INSTANCE AttemptLedger WITH ledger <- [t \in Task |-> Column(runs[t])]
LedgerSpec == Ledger!Spec
=============================================================================
