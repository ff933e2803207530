------------------------------ MODULE TeamRun ------------------------------
(***************************************************************************)
(* One team run: `am run-team` creates the durable root, the Lead loop     *)
(* decides round after round, delegated tasks go through the scheduler,    *)
(* and the final answer is persisted on the root in three transactions;    *)
(* `am resume-team` continues a root that an earlier process left behind.  *)
(*                                                                         *)
(* The scheduler is the module Scheduler, its actions taken as they are.   *)
(* The CLI runs everything on one current-thread runtime, so tasks move    *)
(* only while the Lead awaits `schedule`.  The model behind the brain is   *)
(* free: it may delegate, complete with any selection, or fail.            *)
(***************************************************************************)
EXTENDS Scheduler

CONSTANTS
  Root,       \* the id of the root task: the first one created
  LeadAgent,  \* the reasoner that leads
  MaxRounds,  \* TeamRunOptions::max_rounds
  MaxTasks    \* TeamRunOptions::max_tasks

ASSUME RootAssumption == Root \in Task /\ \A t \in Task : Root <= t
ASSUME LeadAssumption == LeadAgent \in Agent
ASSUME LimitsAssumption == MaxRounds \in Nat \ {0} /\ MaxTasks \in Nat \ {0}
\* A run is refused unless somebody can serve every kind of task: that is
\* StartedRunIsRoutable of TeamSetup.
ASSUME RoutableAssumption == \A o \in Orders : \E i \in 1 .. Len(o) : o[i] \in Drivers

VARIABLES
  refs,    \* durable: the tasks selected for the final answer of the root
  lead,    \* where the run is
  round,   \* its round counter
  team,    \* the task ids the Lead knows
  chosen,  \* the selection of the completion being persisted
  todo     \* the descendants a resume still has to recover

leadVars == <<round, team, chosen, todo>>
runVars == <<refs, lead, leadVars>>
allVars == <<vars, runVars>>

Creating == {"create", "assign", "record", "mark"}
Persisting == {"refs", "attempt", "status"}
Settling == {"settle", "settle_status"}
Ended == {"done", "failed", "unsettled", "refused"}

Children == {t \in Task \ {Root} : Exists(t)}

RunTypeOK ==
  /\ TypeOK
  /\ refs \subseteq Task
  /\ lead \in {"off", "recovering", "seed", "decide", "scheduling"}
              \cup Creating \cup Persisting \cup Settling \cup Ended
  /\ round \in 0 .. MaxRounds
  /\ team \subseteq Task \ {Root}
  /\ chosen \subseteq Task
  /\ todo \subseteq Task \ {Root}

RunInit ==
  /\ Init
  /\ refs = {}
  /\ lead = "off"
  /\ round = 0 /\ team = {} /\ chosen = {} /\ todo = {}

\* The Lead moves on without touching the scheduler or its own counters.
GoOn(from, to) ==
  /\ lead = from
  /\ lead' = to
  /\ UNCHANGED leadVars

\* Everything Scheduler declares, the board aside.
Rest == <<order, processVars, budgets>>

-----------------------------------------------------------------------------
(* run and resume.                                                         *)

\* `am run-team`.  The brain and the drivers are built before the board is
\* touched, so a configuration error leaves nothing behind.
StartRun ==
  /\ ~ Exists(Root)
  /\ ProcessStarts
  /\ GoOn("off", "create")
  /\ UNCHANGED refs

CreateRoot ==
  /\ CreateTask(Root)
  /\ GoOn("create", "assign")
  /\ UNCHANGED <<refs, Rest>>

AssignRoot ==
  /\ Assign(Root, LeadAgent)
  /\ GoOn("assign", "record")
  /\ UNCHANGED <<refs, Rest>>

RecordLeadAttempt ==
  /\ RecordAttempt(Root, 1, LeadAgent, "running")
  /\ GoOn("record", "mark")
  /\ UNCHANGED <<refs, Rest>>

MarkRoot ==
  /\ SetStatus(Root, "running")
  /\ GoOn("mark", "seed")
  /\ UNCHANGED <<refs, Rest>>

\* `am resume-team`: a succeeded root returns its durable result; otherwise
\* the interrupted attempts of the descendants are closed first.
StartResume ==
  /\ Exists(Root)
  /\ lead = "off"
  /\ ProcessStarts
  /\ IF status[Root] = "succeeded"
     THEN lead' = "done" /\ todo' = {}
     ELSE lead' = "recovering" /\ todo' = Children
  /\ UNCHANGED <<refs, round, team, chosen>>

\* Mutant: a resume goes on with the descendants as they are.
SkipRecovery(t) ==
  /\ lead = "recovering"
  /\ t \in todo
  /\ todo' = {}
  /\ UNCHANGED <<boardVars, Rest, refs, lead, round, team, chosen>>

\* One descendant after the other, in id order, each in its own transaction.
RecoverNext(t) ==
  /\ lead = "recovering"
  /\ t \in todo /\ \A u \in todo : t <= u
  /\ IF AttemptsIn(t, "running") = {} THEN UNCHANGED boardVars
     ELSE RecoverInterruptedAttempt(t)
  /\ todo' = todo \ {t}
  /\ UNCHANGED <<Rest, refs, lead, round, team, chosen>>

RecoveryDone ==
  /\ todo = {}
  /\ GoOn("recovering", "seed")
  /\ UNCHANGED <<boardVars, Rest, refs>>

-----------------------------------------------------------------------------
(* The Lead loop.                                                          *)

\* Mutant: a resumed Lead starts with an empty task list.
SeedNothing ==
  /\ lead = "seed"
  /\ lead' = "decide"
  /\ round' = 0 /\ team' = {}
  /\ UNCHANGED <<boardVars, Rest, refs, chosen, todo>>

\* run_on_root: the existing descendants count as the Lead's own.
SeedTasks ==
  /\ lead = "seed"
  /\ lead' = "decide"
  /\ round' = 0 /\ team' = Children
  /\ UNCHANGED <<boardVars, Rest, refs, chosen, todo>>

\* build_context: what the Lead is told of its tasks before it decides.
Told ==
  [results  |-> {t \in team : status[t] = "succeeded" /\ AttemptsIn(t, "succeeded") # {}},
   failures |-> {t \in team : status[t] = "failed" /\ AttemptsIn(t, "failed") # {}}]

\* Delegate and FollowUp: one task or more, within the budget.
Delegate ==
  /\ GoOn("decide", "scheduling")
  /\ round < MaxRounds
  /\ Cardinality(team) < MaxTasks
  /\ BeginSchedule
  /\ UNCHANGED refs

DelegateTask(t, o) ==
  /\ lead = "scheduling"
  /\ Cardinality(team \cup handles) < MaxTasks
  /\ CreateNext(t, o)
  /\ UNCHANGED runVars

StartBatch ==
  /\ lead = "scheduling"
  /\ handles # {}
  /\ SpawnBatch
  /\ UNCHANGED runVars

\* The results of the batch are its task ids, failed tasks included.
BatchReturns ==
  /\ lead = "scheduling"
  /\ Return
  /\ lead' = "decide"
  /\ round' = round + 1
  /\ team' = team \cup {t \in Task : pc[t] \in Finished}
  /\ UNCHANGED <<refs, chosen, todo>>

BatchFails ==
  /\ call = "failed"
  /\ GoOn("scheduling", "settle")
  /\ UNCHANGED <<boardVars, Rest, refs>>

\* The rounds are used up, the brain fails, a batch exceeds the budget, a
\* follow-up has no result, or a completion is not grounded.
DecisionFails ==
  /\ GoOn("decide", "settle")
  /\ UNCHANGED <<boardVars, Rest, refs>>

\* Mutant: a completion may select any descendant.
CompleteWithAny(selection) ==
  /\ lead = "decide"
  /\ round \in 1 .. MaxRounds - 1
  /\ selection # {} /\ selection \subseteq Children
  /\ lead' = "refs" /\ chosen' = selection
  /\ UNCHANGED <<boardVars, Rest, refs, round, team, todo>>

\* A completion that verify_completion accepts: after at least one round,
\* with succeeded descendants of the root and nothing else.
Complete(selection) ==
  /\ lead = "decide"
  /\ round \in 1 .. MaxRounds - 1
  /\ selection # {} /\ selection \subseteq Children
  /\ \A t \in selection : status[t] = "succeeded"
  /\ lead' = "refs" /\ chosen' = selection
  /\ UNCHANGED <<boardVars, Rest, refs, round, team, todo>>

-----------------------------------------------------------------------------
(* persist_final and settle_root_failed.                                   *)

PersistRefs ==
  /\ GoOn("refs", "attempt")
  /\ refs' = chosen
  /\ UNCHANGED <<boardVars, Rest>>

\* Attempt 1 of the root gets its outcome, whatever it held: an existing row
\* is updated, a missing one inserted.
SettleLeadAttempt(s) ==
  IF HasAttempt(Root, 1)
  THEN CompleteAttempt(Root, 1, s)
  ELSE RecordAttempt(Root, 1, LeadAgent, s)

PersistAttempt ==
  /\ SettleLeadAttempt("succeeded")
  /\ GoOn("attempt", "status")
  /\ UNCHANGED <<refs, Rest>>

PersistStatus ==
  /\ SetStatus(Root, "succeeded")
  /\ GoOn("status", "done")
  /\ UNCHANGED <<refs, Rest>>

\* Mutant: the attempt, not the task, tells whether the root has succeeded.
KeepSucceededAttempt ==
  /\ lead = "settle"
  /\ IF \E i \in AttemptsIn(Root, "succeeded") : TRUE
     THEN lead' = "failed" /\ UNCHANGED boardVars
     ELSE lead' = "settle_status" /\ SettleLeadAttempt("failed")
  /\ UNCHANGED <<refs, Rest, leadVars>>

SettleFailedAttempt ==
  /\ lead = "settle"
  /\ IF status[Root] = "succeeded"
     THEN lead' = "failed" /\ UNCHANGED boardVars
     ELSE lead' = "settle_status" /\ SettleLeadAttempt("failed")
  /\ UNCHANGED <<refs, Rest, leadVars>>

SettleFailedStatus ==
  /\ SetStatus(Root, "failed")
  /\ GoOn("settle_status", "failed")
  /\ UNCHANGED <<refs, Rest>>

-----------------------------------------------------------------------------
(* What can go wrong, and the process itself.                              *)

\* A board call fails.  Before the Lead loop the error is returned as it is;
\* inside the loop it makes `drive` settle the root; while settling it ends
\* the run as LeadAndSettleFailed.
BoardFails ==
  /\ faults < MaxFaults
  /\ faults' = faults + 1
  /\ \/ lead \in Creating \cup {"recovering"} /\ lead' = "refused"
     \/ lead \in {"seed", "decide"} \cup Persisting /\ lead' = "settle"
     \/ lead \in Settling /\ lead' = "unsettled"
  /\ UNCHANGED <<boardVars, order, processVars, crashes, resumes, refs, leadVars>>

Forget ==
  /\ Stop
  /\ lead' = "off"
  /\ round' = 0 /\ team' = {} /\ chosen' = {} /\ todo' = {}
  /\ UNCHANGED refs

Exit ==
  /\ lead \in Ended
  /\ Forget
  /\ UNCHANGED crashes

Kill ==
  /\ lead \notin Ended \cup {"off"}
  /\ crashes < MaxCrashes
  /\ crashes' = crashes + 1
  /\ Forget

\* `am recover` and `am recover-all` between two runs.  (`am resume` is left
\* to Scheduler: resume-team never looks for pending tasks.)
OperatorRecovers(t) == Recover(t) /\ UNCHANGED runVars

-----------------------------------------------------------------------------
\* The steps of the thread that drives the Lead.
LeadStep ==
  \/ CreateRoot \/ AssignRoot \/ RecordLeadAttempt \/ MarkRoot
  \/ \E t \in Task : RecoverNext(t)
  \/ RecoveryDone \/ SeedTasks \/ Delegate
  \/ \E t \in Task, o \in Orders : DelegateTask(t, o)
  \/ StartBatch \/ BatchReturns \/ BatchFails
  \/ lead = "scheduling" /\ UNCHANGED runVars
       /\ \E t \in Task : JoinNext(t) \/ JoinFails(t)
  \/ DecisionFails
  \/ \E selection \in SUBSET Task : Complete(selection)
  \/ PersistRefs \/ PersistAttempt \/ PersistStatus
  \/ SettleFailedAttempt \/ SettleFailedStatus

\* ... and of the tasks it awaits.
TaskStep(t) == call = "joining" /\ RunOne(t) /\ UNCHANGED runVars

RunNext ==
  \/ StartRun \/ StartResume \/ LeadStep
  \/ \E t \in Task : TaskStep(t)
  \/ \E t \in Task : call = "joining" /\ Abort(t) /\ UNCHANGED runVars
  \/ lead = "scheduling" /\ CreateFails /\ UNCHANGED runVars
  \/ BoardFails \/ Exit \/ Kill
  \/ \E t \in Task : OperatorRecovers(t)

\* Board calls return, and the brain and the drivers answer or time out.
RunFairness ==
  WF_allVars(LeadStep) /\ \A t \in Task : WF_allVars(TaskStep(t))

RunSpec == RunInit /\ [][RunNext]_allVars

FairRunSpec == RunSpec /\ RunFairness

-----------------------------------------------------------------------------
(* What a team run must guarantee.                                         *)

\* "A crash can leave a non-terminal root with refs, never a terminal final
\* result whose grounding is absent" (lead.rs:460-462): when the root shows
\* succeeded, at any crash point, its only attempt has succeeded and its
\* selection names descendants whose own results are on the board.
RootIsGrounded ==
  status[Root] = "succeeded" =>
    /\ runs[Root] = <<[attempt |-> 1, agent |-> LeadAgent, status |-> "succeeded"]>>
    /\ refs # {}
    /\ \A t \in refs : t \in Children /\ status[t] = "succeeded" /\ Len(outputs[t]) = 1

\* "A returned error never leaves the root observable as Running"
\* (team_runner.rs:447-448): whatever earlier runs left behind, a run that
\* reports its error has settled both the root and its Lead attempt.
FailureIsSettled ==
  lead = "failed" =>
    /\ status[Root] = "failed"
    /\ runs[Root] = <<[attempt |-> 1, agent |-> LeadAgent, status |-> "failed"]>>

\* The Lead never decides on work in flight: whenever it builds a context, in
\* a fresh run or a resumed one, no descendant has a running attempt, so the
\* results and failures it reads are final (team_runner.rs:425-430), and it is
\* told of every descendant that is settled.
LeadSeesSettledWork ==
  lead = "decide" =>
    /\ team = Children
    /\ \A t \in Children :
         /\ AttemptsIn(t, "running") = {}
         /\ status[t] \in Finished => t \in Told.results \cup Told.failures

\* The task budget holds over the whole life of the root, however often the
\* run is interrupted and resumed (lead.rs:235-239, 387).
BudgetRespected == Cardinality(Children) <= MaxTasks

\* "Recovery commands ... never replay completed work" (docs/recovery.md:3-4):
\* a task that has succeeded, root or delegated, is never touched again.
CompletedWorkIsKept ==
  [][\A t \in Task : status[t] = "succeeded" =>
       status'[t] = "succeeded" /\ runs'[t] = runs[t] /\ outputs'[t] = outputs[t]]_allVars

\* A run comes to an end: rounds and budget bound the brain, and every task it
\* waits for settles, breaks or is cut off.
RunTerminates == lead # "off" ~> lead \in Ended \cup {"off"}

\* Within a run the scheduler still implements the ledger, of the delegated
\* tasks and over any number of runs, resumes and recoveries: "a failure is
\* never overwritten by a later retry" (board.rs:62-63).  The root is excepted:
\* persist_final and settle_root_failed write its attempt 1 again after a resume.
TeamLedger == INSTANCE AttemptLedger
                WITH Task <- Task \ {Root}, ledger <- [t \in Task \ {Root} |-> Column(runs[t])]
TeamLedgerSpec == TeamLedger!Spec
=============================================================================
