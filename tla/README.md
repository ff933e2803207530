# AgentMosaic in TLA+

AgentMosaic runs a team of external coding agents on one objective. A *Lead* model decides what to
delegate, a *scheduler* hands the tasks to agents, and one SQLite *board* is the only authority on
what happened. This directory holds TLA+ models of it, TLC configurations that check them on small
instances, and TLAPS proofs of what holds for every instance. Source paths below are relative to
`src/crates/`.

Run a configuration with `tlc -config X.cfg <module>.tla` (the table of runs names the module) and
the proofs of a module with `tlapm <module>Proofs.tla`; section 4 lists the proof modules.

## 1. The system

| component | state it keeps | operations | what is hard |
|---|---|---|---|
| Task board (`agentmosaic-team/src/board.rs`, `agentmosaic-storage/src/board.rs`) | tasks with status and assignee, attempts, messages, artifacts, final references, runtime bindings, collaboration requests; all durable | one transaction each: create_task, assign, set_status, record_attempt, complete_attempt, recover_interrupted_attempt, commit_successful_result, record_final_refs, upsert_external_binding, append_runtime_event, record_runtime_collaboration | callers need several transactions for one logical step; no update names an old status; `(task_id, attempt)` is not a key |
| Schema migration (`storage/schema.rs`) | schema version | migrate | two processes opening one old database |
| Scheduler (`team/scheduler.rs`) | semaphores and the locals of each `run_one`, volatile | schedule, resume_existing, run_one | interleaved tasks, retries, permits, board errors, panics, crashes |
| Registry and routing (`team/registry.rs`, `storage/registry_store.rs`) | registered agents, durable | new, route, candidate_order; upsert, delete, list | deterministic order, agents without a driver |
| Lead loop (`team/lead.rs`) | round, task list, volatile; final references, durable | run_on_root, run_rounds, extend_tasks, verify_completion, persist_final | the budget and the grounding of the answer across crashes and resumes |
| Team runner, driver factory, doctor (`runtime/team_runner.rs`, `driver_factory.rs`, `cli/commands/doctor.rs`, `agent.rs`, `init.rs`) | none of their own | run, resume, settle_root_failed; build and validate drivers; tell the operator what is missing | a root left behind in any state by an earlier process; several judges of one row |
| Operator commands (`cli/commands/advanced.rs`) | none | submit, cancel, override, recover, recover-all, resume | they reach the board while other processes are at work |
| run-acp and continue-acp (same file) | the locals of one process | a task through one ACP session | cancellation against completion, two processes on one task |
| ACP worker (`runtime/acp_worker.rs`) | a session, a watch channel, a start gate | run, wait, cancel, resume, events | `select!` races, deadlines, a repair turn, a holder that lets go |
| Codex app-server client (`codex_app_server.rs`, `codex_lead.rs`, `codex_team_driver.rs`) | a bounded event queue, request ids, thread and turn | request, next_event, terminate, turns, replies | events arrive while a response is awaited; the queue drops |
| Codex exec and Claude CLI (`codex_exec*.rs`, `claude_cli*.rs`) | a child process, two reader threads | run with a deadline, bind, resume | exit, output, helpers and deadline race |
| Runtime events (`runtime_event.rs` in `team/` and `runtime/`, `storage/board.rs`, `commands/events.rs`) | per-attempt sequences, durable | cut to size, dispatch, append, follow | sequence allocation, following while appending |
| Run events and report (`team/run_event.rs`, `cli/render.rs`, `commands/run.rs`) | the run id the sink has seen | emit, render, exit | an event must not run ahead of the board |
| Views (`agentmosaic-tui`, `commands/inspect.rs`, `bin/am-codex-mcp.rs`) | none | tui, status, artifact, final; the team context of a Codex turn | many statements make one picture while the run goes on |

How they interact: the team runner reads the registry, creates the root on the board, builds the
scheduler and the Lead and drives the Lead; the Lead awaits `schedule`, which spawns one `run_one`
per task; `run_one` records an attempt, awaits the agent's driver and settles the attempt on the
board; the driver talks to a foreign process, binds its session to the attempt and journals what it
reports; the Lead reads the board, decides again, and finally persists its answer on the root. The
CLI runs all of it on one current-thread runtime (`commands/mod.rs:22-27`). The operator's commands,
the dashboard and the MCP bridge are separate processes on the same database.

## 2. Modules

| module | models | correspondence |
|---|---|---|
| `TeamBoard` | the board | one operator per transaction, with the guards of its SQL and no others. Text is left out: a row keeps its number, agent and status, `outputs[t]` the attempts whose message and artifacts were inserted |
| `AttemptLedger` | what the team promises about attempts | abstract specification: open an attempt when all earlier ones failed, settle the open one |
| `Scheduler` | schedule, resume_existing, run_one, semaphores, the process and its operator between runs | `pc[t]` is the await or transaction the task's `run_one` is at; `cand`, `tries`, `seq`, `base` are its locals; `permits` the semaphores; `handles` the join handles not yet awaited |
| `TeamRun` | run, resume, drive, settle_root_failed, the Lead loop | EXTENDS `Scheduler` and uses its actions unchanged; `lead` is where the driving thread is; `refs` the durable final references |
| `RunReport` | the RunEvents of scheduler, Lead and runner and the sink of `am run` | EXTENDS `TeamRun`; every step carries the event the code emits after it; `line[t]` is the last event of each task |
| `BoardViews` | the dashboard, status, artifact, final, the MCP bridge's context | EXTENDS `RunReport`; `view` is one picture in the making, one action per statement |
| `TeamSetup` | the registry rows and their edits, init, doctor, the driver factory, routing | each judge of a row is an operator over its flaws; `records` is what a run has read |
| `RunAcp` | run-acp, continue-acp, the operator's commands against them | EXTENDS `TeamBoard`, adds the bindings; `pc[p]` is the next transaction of process `p` or its place in the ACP session |
| `RuntimeEvents` | the normalized events: which are durable, how they are cut | a text is its length and what JSON makes of a byte |
| `AcpExecution` | one ACP execution under the adapter, the persisted driver, a caller or a resume; the dispatcher | EXTENDS `RuntimeEvents`; `worker`, `holder` are the places of the blocking worker and of whoever holds the execution; `gate`, `cancelled` are its two channels |
| `CodexAppServer` | the stdio client's transport, its reader thread and both bounded queues; external: the app-server | `pipe`, `channel` and `pending` are the three places a line can be in; the `Server...` actions are the environment |
| `LeadReply` | the contract of a Codex Lead's reply | `ParseReply` is what `parse_reply` accepts |
| `CodexTurn` | the Lead's and the team driver's conversation | EXTENDS the two before; `phase` is the blocking read or join the client thread is at, `call` the request it waits on; one step takes one line and does everything up to the next read |
| `CliRuntime` | `run_invocation` of codex exec and Claude; external: the child, its helper, a daemon | `sup` is where the calling thread is; who holds a write end decides when a reader ends |
| `CliDriver` | both persisted drivers and the codex-exec Lead | EXTENDS `CliRuntime`; adds rows, bindings and the journal |
| `BoardStore` | the SQLite file under all of this: locks, migration, the event journal, its follower, collaboration requests | `lock[c]` is the SQLite lock of a connection; `cursor` and `printed` are those of `am events --follow` |
| `TeamRunProofs`, `TeamSetupProofs`, `RunAcpProofs`, `BoardStoreProofs`, `AcpExecutionProofs`, `CliDriverProofs`, `CodexTurnProofs` | | proofs about the module they are named after; `TeamRunProofs` also about `Scheduler`, `RunReport` and `BoardViews`, `CodexTurnProofs` about `CodexAppServer` |
| `TeamBoardProofs` | | the lemmas those about the board share: what a transaction keeps |
| `MC...` | | values of the constants |

Operators headed "Mutant" belong to no specification. Each is a plausible bug in the operator that
follows it, and `PROJECT.json` names the property that notices when it takes its place.

### What is abstracted

* Objectives, summaries, errors, artifacts' contents, prompts. A driver's answer is "success" or
  "failure" where the driver itself is not the subject.
* A board call fails as a whole or succeeds as a whole: each is one SQLite transaction. What that
  rests on, locks and the busy timeout, is the subject of `BoardStore`. `MaxFaults` and its like
  bound the failures.
* `candidate_order` is a constant of `Scheduler`: any order in `Orders`, fixed per task.
  `StartedRunIsRoutable` of `TeamSetup` shows what the real orders are like: they are not empty, name
  nobody twice, and every agent in them has a driver. `Scheduler` assumes nothing of it: its instance
  has an agent without a driver in an order. `TeamRun` assumes that each order has one agent with a
  driver (`RoutableAssumption`): a task without any would fail without an attempt, and
  the failures in the Lead's context (`build_context`) would not name it.
* In `RunAcp` a failing board call and a kill are one action: both end the command where it stands.
* In `CodexTurn` a line is what the client tells apart: a reply with its id and the status of a turn,
  a request with its id and kind, a notification, a completion, or no JSON. Time is not counted: a
  deadline may expire whenever there is nothing to read. The line the reader thread holds between
  reading and sending stays at the head of `pipe`, and `initialized`, which has no reply, goes unseen.
  The Lead uses no board. The driver's calls on its board may fail, each of them: the lookup of its
  attempt, the two that write the binding, and those that mark it at the end.
* In `CliRuntime` a line is a kind (session, message, result, error, anything else). The two agents'
  own formats differ only in how they map to these.
* In `TeamSetup` a row keeps its tier, its kind, whether it names a program, its concurrency, and the
  set of *flaws*: the points of its options some judge refuses.
* In `BoardViews` no reader uses a transaction, and neither does the code.

## 3. Runs

| run | module, configuration and bounds | question and outcome |
|---|---|---|
| `scheduler` | `MCScheduler`, `Scheduler.cfg`: 2 tasks, 2 driven agents and 1 without a driver, one permit each, 1 attempt per agent, 1 fault, 1 crash, 1 `am resume` | permits are neither lost nor doubled, the driver is bracketed by durable rows, successes are grounded, reassignment is deterministic, a call that returns is settled, the ledger is implemented, every task of a live process ends; holds |
| `scheduler_crash` | `MCScheduler`, `SchedulerCrash.cfg` | "a crash always leaves a recoverable state" (`scheduler.rs:10-12`); violated, see section 6 |
| `team_run` | `MCTeamRun`, `TeamRun.cfg`: a root and up to 2 delegated tasks (ids up to 4, so that an overrun of the budget shows), 3 rounds, 1 fault, 2 kills, 1 of these while and before somebody looks | the answer is grounded at every crash point, failures are settled, the Lead reads settled work only, the budget spans resumes, completed work is kept, every run ends; the report never runs ahead of the board, and no picture of another process shows an outcome without its ground; holds |
| `team_setup` | `MCTeamSetup`, `TeamSetup.cfg`: 3 agents with any of the rows listed there, 1 edit | the doctor's verdict is the run's, and whoever writes to the board can serve every kind of task; holds |
| `run_acp` | `MCRunAcp`, `RunAcp.cfg`: 1 task, 2 processes, 3 attempts, 1 kill, 3 operator commands | an agent works only for a bracketed attempt, the records of an attempt agree, outcomes are final, run-acp settles what it started; holds |
| `run_acp_cancel` | `MCRunAcp`, `RunAcpCancel.cfg` | "never committed as success" (`advanced.rs:442-444`); violated |
| `acp_execution` | `MCAcpExecution`, `AcpExecution.cfg`: 2 messages of 7 kinds, 1 mishap, limits of 2 bytes, 3 items and 5 bytes of payload | no prompt before its release, no answer before the agent is done, only a strict result counts, the journal is what the observer saw, no worker outlives its deadline; holds |
| `codex_turn` | `MCCodexTurn`, `CodexTurn.cfg`: a Lead or a team driver, queues of 2 lines, 2 turns, 2 rounds, 2 events per turn, 2 lines nobody asked for, a server id equal to the id of a `turn/start`, 9 kinds of turn contents | a round ends on its own turn and final message and on a decision, completions and requests are not lost among replies, bindings tell the outcome whichever call of the driver fails, but for their marking itself, closing leaves nothing behind, only a backlog hangs a client; holds |
| `codex_hang` | `MCCodexTurn`, `CodexTurnHang.cfg` | "a wedged turn can never hang the Lead" (`codex_lead.rs:477-478`); violated |
| `cli_driver` | `CliDriver`, `CliDriver.cfg`: pipe and channel of 1 line, 2 lines per invocation, 2 attempts, 1 round, 2 threads, 1 mishap | the result is the last message, a failure leaves no process group, a session is bound before it is logged, binding and attempt tell one story, a run returns except in the waits named; holds |
| `lead_resume` | `CliDriver`, `LeadResume.cfg` | "an interrupted run can be resumed" (`README.md:167`), for a Lead on codex exec; violated |
| `board_store` | `MCBoardStore`, `BoardStore.cfg`: 2 connections, 3 jobs, 2 attempts, 1 native request id, the newest 2 rows per query, 1 kill, 1 second | sequences have no gap and no double, a request is recorded once, the follower misses nothing it need not, migrating twice loses nothing, nobody waits for ever; holds |

Why the bounds are enough. Every hazard listed in `PROJECT.json` needs at most two tasks on one
agent, or two processes on one task, and one or two failures; two kills let a resume be interrupted
in turn. One agent in `team_run` makes tasks of one batch compete; in `scheduler` both tasks may ask
for both agents, and a candidate without a driver lies between them. In `RunAcp` tasks do not affect
each other except through `continue-acp`, whose source may be the task itself, so one task is
enough. Queues of one or two lines overflow with two or three, as those of 256 do with 257. The text
limits of `AcpExecution` are such that a message fits, is cut and fits, is cut and still does not fit
(its bytes are escaped by JSON), and a list loses items. A follower that reads two rows at a time
misses one after three. In `TeamSetup` a row of each runtime with each flaw that only some of its
judges see is enough: judges look at one row at a time, and the composition only counts tiers.

Deadlock is checked for `scheduler` and `team_run`, whose process can always be started again or
stutters through a bounded operator. `CHECK_DEADLOCK FALSE` is set where the system really stops:
`RunAcp` when the bounded attempts and operator commands are used up, `CodexTurn` with a closed client
(or with the stuck one of section 6), `CliDriver` and `AcpExecution` when the last run has ended or
hangs, `BoardStore` when its jobs are done, and `TeamSetup` once a run has been refused or drives.

Fairness. `Fairness` of `Scheduler` and `RunFairness` ask for weak fairness of each task's next step
and of the driving thread: the tokio runtime keeps polling what is ready, a semaphore is FIFO, every
driver carries a deadline of its own (Codex, Claude and ACP runs are wrapped in timeouts), and board
calls return. Nothing is assumed of crashes, faults, the operator or what the brain decides. In
`CodexTurn` the two threads of the client are scheduled and a deadline expires in the end
(`recv_timeout`); nothing at all is assumed of the app-server. That it writes finitely many lines
(`MaxLines`) is a bound: as long as a line is always ready `request` looks at no deadline. In
`CliDriver` the client's threads are scheduled and nothing is assumed of the child: `Hangs` names the
four waits in which it can then keep the client for ever. In `AcpExecution` the one deadline passes
(`tokio::time::timeout`), timers fire and the driver's future is polled; agent and caller owe nothing.
In `BoardStore` every connection goes on when SQLite lets it; the busy timeout need not expire.

Each module with a state has a type invariant. Those of `Scheduler`, `TeamRun`, `TeamSetup`, `RunAcp`,
`BoardStore`, `AcpExecution`, `CliDriver` and `CodexTurn` are proved, as parts of the inductive
invariants of section 4 or from them; those of the others were model-checked while the modules were
written. Neither they nor the inductive invariants are part of the runs, for the proofs say more.

## 4. Proofs

Everything here holds for every set of tasks, agents, processes, connections and attempts, for any
limits, and for any number of faults, kills, resumes and operator commands. Each module follows one
plan: an inductive invariant `IInv` (of `Scheduler`: `TypeOK`, `Placed` and `BoardInStep`) that is a
conjunction of named parts, one lemma for what each action does to each part it can disturb, and the
properties as consequences. The properties themselves are not inductive: they speak of one moment,
*driving*, *succeeded*, *decide*, and what makes them true is spread over the transactions before it.

**The scheduler** (`TeamRunProofs`, first part).

* `TypeCorrect`: types, and that a `run_one` past its assignment is at a candidate with a driver
  (`Placed`). Neither is inductive alone: the agent of a recorded attempt is well typed only because
  of `Placed`.
* `InductiveInvariant`: `BoardInStep`, what a task's status alone tells about its rows
  (`RowsMatchStatus`) and what the place of its `run_one` adds (`RowsMatchPc`): before an attempt is
  recorded every earlier row has failed; after it the newest row, numbered `seq`, is the only one
  running, and it carries the candidate's agent. Each step of `run_one` keeps its own task in step
  (`RunOneInStep`) and touches no other (`Frame`); recovery picks exactly the newest row
  (`RecoverTheLast`).
* `Bracketing`: `DrivingIsBracketed`. `Grounding`: `SuccessIsGrounded`.
* `ImplementsLedger`: `Spec => LedgerSpec`, the status column of the rows being the ledger.
  `RecordRunning` opens, `SettleSuccess`, `SettleFailure` and `Recover` settle the newest, every
  other step stutters.
* `PermitsAddUp`: `PermitsConserved`. The holders of an agent are counted (`Counted`): an acquired
  permit adds the one task that was not among them, a release or a panic removes it, and the end of
  the process makes both sides whole.
* `ReturnsSettled`: the action property `ReturnedCallIsSettled`. `Awaited` tells from the call
  which tasks may still be at work: while it joins, only those whose handle it has not awaited.
* `OrderIsFollowed`: `AttemptsFollowOrder`. The driven candidates ahead of a position take a window
  of `MaxRetries` attempts each; `Progress` says how far into which window a `run_one` is at each of
  its steps. Moving past a candidate opens the next window, or none (`WindowNext`).

**A team run** (`TeamRunProofs`). `RunInvariant` takes the tasks apart. The root is never scheduled:
it has at most the one row of its Lead, and its status, row and final references run through the three
transactions of `persist_final` or the two of `settle_root_failed` one behind the other
(`RootInPlace`, `RootOutcome`). A delegated task is in step as in `Scheduler`; `Served` ties it to the
call, `AtRest` says that none has a running attempt once recovery has passed it or its call is over,
and `Tried` that one that failed has a failed attempt. `Known` relates the Lead's task list to the
board: they agree whenever it decides, and both stay within the budget. From it follow
`AnswersAreGrounded` (`RootIsGrounded`), `FailuresAreSettled` (`FailureIsSettled`),
`DecisionsSeeSettledWork` (`LeadSeesSettledWork`), `BudgetHolds` (`BudgetRespected`) and
`CompletedWorkStays` (the action property `CompletedWorkIsKept`). `TasksKeepLedger`: the delegated tasks
implement the ledger too (`TeamLedgerSpec`, which the root does not: a resumed run writes its attempt 1
again). A step of `run_one` or of the recovery writes one task's rows as the ledger allows
(`TaskWrites`, shared with `ImplementsLedger`), and a ledger of fewer tasks takes the same step
(`DelegatedWrites`).

**What others see of it** (`TeamRunProofs`). `ReportInvariant`: the last line of a delegated task is told
from where its `run_one` is, and that of a broken one still holds (`Spoken`); the lines of the root
follow the runner (`Announced`). `LinesHold` derives `EventsFollowBoard` (`ReportFollowsBoard`).
`ViewersOnlyLook` carries the invariant over to a run that is watched, and `Pictured` says of a picture
in the making that whatever a succeeded header rests on is shown or still to be read; that a success
is never taken back (`KeptStep`, `RootKept`) is all a viewer needs of the run. From it follows
`PicturesAreGrounded` (`ShownIsGrounded`).

**The setup of a team** (`TeamSetupProofs`). `VerdictsAreTrue`: `Judged` says that what doctor or init
said last is true of the rows it was said of (`Holds`), that the rows a run has read are those its
operator was told about, and that a run is refused or goes on as every judge of these rows together
has it. The doctor's validators and the run's are compared flaw by flaw (`ReadyIsAccepted`,
`RefusedForIt`); `DoctorAndRunAgree` (`DoctorSpeaksForRun`) follows. `InOrderIs` shows that the order
of a finite set of agents lists each of them once, the least first; from it and the checks of
`AgentRegistry::new` follows `StartedRunsAreRoutable` (`StartedRunIsRoutable`): the three parts of an
order share no agent (`ThreeParts`), and the first of its parts that is not empty begins with the
agent `route` chooses (`EveryTaskHasCandidates`).

**run-acp and continue-acp** (`RunAcpProofs`). `Agreement`: where a process is tells which command it
runs and with which number (`InPlace`); from the record on it owns that row and its binding, which are
open unless it has settled them itself or the operator has cancelled (`Owns`); two processes on one
task have different numbers, and only one may be about to count (`Apart`, which is where
`Undisturbed` is needed); rows, outputs and bindings of a task agree (`TaskAgrees`). From it follow
`PromptsAreBracketed` (`PromptIsBracketed`), `RecordsAlwaysAgree` (`RecordsAgree`) and the action
properties `OutcomesStay` (`OutcomesAreFinal`) and `RunsSettle` (`RunSettles`).

**The database** (`BoardStoreProofs`). `StoreInvariant`: one connection writes at a time and its locks
fit its place (`Locked`), the version never runs ahead of the columns (`Migrated`), the sequence a
writer has read under its lock is still the next one when it commits (`Numbered`), and a cursor of the
follower is never ahead of its rows and covers all up to those appended since its last poll
(`Followed`). `HighestIs` shows that the `MAX(sequence)` a writer reads is the number of rows. From it
follow `WritersAreKeptApart` (`WritersKeepApart`), `FollowerMissesNothing` (`FollowIsComplete`) and
the action property `RowsSurviveMigration` (`MigrationKeepsRows`).

**An ACP execution** (`AcpExecutionProofs`). `ExecutionInvariant`: the places of worker and holder fit
each other (`Control`, `HolderInPlace`, `WorkerInPlace`, `Released`), and the worker's view of the
conversation is that of the agent, delayed by the messages still in the inbox (`Conversation`); what
has been answered or committed is over (`Answered`). From it follow `PromptsAreReleased`
(`PromptIsReleased`), `AnswersAreLast` (`AnsweredIsOver`) and `ResultsAreEarned` (`ResultIsEarned`),
and, with the beginning of a turn's output (`Follows`), the types (`TypesHold`).

Two more parts of it are about the journal. `Journaled`: every event shown to the observer was cut to
size first, and cutting again, as the log does, changes nothing (`BoundedIs`); so the journal is the
durable part of what was shown, but for a last event whose write failed. Since the worker ends at that
event and no other is shown after it, one is all that can be missing. `Decided`: each decision of the
worker has its own event in the journal, and under the deny policy none is "allow". Selecting from a
sequence is done by ranks: the n-th durable event is the one at the n-th durable place (`PlacesAre`),
and appending an event adds its place or leaves the selection alone (`ListedAppend`), which needs no
induction over the sequence. From both follows `JournalsAreComplete` (`JournalIsComplete`).

**The process-backed drivers** (`CliDriverProofs`). `CliInvariant`: a run is under supervision during
a turn only (`Flow`); a child that is waited for has closed its output and left nothing in pipe or
channel (`Supervised`). `Unread` says that until a run has failed nothing is lost on the way: every
line carries the number of messages so far, and from the last message taken through the channel and
the pipe to the last one said these numbers go on without a gap (`Counted`). `Sessions`: the binding
of a session is written before its event comes up. `Told`: at each place after a turn, binding and
verdict of the attempt at work agree already. From it follow `ResultsAreLast`
(`ResultIsTheLastMessage`), `FailuresLeaveNoGroup` (`FailureLeavesNoGroup`), `SessionsAreBoundFirst`
(`SessionIsBoundFirst`) and `BindingsFollow` (`BindingFollowsTheAttempt`).

**The clients of the Codex app-server** (`CodexTurnProofs`). `CodexInvariant`: each phase has its
processes (`Lived`), and so has the driver's binding its value: what the driver wrote last while the
task is under way, "running" from the start of the turn on, so that a marking which fails leaves a row
that tells no outcome. A request carries a number of its own (`Numbered`), so whatever in
the server's stdin, in its hands or among its lines carries the number the client waits on belongs to
the request outstanding, and the snapshot in the reply to a `thread/read` shows the status the turn
has by then for good (`Asked`). One turn at most is about to start, only while its `turn/start` is
outstanding; the turn the client pumps is the last one of the thread (`Begun`). A completion tells the
truth (`Truthful`), and until the kept lines overflow every completion the pump is yet to see, of this
turn or of one that began since, is in the pipe, the channel or the kept lines, and so is each open
request of the server, or its answer in the server's stdin (`Kept`). From it follow `LeadReadsOwn`
(`LeadReadsItsOwnTurn`; `SelectsFinalMessage` is about the selection, `ParsedIsDecision` about the
contract), `SwallowsNothing` (`NothingIsSwallowed`), `BindingTells` (`BindingTellsTheOutcome`) and
`NothingOutlives` (`NothingOutlivesClose`).

The assumptions are those declared with the constants, and TLC evaluates them on every run. Task ids
are numbers; drivers belong to registered agents; limits and retries are positive; the NULL of the
assignee column is no agent, and the marker of an idle process no task. `RootAssumption`: the root has
the lowest id (a run creates it before its tasks). `RoutableAssumption`: see section 2; it is what
`StartedRunIsRoutable` of `TeamSetup` says of a run that has started, and only `Tried`, that is
`LeadSeesSettledWork`, needs it. `StoreAssumption`: attempt 1 is what a run records first, and there is a request to make.
`SaysAssumption`: "stop" is not among the updates an agent sends, a text is a length and a cost per
byte, plans and options are finite lists. `SetupAssumption`: the ids of agents are finitely many
numbers, in the order of the registry's map. `CapsAreNat`, `MishapsAreBounded`:
pipe and channel of `CliRuntime` hold at least one line, the bounds are numbers. `SnapshotsAssumption`:
a snapshot is a finite sequence of messages, each final, visible or async, and a follow-up holds one
task.

Every safety invariant and every action property of the passing runs is proved. Model-checked only are
the liveness properties (`EveryTaskEnds`, `RunTerminates`, `ExecutionEnds`, `EveryJobEnds`,
`OnlyTheseHang`, `OnlyABacklogHangs`), since the provers know neither fairness nor `ENABLED`, and the
types of `RunReport` and `BoardViews`. The provers have no rule of induction over data either. Where a
proof needs one it takes the least counterexample, which exists because the naturals are well founded
(`SizeType`: the size of an event of any number of items is a number; `RanksAre`: the members of a
finite set are numbered without a gap). What a fold computes is nowhere used.

## 5. Assumptions worth knowing

* `Scheduler` and `TeamRun` have one process on the board at a time; the operator's `recover` and
  `resume` come between runs, as `docs/recovery.md` describes. Nothing in the code enforces it.
* `RunAcp` lets the operator do anything at any time except two things. `recover` waits until no
  command serves the task: used on a live one it closes the attempt that is about to be committed.
  Two commands are not started on a task within the three transactions from counting its attempts to
  recording a new one (`Undisturbed`): both would record the same number, and `complete_attempt`
  would then settle both rows.
* `BoardStore` takes SQLite with a rollback journal as documented: readers share, one writer
  reserves, a commit waits for the readers and keeps new ones out.
* `DoctorSpeaksForRun` speaks of rows that have not changed between the doctor and the run.

## 6. Where the code and its texts differ

1. `scheduler_crash`. A task killed between a failed attempt and the next one is `running` with no
   running attempt. `am recover` finds nothing, `am resume` and `run-acp` refuse a running task; only
   `am cancel` and then `am resume` free it.
2. `run_acp_cancel`. The cancellation check and the commit are separate transactions.
3. `codex_hang`. `terminate` joins the reader thread while the receiver of the bounded channel is still
   alive. With more than 256 lines unread the reader is blocked in `send` and the join never returns.
   `OnlyABacklogHangs` in `codex_turn` shows that nothing else can hang a client, under the bound on
   the server's lines of section 3.
4. `lead_resume`. The codex-exec Lead looks for a running attempt of the root before its first turn.
   `resume` never reopens one that `settle_root_failed` or `am recover-all` has closed, so such a run
   fails at once on every resume.

Observed while modelling, without a run of its own:

* Team runs. `persist_final` writes attempt 1 of the root, so a failed root that is resumed to
  completion loses the row of its failure, though "a failure is never overwritten"
  (`team/board.rs:62-63`). A resumed run whose task budget is used up can never complete, for round 0
  may not complete and an empty delegation is refused by the brains. When assigning the root or
  recording its attempt fails, no `RunStarted` is emitted and `am run` says "Run could not start",
  though a root is on the board (`render.rs:213-216`, `run.rs:46-47`). `RunFailed` is emitted even
  when settling the root failed (`team_runner.rs:482-484`). The Lead's context omits a task cut
  between two attempts.
* ACP. `continue-acp` trusts the binding, which run-acp completes before it commits, looks at no
  cancellation, and leaves attempt and binding running after a bad driver configuration. An agent
  that answers a cancellation with another stop reason turns a cancelled task into a failed one
  (`advanced.rs:532`). After a failure the binding stays `running`; a driver may complete the binding
  of an attempt recovered meanwhile. Nothing in a team run calls `RuntimeExecution::cancel`, so
  `am cancel` does not reach its agents. `SessionResumed` is journaled before the session is resumed.
* Codex app-server. Ids are compared before methods, so a request of the server that carries the id
  of the outstanding one is taken for its reply (`codex_app_server.rs:421`). The team driver takes
  any completion for its own and leaves tool calls unanswered (`codex_team_driver.rs:209-220`). When
  the driver cannot mark its binding (`:229-236`), the row stays `starting` or `running` for ever: an
  error of `external_binding` is swallowed, so even a task that succeeds may end like that, and one of
  opening or writing the board turns a completed task into a failed one.
* Codex exec and Claude. A run exceeds its "one absolute deadline" in the waits of `Hangs`. The
  driver binds `completed` before it checks the summary and the artifacts; the Lead's binding stays
  `running` for ever. Killing `am` leaves the agent's process group running.
* Events. `bounded` only shortens what is listed, so a message of 16 KiB that JSON escapes beyond
  32 KiB is refused and fails an execution whose result is valid. The follower reads the newest
  1000 rows and sorts them by a time taken before the transaction: a late poll, or writers that
  overlap, lose events. The deferred transactions of `migrate` and `record_final_refs` are refused at
  once when another writer has reserved; the 5 s of `board.rs:118-126` do not apply to them.
* Setup. Doctor and run agree except for `output_schema`, which only a run looks at
  (`codex_exec_driver.rs:49-54`); `registry_store.rs:22` says a concurrency of 0 is unlimited, while a
  run refuses it.
* Views. A snapshot is called self-consistent (`tui/src/lib.rs:119`) but header and task list come
  from different statements, so a task may be shown further on than its run. `am final` may print the
  answer of a run killed before its status was set, which a resume then replaces.
* MCP bridge. Its request id, unique over the whole database, is the client's JSON-RPC id, which may
  start again with another client: a fresh request then counts as a duplicate. Its context reads the
  first eight tasks only.

## 7. Not modelled, and what could come next

Left out for good: argument parsing, formatting and JSON output, drawing and terminal modes,
prompts and their byte bounds, launch specifications, the requests of the app-server client no turn
makes (`request_ack`, `resume_thread`, `mcp_status`, `thread_items`), Codex's audit files, the test
mocks and the website. None of them keeps state that another part reads. `am cancel` and
`am override` against a live team run are not interleaved with it: `run_one` never reads the status
or the assignee of its task and overwrites both, so all they could show is that they are overwritten.

What could come next: a `RunAcp` without `Undisturbed`, in which two commands record attempts of the
same number (`advanced.rs:336`), and an abstract specification of a whole team run, to which
`TeamRun` would add the transactions.
