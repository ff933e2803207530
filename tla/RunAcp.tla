------------------------------- MODULE RunAcp -------------------------------
(***************************************************************************)
(* The direct ACP commands, `am run-acp` and `am continue-acp`, and the    *)
(* operator commands that reach the same board from other processes while  *)
(* they run: submit, cancel, override, resume, recover.                    *)
(*                                                                         *)
(* A command is one OS process; each of its reads and writes of the board  *)
(* is a transaction of its own, so every step below interleaves with every *)
(* other process.  The ACP agent behind a session is free: it may answer,  *)
(* answer badly, stop, fail or run into the deadline.                      *)
(***************************************************************************)
EXTENDS TeamBoard

CONSTANTS
  Proc,         \* the processes that run the two commands, one after another
  AgentOf,      \* the agent-id argument each of them is given
  NoTask,
  MaxAttempts,  \* bound: attempts per task
  MaxKills,     \* bound: commands that die, by a signal or a failing board call
  MaxOps        \* bound: operator commands

ASSUME AgentOfAssumption == AgentOf \in [Proc -> Agent]
ASSUME NoTaskAssumption == NoTask \notin Task
ASSUME AcpBoundsAssumption ==
  MaxAttempts \in Nat /\ MaxKills \in Nat /\ MaxOps \in Nat

VARIABLES
  bindings,  \* external_runtime_bindings: agent and state by task and attempt
  pc,        \* where each process is
  job,       \* its task
  how,       \* which command it runs
  from,      \* the source task of a continuation, until it is checked
  num,       \* the attempt it runs (while `from` is set, the source's)
  flag,      \* the watch channel its monitor sets when it saw a cancellation
  kills, ops

procVars == <<pc, job, how, from, num, flag>>
vars == <<boardVars, bindings, procVars, kills, ops>>

Number == 1 .. MaxAttempts
NoBinding == [agent |-> NoAgent, state |-> "none"]
Binding == {NoBinding} \cup
           [agent : Agent, state : {"running", "completed", "cancelled", "interrupted"}]

\* The prompt is out and the agent may be at work.
Prompted == {"turn", "repair", "cancelling"}
\* Where the monitor task of run-acp is polling.
Monitored == {"connect"} \cup Prompted
Preparing == {"source", "check_source", "count", "assign", "record", "mark", "bind"}
Concluding == {"answered", "bind_completed", "commit", "stopped", "bind_cancelled",
               "cancel_attempt", "fail_attempt", "fail_status"}

TypeOK ==
  /\ BoardTypeOK
  /\ bindings \in [Task -> [Number -> Binding]]
  /\ pc \in [Proc -> {"idle"} \cup Preparing \cup Monitored \cup Concluding]
  /\ job \in [Proc -> Task \cup {NoTask}]
  /\ how \in [Proc -> {"run", "continue"}]
  /\ from \in [Proc -> Task \cup {NoTask}]
  /\ num \in [Proc -> 0 .. MaxAttempts]
  /\ flag \in [Proc -> BOOLEAN]
  /\ kills \in 0 .. MaxKills
  /\ ops \in 0 .. MaxOps

Init ==
  /\ BoardInit
  /\ bindings = [t \in Task |-> [k \in Number |-> NoBinding]]
  /\ pc = [p \in Proc |-> "idle"]
  /\ job = [p \in Proc |-> NoTask]
  /\ how = [p \in Proc |-> "run"]
  /\ from = [p \in Proc |-> NoTask]
  /\ num = [p \in Proc |-> 0]
  /\ flag = [p \in Proc |-> FALSE]
  /\ kills = 0 /\ ops = 0

Goto(p, l) == pc' = [pc EXCEPT ![p] = l]

\* A process is gone: so is everything it held in memory.
End(p) ==
  /\ pc' = [pc EXCEPT ![p] = "idle"]
  /\ job' = [job EXCEPT ![p] = NoTask]
  /\ how' = [how EXCEPT ![p] = "run"]
  /\ from' = [from EXCEPT ![p] = NoTask]
  /\ num' = [num EXCEPT ![p] = 0]
  /\ flag' = [flag EXCEPT ![p] = FALSE]

\* A step that moves p on and changes none of its locals.
Step(p, a, b) ==
  /\ pc[p] = a
  /\ Goto(p, b)
  /\ UNCHANGED <<job, how, from, num, flag, kills, ops>>

\* upsert_external_binding: a conflict keeps the agent that inserted the row.
Bind(t, k, a, s) ==
  bindings' = [bindings EXCEPT ![t][k] =
                 [agent |-> IF @ = NoBinding THEN a ELSE @.agent, state |-> s]]

-----------------------------------------------------------------------------
(* Up to the driver.                                                       *)

\* An assumption on the operator: no command is started on a task while an
\* earlier one is between reading and recording its attempt number, for
\* nothing in the schema keeps two processes from recording the same one.
Undisturbed(t) ==
  \A q \in Proc : job[q] = t =>
    pc[q] \notin {"source", "check_source", "count", "assign", "record"}

Startable(t) == Exists(t) /\ status[t] \notin {"succeeded", "running"}

StartRun(p, t) ==
  /\ pc[p] = "idle"
  /\ Startable(t) /\ Undisturbed(t)
  /\ Len(runs[t]) < MaxAttempts
  /\ Goto(p, "count")
  /\ job' = [job EXCEPT ![p] = t]
  /\ UNCHANGED <<boardVars, bindings, how, from, num, flag, kills, ops>>

\* Nothing keeps the source from being the task itself.
StartContinue(p, t, s) ==
  /\ pc[p] = "idle"
  /\ Startable(t) /\ Undisturbed(t)
  /\ Len(runs[t]) < MaxAttempts
  /\ Goto(p, "source")
  /\ job' = [job EXCEPT ![p] = t]
  /\ how' = [how EXCEPT ![p] = "continue"]
  /\ from' = [from EXCEPT ![p] = s]
  /\ UNCHANGED <<boardVars, bindings, num, flag, kills, ops>>

\* The newest attempt of the source is the one to continue ...
CountSource(p) ==
  /\ pc[p] = "source"
  /\ Goto(p, "check_source")
  /\ num' = [num EXCEPT ![p] = Len(runs[from[p]])]
  /\ UNCHANGED <<boardVars, bindings, job, how, from, flag, kills, ops>>

\* ... if its session was completed by the same agent.
CheckSource(p) ==
  /\ pc[p] = "check_source"
  /\ IF num[p] > 0 /\ bindings[from[p]][num[p]] = [agent |-> AgentOf[p], state |-> "completed"]
     THEN /\ Goto(p, "count")
          /\ from' = [from EXCEPT ![p] = NoTask]
          /\ num' = [num EXCEPT ![p] = 0]
          /\ UNCHANGED <<job, how, flag>>
     ELSE End(p)
  /\ UNCHANGED <<boardVars, bindings, kills, ops>>

CountAttempts(p) ==
  /\ pc[p] = "count"
  /\ Goto(p, "assign")
  /\ num' = [num EXCEPT ![p] = NextAttempt(job[p])]
  /\ UNCHANGED <<boardVars, bindings, job, how, from, flag, kills, ops>>

AssignAgent(p) ==
  /\ Step(p, "assign", "record")
  /\ Assign(job[p], AgentOf[p])
  /\ UNCHANGED bindings

RecordRunning(p) ==
  /\ Step(p, "record", "mark")
  /\ RecordAttempt(job[p], num[p], AgentOf[p], "running")
  /\ UNCHANGED bindings

\* A cancellation since the status was read is overwritten here.
MarkRunning(p) ==
  /\ Step(p, "mark", IF how[p] = "run" THEN "connect" ELSE "bind")
  /\ SetStatus(job[p], "running")
  /\ UNCHANGED bindings

\* A continuation knows its session before it connects.
BindSource(p) ==
  /\ Step(p, "bind", "connect")
  /\ Bind(job[p], num[p], AgentOf[p], "running")
  /\ UNCHANGED boardVars

\* Mutant: run-acp ends the way continue-acp does.
NotConfigured(p) ==
  /\ pc[p] = "connect"
  /\ End(p)
  /\ UNCHANGED <<boardVars, bindings, kills, ops>>

\* A driver that cannot be configured fails the attempt of run-acp ...
RunNotConfigured(p) ==
  /\ how[p] = "run"
  /\ Step(p, "connect", "fail_attempt")
  /\ UNCHANGED <<boardVars, bindings>>

\* ... and ends continue-acp where it stands.
ContinueNotConfigured(p) ==
  /\ pc[p] = "connect" /\ how[p] = "continue"
  /\ End(p)
  /\ UNCHANGED <<boardVars, bindings, kills, ops>>

-----------------------------------------------------------------------------
(* The session.                                                            *)

\* Mutant: the prompt is sent before the session is bound.
PromptUnbound(p) ==
  /\ Step(p, "connect", "turn")
  /\ how[p] = "run"
  /\ UNCHANGED <<boardVars, bindings>>

\* What run-acp hands its driver to be told of the session, which it binds on
\* a connection of its own.
SessionStarted(p) == Bind(job[p], num[p], AgentOf[p], "running")

\* run-acp: the session exists, its binding is durable, then the prompt goes
\* out.
StartSession(p) ==
  /\ Step(p, "connect", "turn")
  /\ how[p] = "run"
  /\ SessionStarted(p)
  /\ UNCHANGED boardVars

\* continue-acp: the bound session is resumed and prompted.
ResumeSession(p) ==
  /\ Step(p, "connect", "turn")
  /\ how[p] = "continue"
  /\ UNCHANGED <<boardVars, bindings>>

\* The monitor of run-acp reads the status every 100 ms; it stops at the first
\* cancellation it sees.
Poll(p) ==
  /\ pc[p] \in Monitored /\ how[p] = "run"
  /\ ~ flag[p]
  /\ status[job[p]] = "cancelled"
  /\ flag' = [flag EXCEPT ![p] = TRUE]
  /\ UNCHANGED <<boardVars, bindings, pc, job, how, from, num, kills, ops>>

Answer(p) ==
  /\ pc[p] \in {"turn", "repair"} /\ how[p] = "run"
  /\ Step(p, pc[p], "answered")
  /\ UNCHANGED <<boardVars, bindings>>

\* continue-acp takes any text for the result and looks at no cancellation.
ContinueAnswers(p) ==
  /\ how[p] = "continue"
  /\ Step(p, "turn", "bind_completed")
  /\ UNCHANGED <<boardVars, bindings>>

\* Not a peer result: run-acp asks once more on the same session.
AnswerBadly(p) ==
  /\ how[p] = "run"
  /\ Step(p, "turn", "repair")
  /\ UNCHANGED <<boardVars, bindings>>

\* `select!` between the turn and the watch channel: whichever is ready.
NoticeCancellation(p) ==
  /\ flag[p]
  /\ pc[p] \in {"turn", "repair"}
  /\ Step(p, pc[p], "cancelling")
  /\ UNCHANGED <<boardVars, bindings>>

\* The agent acknowledged with the stop reason `cancelled`.
StopCancelled(p) ==
  /\ Step(p, "cancelling", "stopped")
  /\ UNCHANGED <<boardVars, bindings>>

\* The session ends in an error: protocol errors, the deadline, a second bad
\* answer, missing artifacts, and a turn that ends with any other stop reason
\* after it was cancelled.
SessionFails(p) ==
  /\ pc[p] \in Monitored /\ how[p] = "run"
  /\ Step(p, pc[p], "fail_attempt")
  /\ UNCHANGED <<boardVars, bindings>>

\* The bound session cannot be resumed, or its turn fails.
ContinueFails(p) ==
  /\ pc[p] \in Monitored /\ how[p] = "continue"
  /\ Step(p, pc[p], "fail_attempt")
  /\ UNCHANGED <<boardVars, bindings>>

-----------------------------------------------------------------------------
(* The outcome.                                                            *)

\* An answer is accepted while the task is not cancelled.
CheckCancelled(p) ==
  /\ Step(p, "answered", IF status[job[p]] = "cancelled" THEN "bind_cancelled"
                         ELSE "bind_completed")
  /\ UNCHANGED <<boardVars, bindings>>

\* Mutant: the binding is completed after the commit, in another step.
CompleteUnbound(p) ==
  /\ Step(p, "bind_completed", "commit")
  /\ UNCHANGED <<boardVars, bindings>>

BindCompleted(p) ==
  /\ Step(p, "bind_completed", "commit")
  /\ Bind(job[p], num[p], AgentOf[p], "completed")
  /\ UNCHANGED boardVars

Commit(p) ==
  /\ pc[p] = "commit"
  /\ CommitSuccessfulResult(job[p], num[p])
  /\ End(p)
  /\ UNCHANGED <<bindings, kills, ops>>

\* A stopped session counts as cancelled only if the task still says so.
CheckStopped(p) ==
  /\ Step(p, "stopped", IF status[job[p]] = "cancelled" THEN "bind_cancelled"
                        ELSE "fail_attempt")
  /\ UNCHANGED <<boardVars, bindings>>

BindCancelled(p) ==
  /\ Step(p, "bind_cancelled", "cancel_attempt")
  /\ Bind(job[p], num[p], AgentOf[p], "cancelled")
  /\ UNCHANGED boardVars

\* The task keeps whatever status it has by now.
CancelAttempt(p) ==
  /\ pc[p] = "cancel_attempt"
  /\ CompleteAttempt(job[p], num[p], "cancelled")
  /\ End(p)
  /\ UNCHANGED <<bindings, kills, ops>>

\* The binding stays running.
FailAttempt(p) ==
  /\ Step(p, "fail_attempt", "fail_status")
  /\ CompleteAttempt(job[p], num[p], "failed")
  /\ UNCHANGED bindings

\* ... and the task becomes failed, also when it was cancelled meanwhile.
FailStatus(p) ==
  /\ pc[p] = "fail_status"
  /\ SetStatus(job[p], "failed")
  /\ End(p)
  /\ UNCHANGED <<bindings, kills, ops>>

\* A signal, or an error of any board call: every `?` ends the command there.
Die(p) ==
  /\ pc[p] # "idle"
  /\ kills < MaxKills
  /\ kills' = kills + 1
  /\ End(p)
  /\ UNCHANGED <<boardVars, bindings, ops>>

-----------------------------------------------------------------------------
(* The operator, from other processes.                                     *)

Operate ==
  /\ ops < MaxOps
  /\ ops' = ops + 1
  /\ UNCHANGED <<procVars, kills>>

Submit(t) == CreateTask(t) /\ UNCHANGED <<bindings, procVars, kills, ops>>

Cancel(t) == Operate /\ SetStatus(t, "cancelled") /\ UNCHANGED bindings

Override(t, a) == Operate /\ Assign(t, a) /\ UNCHANGED bindings

Resume(t) ==
  /\ Operate
  /\ status[t] \in {"failed", "cancelled"}
  /\ SetStatus(t, "pending")
  /\ UNCHANGED bindings

\* `am recover` and `am recover-all`, used as documented, after an
\* interruption: no command serves the task.  The binding of the attempt is
\* closed in the same transaction.
Recover(t) ==
  LET closed == {runs[t][i].attempt :
                   i \in {j \in AttemptsIn(t, "running") : runs'[t][j].status = "failed"}}
  IN  /\ Operate
      /\ \A p \in Proc : job[p] # t
      /\ RecoverInterruptedAttempt(t)
      /\ bindings' = [bindings EXCEPT ![t] = [k \in Number |->
                        IF k \in closed /\ @[k].state = "running"
                        THEN [@[k] EXCEPT !.state = "interrupted"] ELSE @[k]]]

-----------------------------------------------------------------------------
\* What a command does by itself.
Proceed(p) ==
  \/ CountSource(p) \/ CheckSource(p) \/ CountAttempts(p)
  \/ AssignAgent(p) \/ RecordRunning(p) \/ MarkRunning(p) \/ BindSource(p)
  \/ RunNotConfigured(p) \/ ContinueNotConfigured(p)
  \/ StartSession(p) \/ ResumeSession(p)
  \/ Answer(p) \/ ContinueAnswers(p) \/ AnswerBadly(p) \/ NoticeCancellation(p)
  \/ StopCancelled(p) \/ SessionFails(p) \/ ContinueFails(p)
  \/ CheckCancelled(p) \/ BindCompleted(p) \/ Commit(p)
  \/ CheckStopped(p) \/ BindCancelled(p) \/ CancelAttempt(p)
  \/ FailAttempt(p) \/ FailStatus(p)

Next ==
  \/ \E p \in Proc :
       \/ \E t \in Task : StartRun(p, t) \/ \E s \in Task : StartContinue(p, t, s)
       \/ Proceed(p) \/ Poll(p) \/ Die(p)
  \/ \E t \in Task :
       \/ Submit(t) \/ Cancel(t) \/ Resume(t) \/ Recover(t)
       \/ \E a \in Agent : Override(t, a)

Spec == Init /\ [][Next]_vars

-----------------------------------------------------------------------------
(* What the commands must guarantee.                                       *)

\* A settled row: the attempt has an outcome.
SettledRow(t, i) == runs[t][i].status # "running"

\* "durably bind the exact external ACP session before prompt side effects
\* begin" (acp_worker.rs:609-610): whatever the operator does to the task
\* meanwhile, an agent is at work only for an attempt the board shows as
\* running, with its number, its agent and its session.
PromptIsBracketed ==
  \A p \in Proc : pc[p] \in Prompted =>
    LET t == job[p] IN
    /\ \E i \in AttemptsIn(t, "running") :
         runs[t][i] = [attempt |-> num[p], agent |-> AgentOf[p], status |-> "running"]
    /\ bindings[t][num[p]] = [agent |-> AgentOf[p], state |-> "running"]
    /\ \A q \in Proc \ {p} : job[q] = t /\ pc[q] \in Prompted => num[q] # num[p]

\* The three durable records of an attempt never contradict each other, at any
\* crash point and under any cancellation: a success, of an attempt or of the
\* task, has its result, once, and a completed session; a cancelled attempt has a cancelled session and no
\* result; an interrupted session belongs to a failed attempt.
RecordsAgree ==
  \A t \in Task :
    /\ status[t] = "succeeded" => AttemptsIn(t, "succeeded") # {}
    /\ \A i \in 1 .. Len(runs[t]) :
         LET session == bindings[t][i].state
             results == {j \in 1 .. Len(outputs[t]) : outputs[t][j] = i}
         IN  /\ runs[t][i].attempt = i
             /\ CASE runs[t][i].status = "succeeded" ->
                       session = "completed" /\ \E j \in results : results = {j}
                  [] runs[t][i].status = "cancelled" -> session = "cancelled" /\ results = {}
                  [] OTHER -> results = {}
             /\ session = "interrupted" => runs[t][i].status = "failed"
             /\ session # "none" => bindings[t][i].agent = runs[t][i].agent

\* The outcome of an attempt, and of its session, is written once: neither a
\* second command on the task nor a cancellation nor a recovery changes it.
OutcomesAreFinal ==
  [][\A t \in Task : \A i \in 1 .. Len(runs[t]) : SettledRow(t, i) =>
       /\ runs'[t][i] = runs[t][i]
       /\ bindings'[t][i] = bindings[t][i]]_vars

\* run-acp never leaves by itself without an outcome: only a kill or a broken
\* board leaves a running attempt for `am recover`.
RunSettles ==
  [][\A p \in Proc :
       how[p] = "run" /\ pc[p] # "idle" /\ pc'[p] = "idle" /\ kills' = kills =>
         runs'[job[p]][num[p]].status # "running"]_vars

\* "A response that races a durable user cancellation is never committed as
\* success" (advanced.rs:442-444).
CancelledIsNotCommitted ==
  [][\A p \in Proc : how[p] = "run" /\ Commit(p) => status[job[p]] # "cancelled"]_vars
=============================================================================
