----------------------------- MODULE CliDriver ------------------------------
(***************************************************************************)
(* The three clients of CliRuntime: the scheduler's drivers for            *)
(* `codex exec` and `claude` (codex_exec_driver.rs, claude_cli_driver.rs)  *)
(* and the Lead on `codex exec` (codex_exec_lead.rs).  Each binds the      *)
(* foreign session to the attempt it works for while the session is being  *)
(* supervised; the drivers also log what the session reports.              *)
(*                                                                         *)
(* Durable: rows, binding, logged.  A worker's task gets a new attempt per *)
(* try; the root of a team run has the one attempt 1, which                *)
(* `am resume-team` does not reopen (team_runner.rs:377-445).              *)
(***************************************************************************)
EXTENDS CliRuntime

CONSTANTS
  MaxAttempts,  \* bound: tries of a worker's task, runs and resumes of a Lead
  MaxRounds,    \* bound: rounds of one run of the Lead
  MaxThreads,   \* bound: native threads ever started
  MaxMishaps    \* bound: board and spawn failures, and kills

ASSUME MishapsAreBounded == {MaxAttempts, MaxRounds, MaxThreads, MaxMishaps} \subseteq Nat

NoThread == 0
NoBinding == [thread |-> NoThread, state |-> "none"]
Clients == {"codex-exec", "claude-cli", "lead"}

VARIABLES
  client,    \* which of the three this is
  me,        \* where it is: "idle", "ready", "turn", "finish", "check", "settle"
  rows,      \* status of attempt i of the task or root
  binding,   \* external_runtime_bindings of the attempts
  logged,    \* kinds of the durable events of each attempt
  asked,     \* thread the invocation resumes, if any
  sid,       \* thread the invocation reports
  seen,      \* ... and has reported
  todo,      \* events of the current line still to be emitted
  final,     \* the last visible message so far
  memory,    \* thread_id of the Lead brain
  turn,      \* turn of the current round of the Lead: 1, or 2 for the correction
  verdict,   \* how the attempt will be settled
  starts, rounds, threads, mishaps   \* counters

durable == <<rows, binding, logged>>
invocation == <<asked, sid, seen, todo, final>>
leadVars == <<memory, turn, rounds>>
counters == <<starts, threads, mishaps>>
vars == <<transport, runVars, durable, invocation, leadVars, counters, client, me, verdict>>

Attempts == 1 .. MaxAttempts
Thread == 0 .. MaxThreads
Event == {"bind", "session", "quoted", "item"}

TypeOK ==
  /\ CliTypeOK
  /\ client \in Clients
  /\ me \in {"idle", "ready", "turn", "finish", "check", "settle"}
  /\ rows \in Seq({"running", "succeeded", "failed"}) /\ Len(rows) <= MaxAttempts
  /\ binding \in [Attempts -> [thread : Thread,
       state : {"none", "running", "completed", "failed", "interrupted"}]]
  /\ logged \in [Attempts -> SUBSET Event]
  /\ {asked, sid, memory, threads} \subseteq Thread
  /\ seen \in BOOLEAN /\ todo \in Seq(Event) /\ final \in 0 .. MaxLines
  /\ turn \in 1 .. 2 /\ verdict \in {"none", "succeeded", "failed", "refused"}
  /\ starts \in 0 .. MaxAttempts /\ rounds \in 0 .. MaxRounds
  /\ mishaps \in 0 .. MaxMishaps

\* The attempt at work: the newest, which for a root is the only one.
Now == Len(rows)

\* What a line becomes (normalize_event, normalize_stream_event), with the
\* durable steps its events take: a session is bound before it is logged, a
\* delta is live-only.  Claude repeats the session in its result.  The Lead's
\* callback binds and drops the rest.
EventsOf(k) ==
  CASE client = "lead" -> IF k = "session" THEN <<"bind">> ELSE <<>>
    [] k = "session" -> <<"bind", "session">>
    [] k = "result"  -> IF client = "claude-cli" THEN <<"bind", "session", "item">> ELSE <<"item">>
    [] k = "message" -> <<"item">>
    [] k = "quoted"  -> <<"quoted">>
    [] OTHER -> <<>>

Init ==
  /\ Closed /\ sup = "off" /\ outcome = "none"
  /\ client \in Clients /\ me = "idle" /\ verdict = "none"
  /\ rows = <<>>
  /\ binding = [i \in Attempts |-> NoBinding]
  /\ logged = [i \in Attempts |-> {}]
  /\ asked = NoThread /\ sid = NoThread /\ seen = FALSE /\ todo = <<>> /\ final = 0
  /\ memory = NoThread /\ turn = 1 /\ rounds = 0
  /\ starts = 0 /\ threads = 0 /\ mishaps = 0

Mishap == mishaps < MaxMishaps /\ mishaps' = mishaps + 1

Bound(s) == [binding EXCEPT ![Now] = [thread |-> sid, state |-> s]]

-----------------------------------------------------------------------------
\* Before the process is spawned.

\* The scheduler has recorded a running attempt before it calls the driver;
\* the team runner records the root's attempt when it creates the root, and
\* leaves it alone when it resumes one.
BeginAttempt ==
  /\ me = "idle" /\ starts < MaxAttempts
  /\ IF client = "lead"
     THEN /\ \A i \in 1 .. Len(rows) : rows[i] # "succeeded"
          /\ rows' = IF rows = <<>> THEN <<"running">> ELSE rows
     ELSE /\ \A i \in 1 .. Len(rows) : rows[i] = "failed"
          /\ rows' = Append(rows, "running")
  /\ me' = "ready" /\ starts' = starts + 1
  /\ verdict' = "none" /\ memory' = NoThread /\ turn' = 1 /\ rounds' = 0
  /\ UNCHANGED <<transport, runVars, binding, logged, invocation, threads, mishaps, client>>

\* restore_binding of the Lead: the thread in memory, or else the one bound to
\* the root's attempt, which must be running.  A driver looks up the binding of
\* its running attempt every time.
Restored == IF client = "lead" /\ memory # NoThread THEN memory ELSE binding[Now].thread

Refused == client = "lead" /\ memory = NoThread /\ rows[1] # "running"

Refuse ==
  /\ me = "ready" /\ Refused
  /\ me' = "settle" /\ verdict' = "refused"
  /\ UNCHANGED <<transport, runVars, durable, invocation, leadVars, counters, client>>

\* `exec` starts a thread.  `exec resume` names one; the process reports the
\* thread it was asked for, or another.
Invocation ==
  /\ asked' = Restored
  /\ \/ /\ asked' # NoThread
        /\ sid' = asked'
        /\ UNCHANGED threads
     \/ /\ threads < MaxThreads /\ threads' = threads + 1
        /\ sid' = threads'

StartTurn ==
  /\ me = "ready" /\ ~Refused
  /\ Invocation
  /\ Spawn
  /\ me' = "turn"
  /\ UNCHANGED <<durable, seen, todo, final, leadVars, starts, mishaps, client, verdict>>

\* The board cannot be read, the result schema not written, or the process
\* not spawned: nothing has happened yet.
StartFails ==
  /\ me = "ready" /\ Mishap
  /\ me' = "settle" /\ verdict' = "failed"
  /\ UNCHANGED <<transport, runVars, durable, invocation, leadVars, starts, threads, client>>

-----------------------------------------------------------------------------
\* While it runs.

\* Take one line.  Whether it is a message is remembered before anything of
\* it is emitted.
TakeLine ==
  /\ sup = "loop" /\ channel # <<>>
  /\ LET line == Head(channel) IN
       IF line[1] = "error"
       THEN Fail("error") /\ UNCHANGED invocation
       ELSE /\ channel' = Tail(channel)
            /\ todo' = EventsOf(line[1])
            /\ seen' = (seen \/ line[1] = "session" \/ (line[1] = "result" /\ client = "claude-cli"))
            /\ final' = IF line[1] \in {"message", "quoted"} THEN line[2] ELSE final
            /\ sup' = IF todo' = <<>> THEN "loop" ELSE "emit"
            /\ UNCHANGED <<outcome, alive, exit, outHeld, errHeld, errFull, prompt, stdout,
                           written, said, asked, sid>>
  /\ UNCHANGED <<durable, leadVars, counters, client, me, verdict>>

\* Mutant: a session is logged when it is reported and bound when it is done.
LogBeforeBinding ==
  /\ sup = "emit" /\ Head(todo) # "quoted"
  /\ IF Head(todo) = "bind"
     THEN UNCHANGED <<binding, logged>>
     ELSE logged' = [logged EXCEPT ![Now] = @ \cup {Head(todo)}] /\ UNCHANGED binding
  /\ todo' = Tail(todo)
  /\ sup' = IF Tail(todo) = <<>> THEN "loop" ELSE "emit"
  /\ UNCHANGED <<transport, outcome, rows, asked, sid, seen, final, leadVars,
                 counters, client, me, verdict>>

\* persist_binding of the Lead looks its running attempt up again; a driver
\* keeps the number it has read.
PersistBinding ==
  /\ client = "lead" => rows[Now] = "running"
  /\ binding' = Bound("running")

\* Bind the session or append the event, each a transaction of its own.
EmitEvent ==
  /\ sup = "emit" /\ Head(todo) # "quoted"
  /\ IF Head(todo) = "bind"
     THEN PersistBinding /\ UNCHANGED logged
     ELSE logged' = [logged EXCEPT ![Now] = @ \cup {Head(todo)}] /\ UNCHANGED binding
  /\ todo' = Tail(todo)
  /\ sup' = IF Tail(todo) = <<>> THEN "loop" ELSE "emit"
  /\ UNCHANGED <<transport, outcome, rows, asked, sid, seen, final, leadVars,
                 counters, client, me, verdict>>

\* The board refuses, or the event is too long for its log
\* (PayloadTooLarge): the required audit boundary failed, and the run with it.
EmitFails ==
  /\ sup = "emit"
  /\ IF Head(todo) = "quoted" THEN UNCHANGED mishaps ELSE Mishap
  /\ Fail("error")
  /\ UNCHANGED <<durable, invocation, leadVars, starts, threads, client, me,
                 verdict>>

Supervise ==
  /\ \/ Forward \/ WritePrompt \/ TimesOut \/ Disconnected \/ Waited(seen)
     \/ JoinReader
  /\ UNCHANGED <<durable, invocation, leadVars, counters, client, me, verdict>>

\* The stderr reader is joined and run_invocation returns.
Return ==
  /\ sup = "diagnose" /\ StderrDone
  /\ sup' = "off" /\ me' = "finish" /\ Close
  /\ seen' = FALSE /\ todo' = <<>> /\ final' = 0
  /\ UNCHANGED <<outcome, durable, asked, sid, leadVars, counters, client, verdict>>
-----------------------------------------------------------------------------
\* After it returned.

\* Mutant: a failed run leaves its binding as it is.
FinishSuccessOnly ==
  /\ me = "finish" /\ client # "lead"
  /\ \/ /\ outcome = "ok"
        /\ binding' = Bound("completed") /\ me' = "check"
        /\ UNCHANGED <<verdict, mishaps>>
     \/ /\ outcome # "ok"
        /\ me' = "settle" /\ verdict' = "failed"
        /\ UNCHANGED <<binding, mishaps>>
  /\ UNCHANGED <<transport, runVars, rows, logged, invocation, leadVars, starts, threads,
                 client>>

\* A driver binds the end of the session: first "completed", before it looks at
\* the result; or "failed", if the board shows a thread, and whether or not
\* that can be written.
FinishDriver ==
  /\ me = "finish" /\ client # "lead"
  /\ \/ /\ outcome = "ok"
        /\ binding' = Bound("completed") /\ me' = "check"
        /\ UNCHANGED <<verdict, mishaps>>
     \/ /\ outcome # "ok"
        /\ binding' = IF binding[Now].thread = NoThread THEN binding
                      ELSE [binding EXCEPT ![Now].state = "failed"]
        /\ me' = "settle" /\ verdict' = "failed"
        /\ UNCHANGED mishaps
     \/ /\ Mishap
        /\ me' = "settle" /\ verdict' = "failed"
        /\ UNCHANGED binding
  /\ UNCHANGED <<transport, runVars, rows, logged, invocation, leadVars, starts, threads,
                 client>>

\* The summary must have its shape (Codex only) and the artifacts be files.
CheckResult ==
  /\ me = "check"
  /\ me' = "settle" /\ verdict' \in {"succeeded", "failed"}
  /\ UNCHANGED <<transport, runVars, durable, invocation, leadVars, counters, client>>

\* The Lead keeps the thread and parses the reply.  A reply that does not parse
\* is answered with one correction turn; a decision delegates, and the next
\* round begins, or completes the run.
FinishLead ==
  /\ me = "finish" /\ client = "lead"
  /\ \/ /\ outcome # "ok"
        /\ me' = "settle" /\ verdict' = "failed"
        /\ UNCHANGED leadVars
     \/ /\ outcome = "ok" /\ memory' = sid
        /\ \/ /\ turn = 1 /\ turn' = 2 /\ me' = "ready"
              /\ UNCHANGED <<rounds, verdict>>
           \/ /\ turn = 2 /\ me' = "settle" /\ verdict' = "failed"
              /\ UNCHANGED <<turn, rounds>>
           \/ /\ rounds < MaxRounds /\ rounds' = rounds + 1 /\ turn' = 1 /\ me' = "ready"
              /\ UNCHANGED verdict
           \/ /\ me' = "settle" /\ verdict' = "succeeded"
              /\ UNCHANGED <<turn, rounds>>
  /\ UNCHANGED <<transport, runVars, durable, invocation, counters, client>>

\* The scheduler or the team runner settles the attempt.
Settle ==
  /\ me = "settle"
  /\ rows' = [rows EXCEPT ![Now] = IF verdict = "succeeded" THEN verdict ELSE "failed"]
  /\ me' = "idle"
  /\ UNCHANGED <<transport, runVars, binding, logged, invocation, leadVars, counters, client,
                 verdict>>

-----------------------------------------------------------------------------
\* The process is killed.  Its child goes on in a group of its own, but nobody
\* holds the other ends of its pipes.
Kill ==
  /\ me # "idle" /\ Mishap
  /\ me' = "idle" /\ verdict' = "none"
  /\ sup' = "off" /\ outcome' = "none" /\ Close
  /\ asked' = NoThread /\ sid' = NoThread /\ seen' = FALSE /\ todo' = <<>> /\ final' = 0
  /\ memory' = NoThread /\ turn' = 1 /\ rounds' = 0
  /\ UNCHANGED <<durable, starts, threads, client>>

\* `am recover` or `recover-all` between two processes.
Recover ==
  /\ me = "idle" /\ rows # <<>> /\ rows[Now] = "running"
  /\ rows' = [rows EXCEPT ![Now] = "failed"]
  /\ binding' = IF binding[Now].state = "running"
                THEN [binding EXCEPT ![Now].state = "interrupted"] ELSE binding
  /\ UNCHANGED <<transport, runVars, logged, invocation, leadVars, counters, client, me, verdict>>

Peer ==
  /\ Environment
  /\ UNCHANGED <<durable, invocation, leadVars, counters, client, me, verdict>>

Client ==
  \/ Refuse \/ StartTurn \/ StartFails
  \/ Supervise \/ TakeLine \/ EmitEvent \/ EmitFails \/ Return
  \/ FinishDriver \/ CheckResult \/ FinishLead \/ Settle

Next == BeginAttempt \/ Client \/ Peer \/ Kill \/ Recover

\* The threads of the client are scheduled and time passes.  Nothing is asked
\* of the child, not even that it ends.
Fairness == WF_vars(Client)

Spec == Init /\ [][Next]_vars
FairSpec == Spec /\ Fairness

-----------------------------------------------------------------------------
\* A run that succeeds has read all of its output: the result is the last
\* message the session wrote, even one still in the pipe when the process
\* ended, and no line behind it was left unread (codex_exec.rs:107-173).
ResultIsTheLastMessage ==
  me = "turn" /\ outcome = "ok" =>
    /\ final = said /\ stdout = <<>> /\ channel = <<>>
    /\ seen /\ "child" \notin alive

\* "Timeout and terminal protocol failure also terminate descendants rather
\* than leaving helpers" (codex_exec.rs:43-45): once a run has failed, nothing
\* of its process group is left, whoever failed: the child, a reader, the board
\* or the clock.
FailureLeavesNoGroup ==
  outcome \in {"timeout", "error"} => alive \cap ProcessGroup = {}

\* At every crash point the log of an attempt speaks of a session only if the
\* board can name it: the binding is durable before the first event of its
\* session (codex_exec_driver.rs:276-279).
SessionIsBoundFirst ==
  \A i \in Attempts : "session" \in logged[i] => binding[i].thread # NoThread

\* Binding and attempt tell one story once a driver is done with an attempt:
\* a success has completed its session, a failure has not left one "running",
\* unless the process was killed or the board refused a write.
BindingFollowsTheAttempt ==
  me = "idle" /\ client # "lead" =>
    \A i \in 1 .. Len(rows) :
      /\ rows[i] = "succeeded" => binding[i].state = "completed"
      /\ rows[i] = "failed" /\ mishaps = 0 => binding[i].state # "running"

\* run_invocation returns, whatever the child does and before or after the
\* deadline, unless it is in one of the waits of Hangs.
OnlyTheseHang == []<>(me # "turn" \/ Hangs)

\* README.md:167: "An interrupted run can be resumed".  A resumed Lead gets to
\* ask its runtime for a decision.
ResumedLeadDecides == verdict # "refused"
=============================================================================
