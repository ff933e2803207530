----------------------------- MODULE RunReport -----------------------------
(***************************************************************************)
(* What `am run` tells while the team works: scheduler, Lead and runner    *)
(* emit a RunEvent after a transaction and outside the board's lock, and   *)
(* the sink of the process writes a line for it on stderr.                 *)
(*                                                                         *)
(* Nothing is awaited between a transaction and its event, and the CLI has *)
(* one thread, so both are one step.  Of the stream the model keeps the    *)
(* last event of each task; the events of the run are those of its root.   *)
(* State::run_id is set by the events of the root and by no other.         *)
(***************************************************************************)
EXTENDS TeamRun

VARIABLE line  \* the last event the sink was given of each task

reportVars == <<allVars, line>>

TaskEvent == {"TaskDelegated", "AttemptStarted", "AttemptFailed",
              "TaskSucceeded", "TaskFailed"}
RootEvent == {"RunStarted", "RunResumed", "LeadRoundStarted",
              "RunCompleted", "RunFailed"}

ReportTypeOK == line \in [Task -> TaskEvent \cup RootEvent \cup {"none"}]

Moves(t, from, to) == pc[t] \in from /\ pc'[t] \in to
LeadMoves(from, to) == lead \in from /\ lead' \in to

\* Mutant: a result is announced before it is committed.
EmittedEarly(t) ==
  {e \in TaskEvent :
     \/ e = "TaskDelegated" /\ Moves(t, {"none"}, {"begin"})
     \/ e = "AttemptStarted" /\ Moves(t, {"mark"}, {"context"})
     \/ e = "TaskSucceeded" /\ Moves(t, {"driving"}, {"settle"})
     \/ e = "AttemptFailed" /\ Moves(t, {"settle"}, {"acquire", "assign"})
     \/ e = "TaskFailed" /\ Moves(t, {"assign"}, {"failed"})}

\* What the step of a delegated task emits; the artifacts of a result come
\* with its TaskSucceeded.
Emitted(t) ==
  {e \in TaskEvent :
     \/ e = "TaskDelegated" /\ Moves(t, {"none"}, {"begin"})
     \/ e = "AttemptStarted" /\ Moves(t, {"mark"}, {"context"})
     \/ e = "TaskSucceeded" /\ Moves(t, {"settle"}, {"succeeded"})
     \/ e = "AttemptFailed" /\ Moves(t, {"settle"}, {"acquire", "assign"})
     \/ e = "TaskFailed" /\ Moves(t, {"assign"}, {"failed"})}

\* What the step of the runner or of the Lead emits.  A round starts once its
\* context is built, unless the rounds are used up; a failure is told after
\* the attempt to settle it, whether that worked or not.
EmittedByRun ==
  {e \in RootEvent :
     \/ e = "RunStarted" /\ LeadMoves({"mark"}, {"seed"})
     \/ e = "RunResumed" /\ LeadMoves({"recovering"}, {"seed"})
     \/ e = "LeadRoundStarted" /\ round < MaxRounds /\ faults' = faults
          /\ LeadMoves({"decide"}, {"scheduling", "refs", "settle"})
     \/ e = "RunCompleted" /\ LeadMoves({"status"}, {"done"})
     \/ e = "RunFailed" /\ LeadMoves(Settling, {"failed", "unsettled"})}

Observed(t) == IF t = Root THEN EmittedByRun ELSE Emitted(t)

\* The sink lives as long as its process.
Observe ==
  line' = [t \in Task |->
             IF lead' = "off" THEN "none"
             ELSE IF Observed(t) = {} THEN line[t]
             ELSE CHOOSE e \in Observed(t) : TRUE]

ReportInit == RunInit /\ line = [t \in Task |-> "none"]
ReportNext == RunNext /\ Observe
ReportSpec == ReportInit /\ [][ReportNext]_reportVars

\* State::run_id, and what the text of a failed `am run` makes of it.
RunKnown == line[Root] # "none"

FailurePayload == IF RunKnown THEN "State was preserved" ELSE "Run could not start"

-----------------------------------------------------------------------------
\* What an event claims of the board.
Claim(t, e) ==
  CASE e = "TaskDelegated"  -> Exists(t) /\ AttemptsIn(t, "succeeded") = {}
    [] e = "AttemptStarted" -> status[t] = "running" /\ runs[t][Len(runs[t])].status = "running"
    [] e = "AttemptFailed"  -> AttemptsIn(t, "failed") # {} /\ AttemptsIn(t, "succeeded") = {}
    [] e = "TaskSucceeded"  -> status[t] = "succeeded" /\ Len(outputs[t]) = 1
    [] e = "TaskFailed"     -> status[t] = "failed" /\ AttemptsIn(t, "running") = {}
    [] e = "RunCompleted"   -> status[t] = "succeeded" /\ refs = chosen
    [] e = "RunFailed"      -> status[t] = "failed" \/ lead = "unsettled"
    [] OTHER                -> Exists(t)

\* "A sink can only ever observe state the board already holds"
\* (run_event.rs:6-8), for as long as the line is the last one of its task,
\* whatever breaks in between; the last line of a run that ended is its outcome,
\* announced after it was settled (team_runner.rs:481-488), and the text of a
\* failure names the run unless nothing was ever announced.
ReportFollowsBoard ==
  /\ \A t \in Task : line[t] # "none" => Claim(t, line[t])
  /\ lead = "done" => line[Root] \in {"RunCompleted", "none"}
  /\ lead \in {"failed", "unsettled"} <=> line[Root] = "RunFailed"
  /\ lead \in {"failed", "unsettled"} => FailurePayload = "State was preserved"
  /\ lead = "refused" => FailurePayload = "Run could not start"
                          /\ \A t \in Task : line[t] = "none"
=============================================================================
