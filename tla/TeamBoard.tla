----------------------------- MODULE TeamBoard -----------------------------
(***************************************************************************)
(* The durable task board: the `TaskBoard` trait of agentmosaic-team as    *)
(* implemented on SQLite by agentmosaic-storage.                           *)
(*                                                                         *)
(* Every operator below is one SQLite transaction, so it is one atomic     *)
(* step however many processes have the database open.  Handlers that      *)
(* issue several transactions are several actions in the modules that      *)
(* extend this one.  Text (objectives, summaries, errors) is left out:     *)
(* what is kept is which rows exist, in which status, and which attempt    *)
(* each committed message and artifact came from.                          *)
(*                                                                         *)
(* An operator headed "Mutant" is never part of a specification: it is a   *)
(* bug somebody could have written in the operator that follows it, kept   *)
(* to show which property notices.                                         *)
(***************************************************************************)
EXTENDS Integers, Sequences

CONSTANTS Task,     \* the ids AUTOINCREMENT hands out, in order: 1..n
          Agent,    \* the registered agents
          NoAgent   \* the NULL of the assignee column

ASSUME TaskAssumption == Task \subseteq Nat
ASSUME NoAgentAssumption == NoAgent \notin Agent

VARIABLES
  status,    \* team_tasks.status, "absent" while the row does not exist
  assignee,  \* team_tasks.assignee
  runs,      \* the team_task_runs rows of each task, in insertion order
  outputs    \* the attempts whose message and artifact rows were inserted

boardVars == <<status, assignee, runs, outputs>>

TaskStatus == {"pending", "assigned", "running", "succeeded", "failed", "cancelled"}

Attempt == [attempt : Nat, agent : Agent, status : TaskStatus]

BoardTypeOK ==
  /\ status \in [Task -> TaskStatus \cup {"absent"}]
  /\ assignee \in [Task -> Agent \cup {NoAgent}]
  /\ runs \in [Task -> Seq(Attempt)]
  /\ outputs \in [Task -> Seq(Nat)]

BoardInit ==
  /\ status = [t \in Task |-> "absent"]
  /\ assignee = [t \in Task |-> NoAgent]
  /\ runs = [t \in Task |-> <<>>]
  /\ outputs = [t \in Task |-> <<>>]

-----------------------------------------------------------------------------
(* Reads.                                                                  *)

Exists(t) == status[t] # "absent"

\* Positions of the attempts of t that are in status s.
AttemptsIn(t, s) == {i \in 1 .. Len(runs[t]) : runs[t][i].status = s}

\* `attempts(task).len() + 1`, how every caller numbers a new attempt.
NextAttempt(t) == Len(runs[t]) + 1

-----------------------------------------------------------------------------
(* Writes.                                                                 *)

\* INSERT into team_tasks: AUTOINCREMENT gives t the next id.
CreateTask(t) ==
  /\ ~ Exists(t)
  /\ \A u \in Task : u < t => Exists(u)
  /\ status' = [status EXCEPT ![t] = "pending"]
  /\ UNCHANGED <<assignee, runs, outputs>>

\* The UPDATE names no old status: any task, even a settled one, becomes
\* assigned.
Assign(t, a) ==
  /\ Exists(t)
  /\ assignee' = [assignee EXCEPT ![t] = a]
  /\ status' = [status EXCEPT ![t] = "assigned"]
  /\ UNCHANGED <<runs, outputs>>

\* Equally unguarded.
SetStatus(t, s) ==
  /\ Exists(t)
  /\ status' = [status EXCEPT ![t] = s]
  /\ UNCHANGED <<assignee, runs, outputs>>

\* INSERT into team_task_runs; no key makes (task_id, attempt) unique.
RecordAttempt(t, k, a, s) ==
  /\ runs' = [runs EXCEPT ![t] =
                Append(@, [attempt |-> k, agent |-> a, status |-> s])]
  /\ UNCHANGED <<status, assignee, outputs>>

\* The rows of t after an UPDATE that gives status s to every row numbered k
\* whose old status is in `from`.
Settled(t, k, from, s) ==
  [i \in 1 .. Len(runs[t]) |->
     IF runs[t][i].attempt = k /\ runs[t][i].status \in from
     THEN [attempt |-> k, agent |-> runs[t][i].agent, status |-> s]
     ELSE runs[t][i]]

HasAttempt(t, k) == \E i \in 1 .. Len(runs[t]) : runs[t][i].attempt = k

\* The UPDATE is by task and number only, whatever the row held before.
CompleteAttempt(t, k, s) ==
  /\ HasAttempt(t, k)
  /\ runs' = [runs EXCEPT ![t] = Settled(t, k, TaskStatus, s)]
  /\ UNCHANGED <<status, assignee, outputs>>

\* Message, artifacts, attempt and task status in one transaction.
CommitSuccessfulResult(t, k) ==
  /\ Exists(t)
  /\ HasAttempt(t, k)
  /\ outputs' = [outputs EXCEPT ![t] = Append(@, k)]
  /\ runs' = [runs EXCEPT ![t] = Settled(t, k, TaskStatus, "succeeded")]
  /\ status' = [status EXCEPT ![t] = "succeeded"]
  /\ UNCHANGED assignee

\* Mutant: recovery closes the newest attempt without looking at its status.
RecoverNewestAttempt(t) ==
  /\ Len(runs[t]) > 0
  /\ runs' = [runs EXCEPT ![t] = Settled(t, Len(runs[t]), TaskStatus, "failed")]
  /\ status' = [status EXCEPT ![t] = "failed"]
  /\ UNCHANGED <<assignee, outputs>>

\* The highest-numbered running attempt and its task become failed, in one
\* transaction.  A task without a running attempt is left alone, whatever its
\* status says.
RecoverInterruptedAttempt(t) ==
  LET numbers == {runs[t][i].attempt : i \in AttemptsIn(t, "running")}
      last == CHOOSE k \in numbers : \A j \in numbers : j <= k
  IN  /\ numbers # {}
      /\ runs' = [runs EXCEPT ![t] = Settled(t, last, {"running"}, "failed")]
      /\ status' = [status EXCEPT ![t] = "failed"]
      /\ UNCHANGED <<assignee, outputs>>
=============================================================================
