----------------------------- MODULE LeadReply ------------------------------
(* What a Codex Lead may answer (codex_lead.rs): the contract its replies    *)
(* are parsed against, before the Lead loop sees a decision.                 *)
(*                                                                           *)
(* A reply that is one JSON object of the wire's form is a record.  A text   *)
(* is the number of its bytes once trimmed, a digest says whether it is one. *)
EXTENDS Integers, Sequences, Functions

CONSTANTS
  Candidates,  \* the agents the scheduler can route to
  MaxTasks,    \* MAX_DELEGATED_TASKS
  MaxSelected, \* MAX_SELECTED_IDS, and MAX_SELECTED_ARTIFACTS
  MaxAnswer    \* config.max_answer_bytes

Anyone == "null"   \* a task's target: the scheduler chooses

\* The forms of a reply.  Everything else is prose: other text, no object, a
\* missing field or one too many.
Delegate(tasks) == [action |-> "delegate", tasks |-> tasks]
FollowUp(task) == [action |-> "follow_up", tasks |-> <<task>>]
CompleteWith(answer, selected, artifacts) ==
  [action |-> "complete", answer |-> answer, selected |-> selected, artifacts |-> artifacts]
Prose == [action |-> "prose"]

\* A task the Lead may hand out.
TaskSpec(task) == task.objective > 0 /\ task.target \in Candidates \union {Anyone}

\* A selected artifact, among the tasks selected with it.
SelectedArtifact(artifact, selected) ==
  artifact.path > 0 /\ artifact.task \in Range(selected) /\ artifact.digest

\* A final result.
TeamResult(result) ==
  /\ result.answer \in 1 .. MaxAnswer
  /\ Len(result.selected) \in 1 .. MaxSelected /\ IsInjective(result.selected)
  /\ Len(result.artifacts) <= MaxSelected
  /\ \A i \in DOMAIN result.artifacts :
       SelectedArtifact(result.artifacts[i], result.selected)

\* Whether a reply is a decision.
ParseReply(reply) ==
  \/ /\ reply.action = "delegate" /\ Len(reply.tasks) \in 1 .. MaxTasks
     /\ \A i \in DOMAIN reply.tasks : TaskSpec(reply.tasks[i])
  \/ reply.action = "follow_up" /\ TaskSpec(reply.tasks[1])
  \/ reply.action = "complete" /\ TeamResult(reply)
=============================================================================
