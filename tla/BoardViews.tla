----------------------------- MODULE BoardViews -----------------------------
(***************************************************************************)
(* What other processes show of a run while it is at work: the dashboard   *)
(* of `am tui`, `am status`, `am artifact`, `am final`, and the context    *)
(* the MCP bridge gives to a Codex turn.                                   *)
(*                                                                         *)
(* Each opens the board anew and puts its picture together from several    *)
(* statements; no transaction spans them, so the run moves on in between.  *)
(* `view` is one such picture in the making, and is forgotten once shown.  *)
(* It keeps what is asked about: whether the header says that the run has  *)
(* succeeded, the tasks shown as succeeded, those of them shown without    *)
(* their outputs, and the selection.                                       *)
(***************************************************************************)
EXTENDS RunReport

CONSTANT MaxTrouble  \* bound: faults and kills while and before somebody looks

ASSUME TroubleAssumption == MaxTrouble \in Nat

VARIABLE view

viewVars == <<reportVars, view>>

\* Nobody looks.
Closed == [at |-> "closed", header |-> FALSE,
           left |-> {}, good |-> {}, bare |-> {}, selection |-> {}]

ViewTypeOK ==
  /\ view.at \in {"closed", "list", "row", "outputs", "refs", "answer", "shown", "answered"}
  /\ view.header \in BOOLEAN
  /\ view.left \subseteq Task /\ view.good \subseteq Task
  /\ view.bare \subseteq Task /\ view.selection \subseteq Task

Quiet == faults + crashes <= MaxTrouble

Show(v) == view' = v /\ UNCHANGED reportVars

Succeeded(t) == status[t] = "succeeded"

\* A command opens the board and reads the newest run, or the one of a given
\* id: `final` goes on with its answer, the others with their tasks.  Without
\* a run there is an empty picture, or a refusal.
OpenView(goal) ==
  /\ view = Closed /\ Quiet
  /\ Show([view EXCEPT !.at = IF Exists(Root) THEN goal ELSE "shown",
                       !.header = Succeeded(Root)])

\* The ids of the root and its descendants; for the bridge, of every task.
ListTasks ==
  /\ view.at = "list"
  /\ Show([view EXCEPT !.at = "row", !.left = {t \in Task : Exists(t)}])

\* The tasks are read in the order of their ids.
IsNextTask(t) == t \in view.left /\ \A u \in view.left : t <= u

ReadRow(t) ==
  /\ view.at = "row" /\ IsNextTask(t)
  /\ Show(IF Succeeded(t)
          THEN [view EXCEPT !.at = "outputs", !.good = @ \cup {t}, !.bare = @ \cup {t}]
          ELSE [view EXCEPT !.at = "outputs"])

\* The artifacts recorded with a task.
ArtifactsOf(t) == outputs[t]

\* What a succeeded task has to show: its artifacts, and for the bridge the
\* result of its succeeded attempt.
OutputsOf(t) == AttemptsIn(t, "succeeded") # {} /\ ArtifactsOf(t) # <<>>

ReadOutputs(t) ==
  /\ view.at = "outputs" /\ IsNextTask(t)
  /\ Show([view EXCEPT !.at = "row", !.left = @ \ {t},
                       !.bare = IF OutputsOf(t) THEN @ \ {t} ELSE @])

\* After the last task the dashboard reads the final selection; the others
\* are done.
EndRows ==
  /\ view.at = "row" /\ view.left = {}
  /\ Show([view EXCEPT !.at = "refs"])

\* What the Lead selected for its answer; empty until it has completed.
FinalRefs == refs

\* Mutant: the header is read again with the selection.
ReadHeaderLast ==
  /\ view.at = "refs"
  /\ Show([view EXCEPT !.at = "shown", !.selection = FinalRefs, !.header = Succeeded(Root)])

ReadSelection ==
  /\ view.at = "refs"
  /\ Show([view EXCEPT !.at = "shown", !.selection = FinalRefs])

\* `am final` prints the newest succeeded attempt of the run, or refuses.
ReadAnswer ==
  /\ view.at = "answer"
  /\ Show([view EXCEPT !.at = "answered",
             !.good = IF AttemptsIn(Root, "succeeded") # {} THEN {Root} ELSE {}])

\* The picture is shown, or a read fails.  The dashboard looks again after
\* 400 milliseconds, until `q`.
Close == view.at # "closed" /\ Show(Closed)

ViewStep ==
  \/ \E goal \in {"list", "answer"} : OpenView(goal)
  \/ ListTasks
  \/ \E t \in Task : ReadRow(t) \/ ReadOutputs(t)
  \/ EndRows \/ ReadSelection \/ ReadAnswer \/ Close

ViewInit == ReportInit /\ view = Closed
ViewNext ==
  \/ ViewStep
  \/ ReportNext /\ UNCHANGED view /\ (view # Closed => Quiet')

ViewSpec == ViewInit /\ [][ViewNext]_viewVars

FairViewSpec == ViewSpec /\ RunFairness

-----------------------------------------------------------------------------
\* Whatever the run does between two reads, no picture shows an outcome
\* without what it rests on: a succeeded task comes with its outputs, and a
\* run whose header says succeeded with its answer and a selection all of
\* whose tasks are shown as succeeded.  Torn as the pictures are, each is read
\* in the order opposite to the one things are written in (lead.rs:460-462,
\* storage board.rs:625-679).
ShownIsGrounded ==
  view.at \in {"shown", "answered"} =>
    /\ view.bare \subseteq {Root}
    /\ view.header => Root \in view.good
    /\ view.header /\ view.at = "shown" =>
         view.selection # {} /\ view.selection \subseteq view.good
=============================================================================
