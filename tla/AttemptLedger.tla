--------------------------- MODULE AttemptLedger ---------------------------
(***************************************************************************)
(* What the team promises about the attempts of a task, whoever runs them: *)
(* at most one attempt is open, it is the newest one, a settled attempt is *)
(* never touched again, and nothing is tried after a success.  It is the   *)
(* sentence of agentmosaic-team/src/board.rs on `TaskAttempt` ("a failure  *)
(* is never overwritten by a later retry") as a state machine.  Scheduler  *)
(* is shown to implement it, and TeamRun for the tasks a Lead delegates.   *)
(***************************************************************************)
EXTENDS Integers, Sequences

CONSTANT Task

VARIABLE ledger   \* the outcomes of the attempts of each task, oldest first

Outcome == {"running", "succeeded", "failed"}

Entries(t) == 1 .. Len(ledger[t])

Init == ledger = [t \in Task |-> <<>>]

\* A new attempt, when every earlier one has failed.
Open(t) ==
  /\ \A i \in Entries(t) : ledger[t][i] = "failed"
  /\ ledger' = [ledger EXCEPT ![t] = Append(@, "running")]

\* The open attempt, always the newest, gets its outcome.
Settle(t, o) ==
  /\ Len(ledger[t]) > 0
  /\ ledger[t][Len(ledger[t])] = "running"
  /\ ledger' = [ledger EXCEPT ![t][Len(ledger[t])] = o]

Next == \E t \in Task : Open(t) \/ Settle(t, "succeeded") \/ Settle(t, "failed")

Spec == Init /\ [][Next]_ledger
=============================================================================
