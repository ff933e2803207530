--------------------------- MODULE TeamBoardProofs ---------------------------
(***************************************************************************)
(* Lemmas about the operations of TeamBoard, for every set of tasks and    *)
(* agents; the proofs about the modules that write to the board rest on    *)
(* them.                                                                   *)
(***************************************************************************)
EXTENDS TeamBoard, WellFoundedInduction, TLAPS

-----------------------------------------------------------------------------
(* The board.                                                              *)

\* Settling rows keeps their number and their type.
LEMMA SettledType ==
  ASSUME BoardTypeOK, NEW t \in Task, NEW k, NEW from, NEW s \in TaskStatus
  PROVE  /\ Settled(t, k, from, s) \in Seq(Attempt)
         /\ Len(Settled(t, k, from, s)) = Len(runs[t])
<1>1. runs[t] \in Seq(Attempt) /\ Len(runs[t]) \in Nat
  BY DEF BoardTypeOK
<1>2. \A i \in 1 .. Len(runs[t]) :
        (IF runs[t][i].attempt = k /\ runs[t][i].status \in from
         THEN [attempt |-> k, agent |-> runs[t][i].agent, status |-> s]
         ELSE runs[t][i]) \in Attempt
  <2> TAKE i \in 1 .. Len(runs[t])
  <2>1. runs[t][i] \in Attempt
    BY <1>1
  <2>. QED
    BY <2>1 DEF Attempt
<1>. QED
  BY <1>1, <1>2 DEF Settled

\* A new row is well typed (create_task).
LEMMA CreateTaskType ==
  ASSUME BoardTypeOK, NEW t \in Task, CreateTask(t)
  PROVE  BoardTypeOK'
BY DEF BoardTypeOK, CreateTask, TaskStatus

\* Assigning an agent keeps the board well typed (assign).
LEMMA AssignType ==
  ASSUME BoardTypeOK, NEW t \in Task, NEW a \in Agent, Assign(t, a)
  PROVE  BoardTypeOK'
BY DEF BoardTypeOK, Assign, TaskStatus

\* So does any change of status (set_status).
LEMMA SetStatusType ==
  ASSUME BoardTypeOK, NEW t \in Task, NEW s \in TaskStatus, SetStatus(t, s)
  PROVE  BoardTypeOK'
BY DEF BoardTypeOK, SetStatus

\* So does a new attempt of an agent (record_attempt).
LEMMA RecordAttemptType ==
  ASSUME BoardTypeOK, NEW t \in Task, NEW k \in Nat, NEW a \in Agent,
         NEW s \in TaskStatus, RecordAttempt(t, k, a, s)
  PROVE  BoardTypeOK'
<1>1. [attempt |-> k, agent |-> a, status |-> s] \in Attempt
  BY DEF Attempt
<1>2. Append(runs[t], [attempt |-> k, agent |-> a, status |-> s]) \in Seq(Attempt)
  BY <1>1 DEF BoardTypeOK
<1>. QED
  BY <1>2 DEF BoardTypeOK, RecordAttempt

\* So does the outcome of an attempt (complete_attempt).
LEMMA CompleteAttemptType ==
  ASSUME BoardTypeOK, NEW t \in Task, NEW k, NEW s \in TaskStatus,
         CompleteAttempt(t, k, s)
  PROVE  BoardTypeOK'
BY SettledType DEF BoardTypeOK, CompleteAttempt

\* So does the commit of a whole result (commit_successful_result).
LEMMA CommitSuccessfulResultType ==
  ASSUME BoardTypeOK, NEW t \in Task, NEW k \in Nat, CommitSuccessfulResult(t, k)
  PROVE  BoardTypeOK'
<1>1. "succeeded" \in TaskStatus
  BY DEF TaskStatus
<1>2. Settled(t, k, TaskStatus, "succeeded") \in Seq(Attempt)
  BY <1>1, SettledType
<1>3. Append(outputs[t], k) \in Seq(Nat)
  BY DEF BoardTypeOK
<1>. QED
  BY <1>1, <1>2, <1>3 DEF BoardTypeOK, CommitSuccessfulResult

\* Recovery settles one attempt that was running, and nothing else.
LEMMA RecoverType ==
  ASSUME BoardTypeOK, NEW t \in Task, RecoverInterruptedAttempt(t)
  PROVE  BoardTypeOK'
<1>1. "failed" \in TaskStatus
  BY DEF TaskStatus
<1>2. \A k : Settled(t, k, {"running"}, "failed") \in Seq(Attempt)
  BY <1>1, SettledType
<1>. QED
  BY <1>1, <1>2 DEF BoardTypeOK, RecoverInterruptedAttempt

\* Settling the newest of rows numbered 1, 2, ... changes that row alone.
LEMMA SettledLast ==
  ASSUME BoardTypeOK, NEW t \in Task, NEW from, NEW s \in TaskStatus,
         Len(runs[t]) > 0,
         \A i \in 1 .. Len(runs[t]) : runs[t][i].attempt = i,
         runs[t][Len(runs[t])].status \in from
  PROVE  LET rows == Settled(t, Len(runs[t]), from, s)
         IN  /\ rows \in Seq(Attempt)
             /\ Len(rows) = Len(runs[t])
             /\ \A i \in 1 .. Len(runs[t]) : rows[i].attempt = i
             /\ \A i \in 1 .. Len(runs[t]) - 1 : rows[i] = runs[t][i]
             /\ rows[Len(runs[t])].status = s
<1> DEFINE n == Len(runs[t])
           rows == Settled(t, n, from, s)
<1>1. rows \in Seq(Attempt) /\ Len(rows) = n
  BY SettledType
<1>2. n \in Nat /\ n \in 1 .. n
  BY DEF BoardTypeOK
<1>3. \A i \in 1 .. n - 1 : rows[i] = runs[t][i]
  BY <1>2 DEF Settled
<1>4. rows[n] = [attempt |-> n, agent |-> runs[t][n].agent, status |-> s]
  BY <1>2 DEF Settled
<1>5. \A i \in 1 .. n : rows[i].attempt = i
  BY <1>2, <1>3, <1>4
<1>. QED
  BY <1>1, <1>3, <1>4, <1>5

\* An update of the attempt numbered k, of rows numbered 1, 2, ..., changes row
\* k alone, if anything.
LEMMA SettledIs ==
  ASSUME BoardTypeOK, NEW t \in Task, NEW k, NEW from, NEW s \in TaskStatus,
         \A i \in 1 .. Len(runs[t]) : runs[t][i].attempt = i
  PROVE  /\ Settled(t, k, from, s) \in Seq(Attempt)
         /\ Len(Settled(t, k, from, s)) = Len(runs[t])
         /\ \A i \in 1 .. Len(runs[t]) :
              Settled(t, k, from, s)[i] =
                IF i = k /\ runs[t][i].status \in from
                THEN [attempt |-> k, agent |-> runs[t][i].agent, status |-> s]
                ELSE runs[t][i]
<1>1. Settled(t, k, from, s) \in Seq(Attempt) /\ Len(Settled(t, k, from, s)) = Len(runs[t])
  BY SettledType
<1>. QED
  BY <1>1 DEF Settled

\* An attempt keeps its agent, whatever its outcome.
LEMMA SettledAgents ==
  ASSUME BoardTypeOK, NEW t \in Task, NEW k, NEW from, NEW s \in TaskStatus
  PROVE  /\ Len(Settled(t, k, from, s)) = Len(runs[t])
         /\ \A i \in 1 .. Len(runs[t]) : Settled(t, k, from, s)[i].agent = runs[t][i].agent
<1>1. Len(Settled(t, k, from, s)) = Len(runs[t])
  BY SettledType
<1>. QED
  BY <1>1 DEF Settled

\* The board after such an update of the row numbered k.
LEMMA SettledUpdate ==
  ASSUME BoardTypeOK, NEW t \in Task, NEW k \in 1 .. Len(runs[t]), NEW from, NEW s \in TaskStatus,
         \A i \in 1 .. Len(runs[t]) : runs[t][i].attempt = i,
         runs[t][k].status \in from,
         runs' = [runs EXCEPT ![t] = Settled(t, k, from, s)]
  PROVE  /\ Len(runs'[t]) = Len(runs[t])
         /\ \A i \in 1 .. Len(runs[t]) : i # k => runs'[t][i] = runs[t][i]
         /\ runs'[t][k] = [attempt |-> k, agent |-> runs[t][k].agent, status |-> s]
         /\ \A u \in Task \ {t} : runs'[u] = runs[u]
<1>1. /\ Len(Settled(t, k, from, s)) = Len(runs[t])
      /\ \A i \in 1 .. Len(runs[t]) :
           Settled(t, k, from, s)[i] =
             IF i = k /\ runs[t][i].status \in from
             THEN [attempt |-> k, agent |-> runs[t][i].agent, status |-> s]
             ELSE runs[t][i]
  BY SettledIs
<1>2. runs'[t] = Settled(t, k, from, s) /\ \A u \in Task \ {t} : runs'[u] = runs[u]
  BY DEF BoardTypeOK
<1>. QED
  BY <1>1, <1>2

\* Of positive naturals with a bound, one is the greatest.
LEMMA GreatestBelow ==
  ASSUME NEW n \in Nat, NEW S, S # {}, \A i \in S : i \in 1 .. n
  PROVE  \E k \in S : \A j \in S : j <= k
<1> DEFINE R == OpToRel(<, Nat)
           gaps == {n - i : i \in S}
<1>1. gaps \in SUBSET Nat /\ gaps # {}
  OBVIOUS
<1>2. PICK g \in gaps : \A h \in gaps : ~ (<<h, g>> \in R)
  <2> HIDE DEF gaps, R
  <2>1. IsWellFoundedOn(R, Nat)
    BY NatLessThanWellFounded DEF R
  <2>. QED
    BY <1>1, <2>1, WFMin
<1>3. PICK k \in S : g = n - k
  OBVIOUS
<1>4. ASSUME NEW j \in S PROVE j <= k
  <2>1. ~ (n - j < n - k)
    BY <1>1, <1>2, <1>3 DEF OpToRel
  <2>. QED
    BY <2>1
<1>. QED
  BY <1>4

\* Recovery of rows numbered 1, 2, ... closes one that was running.
LEMMA RecoverPicks ==
  ASSUME BoardTypeOK, NEW t \in Task, RecoverInterruptedAttempt(t),
         \A i \in 1 .. Len(runs[t]) : runs[t][i].attempt = i
  PROVE  \E k \in AttemptsIn(t, "running") :
           /\ runs' = [runs EXCEPT ![t] = Settled(t, k, {"running"}, "failed")]
           /\ status' = [status EXCEPT ![t] = "failed"]
           /\ UNCHANGED <<assignee, outputs>>
<1> DEFINE numbers == {runs[t][i].attempt : i \in AttemptsIn(t, "running")}
           last == CHOOSE k \in numbers : \A j \in numbers : j <= k
<1>1. numbers = AttemptsIn(t, "running")
  BY DEF AttemptsIn
<1>2. numbers # {} /\ \A i \in numbers : i \in 1 .. Len(runs[t])
  BY <1>1 DEF RecoverInterruptedAttempt, AttemptsIn
<1>3. Len(runs[t]) \in Nat
  BY DEF BoardTypeOK
<1>4. \E k \in numbers : \A j \in numbers : j <= k
  <2> HIDE DEF numbers
  <2>. QED
    BY <1>2, <1>3, GreatestBelow
<1>5. last \in numbers
  <2> HIDE DEF numbers
  <2>. QED
    BY <1>4
<1>. QED
  BY <1>1, <1>5 DEF RecoverInterruptedAttempt
=============================================================================
