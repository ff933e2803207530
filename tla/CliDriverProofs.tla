-------------------------- MODULE CliDriverProofs --------------------------
(***************************************************************************)
(* Proofs about CliDriver and CliRuntime, for pipes and channels of any    *)
(* size, whatever a child writes, starts and closes, and for any number of *)
(* attempts, rounds, threads and mishaps.                                  *)
(***************************************************************************)
EXTENDS CliDriver, SequenceTheorems, TLAPS

-----------------------------------------------------------------------------
(* The inductive invariant.                                                *)

\* Places: a run is under supervision during a turn only, and an attempt at
\* work is the newest row, which for a worker is running.
Flow ==
  /\ me = "turn" <=> sup # "off"
  /\ sup = "off" => Closed /\ ~seen /\ todo = <<>> /\ final = 0
  /\ sup \in {"write", "loop", "emit", "wait"} => outcome = "none"
  /\ sup = "emit" => todo # <<>>
  /\ me # "idle" => rows # <<>>
  /\ me # "idle" /\ client # "lead" => rows[Now] = "running"
  /\ Len(rows) <= starts

\* Processes: what has ended, what was killed, and what is left of the output
\* of a child that is waited for.
Supervised ==
  /\ exit # "none" => "child" \notin alive
  /\ FailureLeavesNoGroup
  /\ sup = "wait" \/ (sup # "off" /\ outcome = "ok") =>
       channel = <<>> /\ stdout = <<>> /\ outHeld = {}
  /\ sup # "off" /\ outcome = "ok" => seen /\ exit # "none"

\* The lines of q, counted on from `from`, come to `to` messages.
IsMessage(line) == line[1] \in {"message", "quoted"}
Counted(q, from, to) ==
  /\ to = IF q = <<>> THEN from ELSE q[Len(q)][2]
  /\ \A i \in 1 .. Len(q) :
       q[i][2] = (IF i = 1 THEN from ELSE q[i - 1][2]) + (IF IsMessage(q[i]) THEN 1 ELSE 0)

\* Nothing is lost between the child and the last message taken.
Unread ==
  outcome \notin {"timeout", "error"} =>
    \E mid \in Nat : Counted(channel, final, mid) /\ Counted(stdout, mid, said)

\* A session is bound before its event comes up, and stays bound.
Sessions ==
  /\ me \in {"turn", "finish"} => sid # NoThread
  /\ \A i \in 1 .. Len(todo) :
       todo[i] = "session" =>
         IF i = 1 THEN binding[Now].thread # NoThread ELSE todo[i - 1] = "bind"
  /\ SessionIsBoundFirst
  /\ \A i \in Attempts : binding[i].thread = NoThread => binding[i].state = "none"

\* Binding and outcome of an attempt, also of the one at work.
Agrees(i, status) ==
  /\ status = "succeeded" => binding[i].state = "completed"
  /\ status = "failed" /\ mishaps = 0 => binding[i].state # "running"
VerdictAgrees == Agrees(Now, IF verdict = "succeeded" THEN verdict ELSE "failed")
Told ==
  client # "lead" =>
    /\ \A i \in 1 .. Len(rows) : Agrees(i, rows[i])
    /\ me = "check" => binding[Now].state = "completed"
    /\ me = "settle" => VerdictAgrees

IInv == TypeOK /\ Flow /\ Supervised /\ Unread /\ Sessions /\ Told

-----------------------------------------------------------------------------
(* Types.                                                                  *)

\* Where a step of the supervision leads, and what it leaves alone.
SuperviseSteps == Forward \/ WritePrompt \/ TimesOut \/ Disconnected \/ Waited(seen) \/ JoinReader

\* Ends of processes are well typed.
LEMMA EndType ==
  ASSUME CliTypeOK, NEW ps, End(ps), exit' \in {"none", "ok", "bad"},
         sup' \in {"off", "write", "loop", "emit", "wait", "join", "diagnose"},
         outcome' \in {"none", "ok", "timeout", "error"}
  PROVE  CliTypeOK'
BY DEF End, CliTypeOK, lines

\* So is what the peer and the reader thread do to the pipes,
LEMMA WriteType ==
  ASSUME CliTypeOK, NEW k \in LineKind, Write(k), UNCHANGED runVars
  PROVE  CliTypeOK'
<1>1. written' \in 0 .. MaxLines /\ said' \in 0 .. written'
  BY CapsAreNat DEF Write, CliTypeOK
<1>2. <<k, said'>> \in LineKind \X (0 .. MaxLines)
  BY <1>1, CapsAreNat
<1>3. stdout' \in Seq(LineKind \X (0 .. MaxLines)) /\ Len(stdout') = Len(stdout) + 1
  BY <1>2, AppendProperties DEF Write, CliTypeOK
<1>4. Len(stdout') <= PipeCap
  BY <1>3, CapsAreNat DEF Write, CliTypeOK
<1>. QED
  BY <1>1, <1>3, <1>4 DEF Write, CliTypeOK, runVars

LEMMA ForwardType ==
  ASSUME CliTypeOK, Forward
  PROVE  CliTypeOK'
<1> DEFINE L == LineKind \X (0 .. MaxLines)
<1>1. stdout \in Seq(L) /\ channel \in Seq(L) /\ stdout # <<>>
  BY DEF CliTypeOK, Forward
<1>2. Head(stdout) \in L /\ Tail(stdout) \in Seq(L) /\ Len(Tail(stdout)) = Len(stdout) - 1
  BY <1>1, HeadTailProperties
<1>3. Append(channel, Head(stdout)) \in Seq(L) /\ Len(Append(channel, Head(stdout))) = Len(channel) + 1
  BY <1>1, <1>2, AppendProperties
<1> HIDE DEF L
<1>4. Len(stdout') <= PipeCap /\ Len(channel') <= ChannelCap
  BY <1>1, <1>2, <1>3, CapsAreNat DEF Forward, CliTypeOK
<1>5. stdout' \in Seq(L) /\ channel' \in Seq(L)
  BY <1>2, <1>3 DEF Forward
<1>. QED
  BY <1>4, <1>5 DEF Forward, CliTypeOK, runVars, L

LEMMA EnvironmentType ==
  ASSUME CliTypeOK, Environment
  PROVE  CliTypeOK'
<1>1. CASE ReadPrompt \/ FillStderr \/ CloseStdout
  BY <1>1 DEF Environment, ReadPrompt, FillStderr, CloseStdout, CliTypeOK, lines, runVars
<1>2. ASSUME NEW p \in Process, Fork(p) PROVE CliTypeOK'
  BY <1>2 DEF Environment, Fork, CliTypeOK, lines, runVars
<1>3. ASSUME NEW p \in Process, Exit(p) PROVE CliTypeOK'
  BY <1>3, EndType DEF Environment, Exit, CliTypeOK, runVars
<1>. QED
  BY <1>1, <1>2, <1>3, WriteType DEF Environment

\* and what the calling thread does.
LEMMA SuperviseType ==
  ASSUME CliTypeOK, SuperviseSteps
  PROVE  CliTypeOK'
<1>1. ASSUME NEW o \in {"timeout", "error"}, Fail(o) PROVE CliTypeOK'
  <2>1. exit' \in {"none", "ok", "bad"}
    BY <1>1 DEF Fail, TerminateGroup, CliTypeOK
  <2>. QED
    BY <1>1, <2>1, EndType DEF Fail, TerminateGroup
<1>2. CASE WritePrompt
  BY <1>1, <1>2 DEF WritePrompt, CliTypeOK, lines
<1>3. CASE Waited(seen)
  BY <1>1, <1>3 DEF Waited, CliTypeOK, transport, lines
<1>4. CASE Disconnected \/ JoinReader
  BY <1>4 DEF Disconnected, JoinReader, CliTypeOK, transport, lines
<1>. QED
  BY <1>1, <1>2, <1>3, <1>4, ForwardType DEF SuperviseSteps, TimesOut

\* The rest of the state.
RowStatus == {"running", "succeeded", "failed"}
BindingState == {"none", "running", "completed", "failed", "interrupted"}
DriverTypeOK ==
  /\ client \in Clients
  /\ me \in {"idle", "ready", "turn", "finish", "check", "settle"}
  /\ rows \in Seq(RowStatus) /\ Len(rows) <= MaxAttempts
  /\ binding \in [Attempts -> [thread : Thread, state : BindingState]]
  /\ logged \in [Attempts -> SUBSET Event]
  /\ {asked, sid, memory, threads} \subseteq Thread
  /\ seen \in BOOLEAN /\ todo \in Seq(Event) /\ final \in 0 .. MaxLines
  /\ turn \in 1 .. 2 /\ verdict \in {"none", "succeeded", "failed", "refused"}
  /\ starts \in 0 .. MaxAttempts /\ rounds \in 0 .. MaxRounds
  /\ mishaps \in 0 .. MaxMishaps

LEMMA TypeParts == TypeOK <=> CliTypeOK /\ DriverTypeOK
BY DEF TypeOK, DriverTypeOK, RowStatus, BindingState

\* The attempt at work is one there can be.
LEMMA NowType ==
  ASSUME DriverTypeOK, rows # <<>>
  PROVE  /\ Now \in Attempts /\ Now \in 1 .. Len(rows) /\ Len(rows) \in Nat
         /\ \A s \in RowStatus : /\ [rows EXCEPT ![Now] = s] \in Seq(RowStatus)
                                 /\ Len([rows EXCEPT ![Now] = s]) = Len(rows)
<1>1. Len(rows) \in Nat /\ Len(rows) # 0 /\ rows \in Seq(RowStatus)
  BY EmptySeq DEF DriverTypeOK
<1>2. Now \in Attempts /\ Now \in 1 .. Len(rows)
  BY <1>1, MishapsAreBounded DEF Now, Attempts, DriverTypeOK
<1>3. ASSUME NEW s \in RowStatus
      PROVE  /\ [rows EXCEPT ![Now] = s] \in Seq(RowStatus)
             /\ Len([rows EXCEPT ![Now] = s]) = Len(rows)
  BY <1>1, <1>2, ExceptSeq
<1>. QED
  BY <1>1, <1>2, <1>3

\* The events a line becomes.
LEMMA EventShapes ==
  ASSUME NEW k \in LineKind
  PROVE  EventsOf(k) \in {<<>>, <<"bind">>, <<"item">>, <<"quoted">>, <<"bind", "session">>,
                         <<"bind", "session", "item">>}
<1>1. CASE client = "lead"
  BY <1>1 DEF EventsOf
<1>2. CASE client # "lead"
  BY <1>2 DEF EventsOf, LineKind
<1>. QED
  BY <1>1, <1>2

LEMMA EventsType ==
  ASSUME NEW k \in LineKind
  PROVE  EventsOf(k) \in Seq(Event)
<1>1. /\ <<>> \in Seq(Event) /\ <<"bind">> \in Seq(Event) /\ <<"item">> \in Seq(Event)
      /\ <<"quoted">> \in Seq(Event) /\ <<"bind", "session">> \in Seq(Event)
      /\ <<"bind", "session", "item">> \in Seq(Event)
  BY DEF Event
<1>. QED
  BY <1>1, EventShapes

\* Steps that only move along, with the supervision or without it.
LEMMA DriverFrame ==
  ASSUME DriverTypeOK, UNCHANGED <<durable, invocation, leadVars, counters, client>>,
         me' \in {"idle", "ready", "turn", "finish", "check", "settle"},
         verdict' \in {"none", "succeeded", "failed", "refused"}
  PROVE  DriverTypeOK'
BY DEF DriverTypeOK, durable, invocation, leadVars, counters

LEMMA CliFrame ==
  ASSUME CliTypeOK, UNCHANGED <<transport, runVars>>
  PROVE  CliTypeOK'
BY DEF CliTypeOK, transport, runVars, lines

LEMMA FailType ==
  ASSUME CliTypeOK, Fail("error")
  PROVE  CliTypeOK'
<1>1. exit' \in {"none", "ok", "bad"}
  BY DEF Fail, TerminateGroup, CliTypeOK
<1>. QED
  BY <1>1, EndType DEF Fail, TerminateGroup

LEMMA CloseType ==
  ASSUME Close, sup' = "off", outcome' \in {"none", "ok", "timeout", "error"}
  PROVE  CliTypeOK'
<1>1. <<>> \in Seq(LineKind \X (0 .. MaxLines)) /\ Len(<<>>) = 0
  OBVIOUS
<1>2. /\ stdout' \in Seq(LineKind \X (0 .. MaxLines)) /\ Len(stdout') <= PipeCap
      /\ channel' \in Seq(LineKind \X (0 .. MaxLines)) /\ Len(channel') <= ChannelCap
  BY <1>1, CapsAreNat DEF Close
<1>3. written' \in 0 .. MaxLines /\ said' \in 0 .. written'
  BY CapsAreNat DEF Close
<1>. QED
  BY <1>2, <1>3 DEF Close, CliTypeOK

\* Every step is well typed.
LEMMA TypeStep ==
  ASSUME TypeOK, Flow, [Next]_vars
  PROVE  TypeOK'
<1>a. CliTypeOK /\ DriverTypeOK
  BY TypeParts
<1>b. /\ MaxAttempts \in Nat /\ MaxRounds \in Nat /\ MaxThreads \in Nat /\ MaxMishaps \in Nat
      /\ PipeCap \in Nat /\ ChannelCap \in Nat /\ MaxLines \in Nat
  BY MishapsAreBounded, CapsAreNat
<1> SUFFICES CliTypeOK' /\ DriverTypeOK'
  BY DEF TypeOK, DriverTypeOK, RowStatus, BindingState
<1>1. CASE BeginAttempt
  <2>1. Append(rows, "running") \in Seq(RowStatus) /\ Len(Append(rows, "running")) = Len(rows) + 1
    BY <1>a DEF DriverTypeOK, RowStatus
  <2>2. rows' \in Seq(RowStatus) /\ Len(rows') <= MaxAttempts
    <3>1. <<"running">> \in Seq(RowStatus) /\ Len(<<"running">>) = 1
      BY DEF RowStatus
    <3>2. starts \in Nat /\ starts < MaxAttempts /\ Len(rows) <= starts /\ Len(rows) \in Nat
      BY <1>1, <1>a, <1>b DEF BeginAttempt, DriverTypeOK, Flow
    <3>3. rows' \in {<<"running">>, rows, Append(rows, "running")}
      BY <1>1 DEF BeginAttempt
    <3>4. Len(rows) + 1 <= MaxAttempts /\ 1 <= MaxAttempts
      BY <1>b, <3>2
    <3>5. CASE rows' = <<"running">>
      BY <3>1, <3>4, <3>5
    <3>6. CASE rows' = rows \/ rows' = Append(rows, "running")
      BY <1>a, <2>1, <3>4, <3>6 DEF DriverTypeOK
    <3>. QED
      BY <3>3, <3>5, <3>6
  <2>3. starts' \in 0 .. MaxAttempts
    BY <1>1, <1>a, <1>b DEF BeginAttempt, DriverTypeOK
  <2>4. DriverTypeOK'
    BY <1>1, <1>a, <1>b, <2>2, <2>3 DEF BeginAttempt, DriverTypeOK, invocation, Thread, NoThread
  <2>. QED
    BY <1>1, <1>a, <2>4, CliFrame DEF BeginAttempt
<1>2. CASE Refuse \/ CheckResult
  BY <1>2, <1>a, CliFrame, DriverFrame DEF Refuse, CheckResult
<1>3. CASE StartTurn
  <2>1. CliTypeOK'
    BY <1>3, <1>a, <1>b DEF StartTurn, Spawn, CliTypeOK, lines, Process
  <2>2. Restored \in Thread
    <3>1. CASE memory = NoThread \/ client # "lead"
      <4>1. rows # <<>>
        BY <1>3 DEF StartTurn, Flow
      <4>. QED
        BY <1>a, <3>1, <4>1, NowType DEF Restored, DriverTypeOK
    <3>. QED
      BY <1>a, <3>1 DEF Restored, DriverTypeOK
  <2>3. {asked', sid', threads'} \subseteq Thread
    BY <1>3, <1>a, <1>b, <2>2 DEF StartTurn, Invocation, DriverTypeOK, Thread
  <2>. QED
    BY <1>3, <1>a, <2>1, <2>3 DEF StartTurn, DriverTypeOK, durable, leadVars
<1>4. CASE StartFails
  BY <1>4, <1>a, <1>b, CliFrame DEF StartFails, Mishap, DriverTypeOK, durable, invocation, leadVars
<1>5. CASE Supervise
  <2>1. CliTypeOK'
    BY <1>5, <1>a, SuperviseType DEF Supervise, SuperviseSteps
  <2>. QED
    BY <1>5, <1>a, <2>1, DriverFrame DEF Supervise, DriverTypeOK
<1>6. CASE TakeLine
  <2> DEFINE line == Head(channel)
  <2>1. CASE line[1] = "error"
    BY <1>6, <1>a, <2>1, FailType, DriverFrame DEF TakeLine, DriverTypeOK
  <2>2. CASE line[1] # "error"
    <3>1. /\ line \in LineKind \X (0 .. MaxLines)
          /\ Tail(channel) \in Seq(LineKind \X (0 .. MaxLines))
          /\ Len(Tail(channel)) = Len(channel) - 1
      BY <1>6, <1>a, HeadTailProperties DEF TakeLine, CliTypeOK
    <3>2. line[1] \in LineKind /\ line[2] \in 0 .. MaxLines
      BY <3>1
    <3>3. CliTypeOK'
      <4>1. channel' = Tail(channel) /\ sup' \in {"loop", "emit"}
            /\ UNCHANGED <<outcome, alive, exit, outHeld, errHeld, errFull, prompt, stdout, written, said>>
        BY <1>6, <2>2 DEF TakeLine
      <4>2. Len(channel) \in Nat /\ Len(channel) <= ChannelCap
        BY <1>a DEF CliTypeOK
      <4>. QED
        BY <1>a, <1>b, <3>1, <4>1, <4>2 DEF CliTypeOK
    <3>4. todo' \in Seq(Event)
      BY <1>6, <2>2, <3>2, EventsType DEF TakeLine
    <3>5. final' \in 0 .. MaxLines /\ seen' \in BOOLEAN
      BY <1>6, <1>a, <2>2, <3>2 DEF TakeLine, DriverTypeOK
    <3>6. UNCHANGED <<asked, sid, durable, leadVars, counters, client, me, verdict>>
      BY <1>6, <2>2 DEF TakeLine
    <3>7. DriverTypeOK'
      BY <1>a, <3>4, <3>5, <3>6 DEF DriverTypeOK, durable, leadVars, counters
    <3>. QED
      BY <3>3, <3>7
  <2>. QED
    BY <2>1, <2>2
<1>7. CASE EmitEvent
  <2>1. CliTypeOK'
    BY <1>7, <1>a DEF EmitEvent, CliTypeOK, transport, lines
  <2>2. rows # <<>> /\ todo \in Seq(Event)
    BY <1>7, <1>a DEF EmitEvent, Flow, DriverTypeOK
  <2>3. Now \in Attempts
    BY <1>a, <2>2, NowType
  <2>4. binding' \in [Attempts -> [thread : Thread, state : BindingState]]
    <3>1. binding' = binding \/ binding' = [binding EXCEPT ![Now] = [thread |-> sid, state |-> "running"]]
      BY <1>7 DEF EmitEvent, PersistBinding, Bound
    <3>. QED
      BY <1>a, <2>3, <3>1 DEF DriverTypeOK, BindingState
  <2>6. todo # <<>>
    BY <1>7 DEF EmitEvent, Flow
  <2>7. CliTypeOK' /\ DriverTypeOK'
    <3>1. Head(todo) \in Event /\ Tail(todo) \in Seq(Event)
      BY <2>2, <2>6, HeadTailProperties
    <3>2. logged' \in [Attempts -> SUBSET Event]
      BY <1>7, <1>a, <2>3, <3>1 DEF EmitEvent, DriverTypeOK
    <3>. QED
      BY <1>7, <1>a, <2>1, <2>4, <3>1, <3>2 DEF EmitEvent, DriverTypeOK, leadVars, counters
  <2>. QED
    BY <2>7
<1>8. CASE EmitFails
  <2>1. mishaps' \in 0 .. MaxMishaps
    BY <1>8, <1>a, <1>b DEF EmitFails, Mishap, DriverTypeOK
  <2>. QED
    BY <1>8, <1>a, <2>1, FailType DEF EmitFails, DriverTypeOK, durable, invocation, leadVars
<1>9. CASE Return
  <2>1. CliTypeOK'
    BY <1>9, <1>a, CloseType DEF Return, CliTypeOK
  <2>2. todo' \in Seq(Event) /\ final' \in 0 .. MaxLines
    BY <1>9, <1>b DEF Return
  <2>3. DriverTypeOK'
    BY <1>9, <1>a, <2>2 DEF Return, DriverTypeOK, durable, leadVars, counters
  <2>. QED
    BY <2>1, <2>3
<1>10. CASE FinishDriver
  <2>1. Now \in Attempts
    BY <1>10, <1>a, NowType DEF FinishDriver, Flow
  <2>2. binding' \in [Attempts -> [thread : Thread, state : BindingState]]
    BY <1>10, <1>a, <2>1 DEF FinishDriver, Bound, DriverTypeOK, BindingState
  <2>3. mishaps' \in 0 .. MaxMishaps
    BY <1>10, <1>a, <1>b DEF FinishDriver, Mishap, DriverTypeOK
  <2>. QED
    BY <1>10, <1>a, <2>2, <2>3, CliFrame DEF FinishDriver, DriverTypeOK, invocation, leadVars
<1>11. CASE FinishLead
  <2>1. {memory', turn'} \subseteq {memory, sid, turn, 1, 2} /\ memory' \in {memory, sid}
        /\ turn' \in 1 .. 2 /\ rounds' \in 0 .. MaxRounds
    BY <1>11, <1>a, <1>b DEF FinishLead, leadVars, DriverTypeOK
  <2>. QED
    BY <1>11, <1>a, <2>1, CliFrame DEF FinishLead, DriverTypeOK, durable, invocation, counters, leadVars
<1>12. CASE Settle
  BY <1>12, <1>a, NowType, CliFrame
     DEF Settle, Flow, DriverTypeOK, RowStatus, invocation, leadVars, counters
<1>13. CASE Kill
  <2>1. CliTypeOK'
    BY <1>13, CloseType DEF Kill
  <2>2. todo' \in Seq(Event) /\ final' \in 0 .. MaxLines /\ NoThread \in Thread
    BY <1>13, <1>b DEF Kill, Thread, NoThread
  <2>3. mishaps' \in 0 .. MaxMishaps /\ rounds' \in 0 .. MaxRounds
    BY <1>13, <1>a, <1>b DEF Kill, Mishap, DriverTypeOK
  <2>4. {asked', sid', memory', threads'} \subseteq Thread
    BY <1>13, <1>a, <2>2 DEF Kill, DriverTypeOK
  <2>5. /\ me' = "idle" /\ verdict' = "none" /\ seen' = FALSE /\ turn' = 1
        /\ UNCHANGED <<client, rows, binding, logged, starts>>
    BY <1>13 DEF Kill, durable
  <2>6. DriverTypeOK'
    <3>1. /\ me' \in {"idle", "ready", "turn", "finish", "check", "settle"}
          /\ verdict' \in {"none", "succeeded", "failed", "refused"}
          /\ turn' \in 1 .. 2
      BY <2>5
    <3>3. seen' \in BOOLEAN
      BY <2>5
    <3>2. /\ client' \in Clients /\ rows' \in Seq(RowStatus) /\ Len(rows') <= MaxAttempts
          /\ binding' \in [Attempts -> [thread : Thread, state : BindingState]]
          /\ logged' \in [Attempts -> SUBSET Event] /\ starts' \in 0 .. MaxAttempts
      BY <1>a, <2>5 DEF DriverTypeOK
    <3>. QED
      BY <2>2, <2>3, <2>4, <3>1, <3>2, <3>3 DEF DriverTypeOK
  <2>. QED
    BY <2>1, <2>6
<1>14. CASE Recover
  <2>1. Now \in Attempts
    BY <1>14, <1>a, NowType DEF Recover
  <2>2. binding' \in [Attempts -> [thread : Thread, state : BindingState]]
    BY <1>14, <1>a, <2>1 DEF Recover, DriverTypeOK, BindingState
  <2>. QED
    BY <1>14, <1>a, <2>2, NowType, CliFrame
       DEF Recover, DriverTypeOK, RowStatus, invocation, leadVars, counters
<1>15. CASE Peer
  BY <1>15, <1>a, EnvironmentType, DriverFrame DEF Peer, DriverTypeOK
<1>16. CASE UNCHANGED vars
  BY <1>16, <1>a, CliFrame, DriverFrame DEF vars, DriverTypeOK
<1>. QED
  BY <1>1, <1>2, <1>3, <1>4, <1>5, <1>6, <1>7, <1>8, <1>9, <1>10, <1>11, <1>12, <1>13, <1>14, <1>15,
     <1>16 DEF Next, Client

-----------------------------------------------------------------------------
(* Places and processes.                                                   *)

\* Places are kept by every step.
LEMMA FlowStep ==
  ASSUME TypeOK, Flow, [Next]_vars
  PROVE  Flow'
<1>a. rows \in Seq(RowStatus) /\ Len(rows) \in Nat /\ starts \in Nat
  BY MishapsAreBounded DEF TypeOK, RowStatus
<1>1. CASE BeginAttempt
  <2>1. Append(rows, "running") # <<>> /\ Len(Append(rows, "running")) = Len(rows) + 1
        /\ Append(rows, "running")[Len(rows) + 1] = "running"
    BY <1>a DEF RowStatus
  <2>2. CASE client = "lead"
    <3>1. rows' # <<>> /\ (rows' = rows \/ Len(rows') = 1)
      BY <1>1, <1>a, <2>2 DEF BeginAttempt
    <3>2. Len(rows') <= starts'
      <4>1. starts' = starts + 1
        BY <1>1 DEF BeginAttempt
      <4>2. Len(rows) <= starts
        BY DEF Flow
      <4>3. CASE rows' = rows
        BY <1>a, <4>1, <4>2, <4>3
      <4>4. CASE Len(rows') = 1
        BY <1>a, <4>1, <4>4
      <4>. QED
        BY <3>1, <4>3, <4>4
    <3>3. me' = "ready" /\ client' = "lead" /\ UNCHANGED <<transport, runVars, invocation>> /\ sup = "off"
      BY <1>1, <2>2 DEF BeginAttempt, Flow
    <3>. QED
      BY <3>1, <3>2, <3>3 DEF Flow, Closed, transport, lines, runVars, invocation
  <2>3. CASE client # "lead"
    BY <1>1, <1>a, <2>1, <2>3
       DEF BeginAttempt, Flow, Now, Closed, transport, lines, runVars, invocation
  <2>. QED
    BY <2>2, <2>3
<1>2. CASE Refuse \/ StartFails \/ CheckResult
  BY <1>2 DEF Refuse, StartFails, CheckResult, Flow, Now, Closed, transport, lines, runVars,
              invocation, durable, leadVars, counters
<1>3. CASE StartTurn
  BY <1>3 DEF StartTurn, Spawn, Flow, Now, durable, leadVars
<1>4. CASE Supervise
  <2>1. /\ sup' # "off" <=> sup # "off"
        /\ sup' \in {"write", "loop", "emit", "wait"} => outcome' = "none"
        /\ sup' = "emit" => sup = "emit"
        /\ sup' = "off" => UNCHANGED <<transport, runVars>>
    BY <1>4 DEF Supervise, Forward, WritePrompt, TimesOut, Disconnected, Waited, JoinReader, Fail,
                runVars, transport, lines, Flow, Closed
  <2>. QED
    BY <1>4, <2>1 DEF Supervise, Flow, Now, Closed, transport, lines, runVars, invocation, durable,
                      leadVars, counters
<1>5. CASE TakeLine
  <2>1. sup = "loop" /\ UNCHANGED <<me, client, rows, starts>>
    BY <1>5 DEF TakeLine, durable, counters
  <2>2. \/ sup' = "join"
        \/ sup' = "loop" /\ outcome' = outcome
        \/ sup' = "emit" /\ outcome' = outcome /\ todo' # <<>>
    BY <1>5 DEF TakeLine, Fail
  <2>. QED
    BY <2>1, <2>2 DEF Flow, Now
<1>6. CASE EmitEvent
  <2>1. /\ sup = "emit" /\ UNCHANGED <<me, client, rows, starts, outcome>>
        /\ todo' = Tail(todo) /\ sup' = IF Tail(todo) = <<>> THEN "loop" ELSE "emit"
    BY <1>6 DEF EmitEvent, counters
  <2>. QED
    BY <2>1 DEF Flow, Now
<1>7. CASE EmitFails
  BY <1>7 DEF EmitFails, Fail, Flow, Now, durable
<1>8. CASE Return
  BY <1>8 DEF Return, Close, Closed, Flow, Now, durable, counters
<1>9. CASE FinishDriver \/ FinishLead
  <2>1. /\ me = "finish" /\ me' \in {"check", "settle", "ready"}
        /\ UNCHANGED <<transport, runVars, rows, invocation, starts, client>>
    BY <1>9 DEF FinishDriver, FinishLead, durable, counters
  <2>. QED
    BY <2>1 DEF Flow, Now, Closed, transport, lines, runVars, invocation
<1>10. CASE Settle
  <2>1. Len(rows') = Len(rows)
    <3>1. rows' = [rows EXCEPT ![Now] = rows'[Now]] \/ DOMAIN rows' = DOMAIN rows
      BY <1>10 DEF Settle
    <3>2. rows # <<>>
      BY <1>10 DEF Settle, Flow
    <3>. QED
      BY <1>10, <3>2, TypeParts, NowType DEF Settle, RowStatus
  <2>. QED
    BY <1>10, <2>1 DEF Settle, Flow, Closed, transport, lines, runVars, invocation, counters
<1>11. CASE Kill
  BY <1>11 DEF Kill, Close, Closed, Flow, durable
<1>12. CASE Recover
  <2>1. Len(rows') = Len(rows)
    BY <1>12, TypeParts, NowType DEF Recover, RowStatus
  <2>. QED
    BY <1>12, <2>1 DEF Recover, Flow, Closed, transport, lines, runVars, invocation, counters
<1>13. CASE Peer
  BY <1>13 DEF Peer, Environment, Flow, Now, runVars, invocation, durable, counters, leadVars
<1>14. CASE UNCHANGED vars
  BY <1>14 DEF vars, Flow, Now, Closed, transport, lines, runVars, invocation, durable, counters
<1>. QED
  BY <1>1, <1>2, <1>3, <1>4, <1>5, <1>6, <1>7, <1>8, <1>9, <1>10, <1>11, <1>12, <1>13, <1>14
     DEF Next, Client

\* A failure kills the group, and a group that is gone stays gone.
LEMMA FailSupervised ==
  ASSUME NEW o \in {"timeout", "error"}, Fail(o)
  PROVE  Supervised'
BY DEF Fail, TerminateGroup, End, ProcessGroup, Supervised, FailureLeavesNoGroup

\* What is known of processes and output is kept by every step.
LEMMA SupervisedStep ==
  ASSUME TypeOK, Flow, Supervised, [Next]_vars
  PROVE  Supervised'
<1> USE DEF Supervised, FailureLeavesNoGroup
<1>1. CASE BeginAttempt \/ Refuse \/ StartFails \/ CheckResult \/ FinishDriver \/ FinishLead
           \/ Settle \/ Recover
  <2>1. UNCHANGED <<transport, runVars, invocation>>
    BY <1>1 DEF BeginAttempt, Refuse, StartFails, CheckResult, FinishDriver, FinishLead, Settle, Recover
  <2>. QED
    BY <2>1 DEF transport, lines, runVars, invocation
<1>2. CASE StartTurn
  BY <1>2 DEF StartTurn, Spawn, Flow, Closed, lines
<1>3. CASE Supervise
  <2>1. CASE Forward
    BY <1>3, <2>1 DEF Supervise, Forward, runVars, invocation
  <2>2. CASE WritePrompt
    BY <1>3, <2>2, FailSupervised DEF Supervise, WritePrompt, invocation, lines, Flow
  <2>3. CASE TimesOut
    BY <2>3, FailSupervised DEF TimesOut
  <2>4. CASE Disconnected
    BY <1>3, <2>4 DEF Supervise, Disconnected, ReaderDone, transport, lines, Flow
  <2>5. CASE Waited(seen)
    BY <1>3, <2>5, FailSupervised DEF Supervise, Waited, transport, lines, invocation
  <2>6. CASE JoinReader
    BY <1>3, <2>6 DEF Supervise, JoinReader, transport, lines, invocation
  <2>. QED
    BY <1>3, <2>1, <2>2, <2>3, <2>4, <2>5, <2>6 DEF Supervise
<1>4. CASE TakeLine
  <2>1. CASE Head(channel)[1] = "error"
    BY <1>4, <2>1, FailSupervised DEF TakeLine
  <2>2. CASE Head(channel)[1] # "error"
    <3>1. sup = "loop" /\ sup' \in {"loop", "emit"} /\ UNCHANGED <<outcome, exit, alive>>
      BY <1>4, <2>2 DEF TakeLine
    <3>. QED
      BY <3>1 DEF Flow
  <2>. QED
    BY <2>1, <2>2
<1>5. CASE EmitEvent
  BY <1>5 DEF EmitEvent, transport, lines, Flow
<1>6. CASE EmitFails
  BY <1>6, FailSupervised DEF EmitFails
<1>7. CASE Return \/ Kill
  BY <1>7 DEF Return, Kill, Close
<1>8. CASE Peer
  <2>1. UNCHANGED <<sup, outcome, seen>> /\ sup # "off"
    BY <1>8 DEF Peer, Environment, runVars, invocation
  <2>2. ASSUME NEW k \in LineKind, Write(k) PROVE Supervised'
    BY <2>1, <2>2 DEF Write
  <2>3. CASE ReadPrompt \/ FillStderr \/ CloseStdout
    BY <2>1, <2>3 DEF ReadPrompt, FillStderr, CloseStdout, lines
  <2>4. ASSUME NEW p \in Process, Fork(p) PROVE Supervised'
    BY <2>1, <2>4 DEF Fork, lines, ProcessGroup
  <2>5. ASSUME NEW p \in Process, Exit(p) PROVE Supervised'
    BY <2>1, <2>5 DEF Exit, End, lines
  <2>. QED
    BY <1>8, <2>2, <2>3, <2>4, <2>5 DEF Peer, Environment
<1>9. CASE UNCHANGED vars
  BY <1>9 DEF vars, transport, lines, runVars, invocation
<1>. QED
  BY <1>1, <1>2, <1>3, <1>4, <1>5, <1>6, <1>7, <1>8, <1>9 DEF Next, Client

-----------------------------------------------------------------------------
(* The lines on their way.                                                 *)

\* One more at the end, and one less at the front.
LEMMA CountedAppend ==
  ASSUME NEW L, NEW q \in Seq(L), NEW from, NEW to, Counted(q, from, to), NEW line \in L,
         line[2] = to + (IF IsMessage(line) THEN 1 ELSE 0)
  PROVE  Counted(Append(q, line), from, line[2])
<1> DEFINE r == Append(q, line)
<1>1. /\ r \in Seq(L) /\ r # <<>> /\ Len(r) = Len(q) + 1 /\ Len(q) \in Nat
      /\ r[Len(q) + 1] = line /\ \A i \in 1 .. Len(q) : r[i] = q[i]
  BY AppendProperties
<1>2. q = <<>> <=> Len(q) = 0
  BY EmptySeq
<1> HIDE DEF r
<1>3. line[2] = r[Len(r)][2]
  BY <1>1
<1>4. ASSUME NEW i \in 1 .. Len(r)
      PROVE  r[i][2] = (IF i = 1 THEN from ELSE r[i - 1][2]) + (IF IsMessage(r[i]) THEN 1 ELSE 0)
  <2>1. CASE i \in 1 .. Len(q)
    <3>1. r[i] = q[i] /\ (i # 1 => i - 1 \in 1 .. Len(q) /\ r[i - 1] = q[i - 1])
      BY <1>1, <2>1
    <3>. QED
      BY <2>1, <3>1 DEF Counted
  <2>2. CASE i = Len(q) + 1
    <3>1. r[i] = line
      BY <1>1, <2>2
    <3>2. to = IF i = 1 THEN from ELSE r[i - 1][2]
      <4>1. CASE Len(q) = 0
        BY <1>2, <2>2, <4>1 DEF Counted
      <4>2. CASE Len(q) # 0
        <5>1. i # 1 /\ i - 1 = Len(q) /\ r[i - 1] = q[Len(q)] /\ q # <<>>
          BY <1>1, <1>2, <2>2, <4>2
        <5>. QED
          BY <5>1 DEF Counted
      <4>. QED
        BY <4>1, <4>2
    <3>. QED
      BY <3>1, <3>2
  <2>. QED
    BY <1>1, <1>4, <2>1, <2>2
<1>. QED
  BY <1>1, <1>3, <1>4 DEF Counted, r

LEMMA CountedTail ==
  ASSUME NEW L, NEW q \in Seq(L), q # <<>>, NEW from, NEW to, Counted(q, from, to)
  PROVE  /\ Head(q)[2] = from + (IF IsMessage(Head(q)) THEN 1 ELSE 0)
         /\ Counted(Tail(q), Head(q)[2], to)
<1> DEFINE r == Tail(q)
<1>1. /\ r \in Seq(L) /\ Len(r) = Len(q) - 1 /\ Len(q) \in Nat \ {0} /\ Head(q) = q[1]
      /\ \A i \in 1 .. Len(r) : r[i] = q[i + 1]
  BY HeadTailProperties, EmptySeq
<1>2. r = <<>> <=> Len(r) = 0
  BY <1>1, EmptySeq
<1> HIDE DEF r
<1>3. Head(q)[2] = from + (IF IsMessage(Head(q)) THEN 1 ELSE 0)
  BY <1>1 DEF Counted
<1>4. to = IF r = <<>> THEN Head(q)[2] ELSE r[Len(r)][2]
  <2>1. to = q[Len(q)][2]
    BY DEF Counted
  <2>2. CASE Len(r) = 0
    <3>1. Len(q) = 1 /\ r = <<>>
      BY <1>1, <1>2, <2>2
    <3>. QED
      BY <1>1, <2>1, <3>1
  <2>3. CASE Len(r) # 0
    BY <1>1, <1>2, <2>1, <2>3
  <2>. QED
    BY <2>2, <2>3
<1>5. ASSUME NEW i \in 1 .. Len(r)
      PROVE  r[i][2] = (IF i = 1 THEN Head(q)[2] ELSE r[i - 1][2]) + (IF IsMessage(r[i]) THEN 1 ELSE 0)
  <2>1. r[i] = q[i + 1] /\ i + 1 \in 1 .. Len(q) /\ i + 1 # 1 /\ (i + 1) - 1 = i
    BY <1>1
  <2>2. q[i][2] = IF i = 1 THEN Head(q)[2] ELSE r[i - 1][2]
    <3>1. i # 1 => i - 1 \in 1 .. Len(r) /\ (i - 1) + 1 = i
      BY <1>1
    <3>. QED
      BY <1>1, <3>1
  <2>3. q[i + 1][2] = q[i][2] + (IF IsMessage(q[i + 1]) THEN 1 ELSE 0)
    BY <2>1 DEF Counted
  <2>. QED
    BY <2>1, <2>2, <2>3
<1>. QED
  BY <1>3, <1>4, <1>5 DEF Counted, r

\* Whatever is written, forwarded and taken, the messages can still be counted.
LEMMA UnreadStep ==
  ASSUME TypeOK, Flow, Unread, [Next]_vars
  PROVE  Unread'
<1> DEFINE L == LineKind \X (0 .. MaxLines)
           Bad == {"timeout", "error"}
<1>a. channel \in Seq(L) /\ stdout \in Seq(L) /\ said \in Nat /\ final \in Nat
  BY CapsAreNat DEF TypeOK, CliTypeOK
<1>b. \A n \in Nat : Counted(<<>>, n, n)
  BY DEF Counted
<1> HIDE DEF L
<1>c. ASSUME channel' = <<>>, stdout' = <<>>, final' = 0, said' = 0 PROVE Unread'
  BY <1>b, <1>c DEF Unread
<1>d. ASSUME UNCHANGED <<channel, stdout, final, said>>, outcome' \notin Bad => outcome \notin Bad
      PROVE  Unread'
  BY <1>d DEF Unread, Counted
<1>1. CASE BeginAttempt \/ Refuse \/ StartFails \/ CheckResult \/ FinishDriver \/ FinishLead
           \/ Settle \/ Recover \/ UNCHANGED vars
  <2>1. UNCHANGED <<transport, runVars, invocation>>
    BY <1>1 DEF BeginAttempt, Refuse, StartFails, CheckResult, FinishDriver, FinishLead, Settle, Recover, vars
  <2>. QED
    BY <1>d, <2>1 DEF transport, lines, runVars, invocation
<1>2. CASE StartTurn
  <2>1. Closed /\ final = 0 /\ UNCHANGED <<lines, final>>
    BY <1>2 DEF StartTurn, Spawn, Flow
  <2>. QED
    BY <1>c, <2>1 DEF Closed, lines
<1>3. CASE Supervise
  <2>1. CASE Forward
    <3>1. /\ UNCHANGED <<outcome, final, said>>
          /\ stdout # <<>> /\ stdout' = Tail(stdout) /\ channel' = Append(channel, Head(stdout))
      BY <1>3, <2>1 DEF Supervise, Forward, runVars, invocation
    <3>2. CASE outcome \notin Bad
      <4>1. PICK mid \in Nat : Counted(channel, final, mid) /\ Counted(stdout, mid, said)
        BY <3>2 DEF Unread
      <4>2. /\ Head(stdout)[2] = mid + (IF IsMessage(Head(stdout)) THEN 1 ELSE 0)
            /\ Counted(Tail(stdout), Head(stdout)[2], said)
        BY <1>a, <3>1, <4>1, CountedTail
      <4>3. Head(stdout) \in L
        BY <1>a, <3>1
      <4>4. Counted(Append(channel, Head(stdout)), final, Head(stdout)[2])
        BY <1>a, <4>1, <4>2, <4>3, CountedAppend
      <4>5. Head(stdout)[2] \in Nat
        BY <4>2
      <4>6. Counted(channel', final', Head(stdout)[2]) /\ Counted(stdout', Head(stdout)[2], said')
        BY <3>1, <4>2, <4>4
      <4>. QED
        BY <4>5, <4>6 DEF Unread, Counted
    <3>. QED
      BY <3>1, <3>2 DEF Unread
  <2>2. ASSUME NEW o \in Bad, Fail(o) PROVE Unread'
    BY <2>2 DEF Fail, Unread
  <2>3. CASE WritePrompt \/ TimesOut \/ Disconnected \/ Waited(seen) \/ JoinReader
    <3>1. (\E o \in Bad : Fail(o)) \/
          (UNCHANGED lines /\ UNCHANGED invocation /\ (outcome' \in Bad \/ outcome \notin Bad))
      BY <1>3, <2>3 DEF Supervise, WritePrompt, TimesOut, Disconnected, Waited, JoinReader, transport, Flow
    <3>. QED
      BY <1>d, <2>2, <3>1 DEF lines, invocation
  <2>. QED
    BY <1>3, <2>1, <2>3 DEF Supervise
<1>4. CASE TakeLine
  <2>1. CASE Head(channel)[1] = "error"
    BY <1>4, <2>1 DEF TakeLine, Fail, Unread
  <2>2. CASE Head(channel)[1] # "error"
    <3> DEFINE line == Head(channel)
    <3>1. /\ channel # <<>> /\ channel' = Tail(channel) /\ UNCHANGED <<stdout, said, outcome>>
          /\ final' = IF IsMessage(line) THEN line[2] ELSE final
          /\ outcome = "none"
      BY <1>4, <2>2 DEF TakeLine, Flow, IsMessage
    <3>2. PICK mid \in Nat : Counted(channel, final, mid) /\ Counted(stdout, mid, said)
      BY <3>1 DEF Unread
    <3>3. line[2] = final + (IF IsMessage(line) THEN 1 ELSE 0) /\ Counted(Tail(channel), line[2], mid)
      BY <1>a, <3>1, <3>2, CountedTail
    <3>4. final' = line[2]
      BY <1>a, <3>1, <3>3
    <3>5. Counted(channel', final', mid) /\ Counted(stdout', mid, said')
      BY <3>1, <3>2, <3>3, <3>4
    <3>. QED
      BY <3>5 DEF Unread, Counted
  <2>. QED
    BY <2>1, <2>2
<1>5. CASE EmitEvent
  BY <1>5, <1>d DEF EmitEvent, transport, lines
<1>6. CASE EmitFails
  BY <1>6 DEF EmitFails, Fail, Unread
<1>7. CASE Return \/ Kill
  BY <1>7, <1>c DEF Return, Kill, Close
<1>8. CASE Peer
  <2>1. UNCHANGED <<outcome, final>>
    BY <1>8 DEF Peer, Environment, runVars, invocation
  <2>2. ASSUME NEW k \in LineKind, Write(k) PROVE Unread'
    <3>1. /\ UNCHANGED channel /\ stdout' = Append(stdout, <<k, said'>>)
          /\ said' = said + (IF k \in {"message", "quoted"} THEN 1 ELSE 0) /\ written' <= MaxLines
          /\ written' \in Nat /\ said' <= written'
      BY <1>a, <2>2, CapsAreNat DEF Write, TypeOK, CliTypeOK
    <3>2. CASE outcome \notin Bad
      <4>1. PICK mid \in Nat : Counted(channel, final, mid) /\ Counted(stdout, mid, said)
        BY <3>2 DEF Unread
      <4>2. <<k, said'>> \in L /\ <<k, said'>>[2] = said + (IF IsMessage(<<k, said'>>) THEN 1 ELSE 0)
        BY <1>a, <3>1, CapsAreNat DEF IsMessage, L
      <4>3. Counted(Append(stdout, <<k, said'>>), mid, said')
        BY <1>a, <4>1, <4>2, CountedAppend
      <4>4. Counted(channel', final', mid) /\ Counted(stdout', mid, said')
        BY <2>1, <3>1, <4>1, <4>3
      <4>. QED
        BY <4>4 DEF Unread, Counted
    <3>. QED
      BY <2>1, <3>2 DEF Unread
  <2>3. CASE ReadPrompt \/ FillStderr \/ CloseStdout \/ \E p \in Process : Fork(p) \/ Exit(p)
    BY <1>d, <2>1, <2>3 DEF ReadPrompt, FillStderr, CloseStdout, Fork, Exit, End, lines
  <2>. QED
    BY <1>8, <2>2, <2>3 DEF Peer, Environment
<1>. QED
  BY <1>1, <1>2, <1>3, <1>4, <1>5, <1>6, <1>7, <1>8 DEF Next, Client

-----------------------------------------------------------------------------
(* Sessions and bindings.                                                  *)

\* The event of a session never comes first.
LEMMA BindComesFirst ==
  ASSUME NEW k \in LineKind
  PROVE  \A i \in 1 .. Len(EventsOf(k)) :
           EventsOf(k)[i] = "session" => i # 1 /\ EventsOf(k)[i - 1] = "bind"
<1>1. EventsOf(k) \in {<<>>, <<"bind">>, <<"item">>, <<"quoted">>, <<"bind", "session">>,
                      <<"bind", "session", "item">>}
  BY EventShapes
<1>2. CASE EventsOf(k) = <<>> \/ EventsOf(k) = <<"bind">> \/ EventsOf(k) = <<"item">>
           \/ EventsOf(k) = <<"quoted">>
  BY <1>2
<1>3. CASE EventsOf(k) = <<"bind", "session">>
  BY <1>3
<1>4. CASE EventsOf(k) = <<"bind", "session", "item">>
  BY <1>4
<1>. QED
  BY <1>1, <1>2, <1>3, <1>4

\* What is bound stays bound.
KeptBound ==
  \A i \in Attempts : /\ binding[i].thread # NoThread => binding'[i].thread # NoThread
                      /\ binding'[i].thread = NoThread => binding'[i].state = "none"

\* A session is bound when its event is appended.
LEMMA SessionsStep ==
  ASSUME TypeOK, Flow, Sessions, [Next]_vars
  PROVE  Sessions'
<1>a. DriverTypeOK
  BY TypeParts
<1>b. /\ \A i \in Attempts : "session" \in logged[i] => binding[i].thread # NoThread
      /\ \A i \in Attempts : binding[i].thread = NoThread => binding[i].state = "none"
      /\ me \in {"turn", "finish"} => sid # NoThread
      /\ \A i \in 1 .. Len(todo) :
           todo[i] = "session" =>
             IF i = 1 THEN binding[Now].thread # NoThread ELSE todo[i - 1] = "bind"
  BY DEF Sessions, SessionIsBoundFirst
<1>c. ASSUME todo' = <<>>, binding' = binding, logged' = logged,
             me' \in {"turn", "finish"} => sid' # NoThread
      PROVE  Sessions'
  BY <1>b, <1>c DEF Sessions, SessionIsBoundFirst
<1>d. ASSUME UNCHANGED <<todo, logged, rows, binding, sid>>,
             me' \in {"turn", "finish"} => me \in {"turn", "finish"}
      PROVE  Sessions'
  BY <1>b, <1>d DEF Sessions, SessionIsBoundFirst, Now
<1>e. ASSUME todo = <<>>, todo' = <<>>, KeptBound, logged' = logged, me' \notin {"turn", "finish"}
      PROVE  Sessions'
  BY <1>b, <1>e DEF Sessions, SessionIsBoundFirst, KeptBound
<1>1. CASE BeginAttempt
  BY <1>1, <1>c DEF BeginAttempt, Flow, invocation
<1>2. CASE Refuse \/ StartFails \/ CheckResult \/ FinishLead \/ Supervise
  BY <1>2, <1>d DEF Refuse, StartFails, CheckResult, FinishLead, Supervise, durable, invocation
<1>3. CASE StartTurn
  <2>1. sid' # NoThread
    BY <1>3, <1>a, MishapsAreBounded DEF StartTurn, Invocation, DriverTypeOK, Thread, NoThread
  <2>2. todo' = <<>> /\ binding' = binding /\ logged' = logged
    BY <1>3 DEF StartTurn, Flow, durable
  <2>. QED
    BY <1>c, <2>1, <2>2
<1>4. CASE TakeLine
  <2>1. CASE Head(channel)[1] = "error"
    BY <1>4, <1>d, <2>1 DEF TakeLine, durable, invocation
  <2>2. CASE Head(channel)[1] # "error"
    <3>1. Head(channel)[1] \in LineKind
      BY <1>4 DEF TakeLine, TypeOK, CliTypeOK
    <3>2. /\ todo' = EventsOf(Head(channel)[1])
          /\ UNCHANGED <<logged, rows, binding, sid, me>>
      BY <1>4, <2>2 DEF TakeLine, durable
    <3>3. \A i \in 1 .. Len(todo') : todo'[i] = "session" => i # 1 /\ todo'[i - 1] = "bind"
      BY <3>1, <3>2, BindComesFirst
    <3>. QED
      BY <1>b, <3>2, <3>3 DEF Sessions, SessionIsBoundFirst
  <2>. QED
    BY <2>1, <2>2
<1>5. CASE EmitEvent
  <2>1. /\ me = "turn" /\ sid # NoThread /\ rows # <<>> /\ Now \in Attempts /\ todo # <<>>
        /\ UNCHANGED <<rows, sid, me>> /\ todo' = Tail(todo)
    BY <1>5, <1>a, <1>b, NowType DEF EmitEvent, Flow
  <2>2. /\ todo \in Seq(Event) /\ Len(todo) \in Nat \ {0} /\ Head(todo) = todo[1]
        /\ Len(Tail(todo)) = Len(todo) - 1 /\ \A i \in 1 .. Len(Tail(todo)) : Tail(todo)[i] = todo[i + 1]
    BY <1>a, <2>1, HeadTailProperties, EmptySeq DEF DriverTypeOK
  <2>3. /\ Head(todo) = "bind" => binding' = [binding EXCEPT ![Now] = [thread |-> sid, state |-> "running"]]
                                  /\ logged' = logged
        /\ Head(todo) # "bind" => binding' = binding
                                  /\ logged' = [logged EXCEPT ![Now] = @ \cup {Head(todo)}]
    BY <1>5 DEF EmitEvent, PersistBinding, Bound
  <2>4. KeptBound /\ (Head(todo) = "bind" => binding'[Now].thread # NoThread)
    BY <1>a, <1>b, <2>1, <2>3 DEF KeptBound, DriverTypeOK
  <2>5. ASSUME NEW i \in Attempts, "session" \in logged'[i] PROVE binding'[i].thread # NoThread
    <3>1. CASE "session" \in logged[i]
      BY <1>b, <2>4, <2>5, <3>1 DEF KeptBound
    <3>2. CASE "session" \notin logged[i]
      <4>1. i = Now /\ Head(todo) = "session"
        BY <1>a, <2>1, <2>3, <2>5, <3>2 DEF DriverTypeOK
      <4>2. 1 \in 1 .. Len(todo) /\ todo[1] = "session"
        BY <2>2, <4>1
      <4>3. binding[Now].thread # NoThread
        BY <1>b, <4>2
      <4>. QED
        BY <2>1, <2>4, <4>1, <4>3 DEF KeptBound
    <3>. QED
      BY <3>1, <3>2
  <2>6. ASSUME NEW i \in 1 .. Len(todo'), todo'[i] = "session"
        PROVE  IF i = 1 THEN binding'[Now].thread # NoThread ELSE todo'[i - 1] = "bind"
    <3>1. i + 1 \in 1 .. Len(todo) /\ i + 1 # 1 /\ (i + 1) - 1 = i /\ todo[i + 1] = "session"
      BY <2>1, <2>2, <2>6
    <3>2. todo[i] = "bind"
      BY <1>b, <3>1
    <3>3. CASE i = 1
      BY <2>2, <2>4, <3>2, <3>3
    <3>4. CASE i # 1
      <4>1. i - 1 \in 1 .. Len(Tail(todo)) /\ (i - 1) + 1 = i
        BY <2>1, <2>2, <2>6, <3>4
      <4>2. todo'[i - 1] = todo[i]
        BY <2>1, <2>2, <4>1
      <4>. QED
        BY <3>2, <3>4, <4>2
    <3>. QED
      BY <3>3, <3>4
  <2>7. Now' = Now
    BY <2>1 DEF Now
  <2>. QED
    BY <2>1, <2>4, <2>5, <2>6, <2>7 DEF Sessions, SessionIsBoundFirst, KeptBound
<1>6. CASE EmitFails
  BY <1>6, <1>d DEF EmitFails, durable, invocation
<1>7. CASE Return
  BY <1>7, <1>b, <1>c DEF Return, Flow, durable
<1>8. CASE FinishDriver
  <2>1. /\ Now \in Attempts /\ sid # NoThread /\ todo = <<>> /\ todo' = <<>> /\ logged' = logged
        /\ me' \notin {"turn", "finish"}
    BY <1>8, <1>a, <1>b, NowType DEF FinishDriver, Flow, invocation
  <2>2. \/ binding' = binding
        \/ binding' = [binding EXCEPT ![Now] = [thread |-> sid, state |-> "completed"]]
        \/ binding[Now].thread # NoThread /\ binding' = [binding EXCEPT ![Now].state = "failed"]
    BY <1>8 DEF FinishDriver, Bound
  <2>3. KeptBound
    BY <1>a, <1>b, <2>1, <2>2 DEF KeptBound, DriverTypeOK
  <2>. QED
    BY <1>e, <2>1, <2>3
<1>9. CASE Settle
  BY <1>9, <1>c DEF Settle, Flow, invocation
<1>10. CASE Kill
  BY <1>10, <1>c DEF Kill, durable
<1>11. CASE Recover
  <2>1. /\ Now \in Attempts /\ todo = <<>> /\ todo' = <<>> /\ logged' = logged
        /\ me' \notin {"turn", "finish"}
    BY <1>11, <1>a, NowType DEF Recover, Flow, invocation
  <2>2. \/ binding' = binding
        \/ binding[Now].state = "running" /\ binding' = [binding EXCEPT ![Now].state = "interrupted"]
    BY <1>11 DEF Recover
  <2>3. KeptBound
    BY <1>a, <1>b, <2>1, <2>2 DEF KeptBound, DriverTypeOK
  <2>. QED
    BY <1>e, <2>1, <2>3
<1>12. CASE Peer \/ UNCHANGED vars
  BY <1>12, <1>d DEF Peer, vars, durable, invocation
<1>. QED
  BY <1>1, <1>2, <1>3, <1>4, <1>5, <1>6, <1>7, <1>8, <1>9, <1>10, <1>11, <1>12 DEF Next, Client

\* Bindings that no other row can see change.
LEMMA ToldFrame ==
  ASSUME DriverTypeOK, Told, client # "lead", rows # <<>>,
         UNCHANGED <<rows, client>>, mishaps' \in Nat, mishaps' = 0 => mishaps = 0,
         \A i \in Attempts : i # Now => binding'[i] = binding[i],
         rows[Now] = "running",
         me' = "check" => binding'[Now].state = "completed",
         me' = "settle" => VerdictAgrees'
  PROVE  Told'
<1>1. ASSUME NEW i \in 1 .. Len(rows) PROVE Agrees(i, rows[i])'
  <2>1. i \in Attempts
    BY MishapsAreBounded DEF Attempts, DriverTypeOK
  <2>2. CASE i = Now
    BY <2>2 DEF Agrees
  <2>3. CASE i # Now
    BY <2>1, <2>3 DEF Agrees, Told
  <2>. QED
    BY <2>2, <2>3
<1>2. Now' = Now /\ Len(rows') = Len(rows)
  BY DEF Now
<1>. QED
  BY <1>1, <1>2 DEF Told

\* Binding and outcome of an attempt agree from the end of its run on.
LEMMA ToldStep ==
  ASSUME TypeOK, Flow, Sessions, Told, [Next]_vars
  PROVE  Told'
<1>a. DriverTypeOK /\ mishaps \in Nat /\ Len(rows) \in Nat
  BY TypeParts, MishapsAreBounded DEF DriverTypeOK
<1>b. ASSUME UNCHANGED <<rows, binding, mishaps, client, verdict>>,
             me' \in {"check", "settle"} => me' = me
      PROVE  Told'
  BY <1>b DEF Told, Agrees, VerdictAgrees, Now
<1>c. client' = client
  BY DEF Next, BeginAttempt, Client, Refuse, StartTurn, StartFails, Supervise, TakeLine, EmitEvent,
         EmitFails, Return, FinishDriver, CheckResult, FinishLead, Settle, Peer, Kill, Recover, vars
<1> SUFFICES ASSUME client # "lead" PROVE Told'
  BY <1>c DEF Told
<1>1. CASE BeginAttempt
  <2>1. /\ me' = "ready" /\ rows' = Append(rows, "running") /\ UNCHANGED <<binding, mishaps, client>>
    BY <1>1 DEF BeginAttempt
  <2>2. /\ Len(rows') = Len(rows) + 1 /\ rows'[Len(rows) + 1] = "running"
        /\ \A i \in 1 .. Len(rows) : rows'[i] = rows[i]
    BY <1>a, <2>1 DEF DriverTypeOK, RowStatus
  <2>3. ASSUME NEW i \in 1 .. Len(rows') PROVE Agrees(i, rows[i])'
    BY <1>a, <2>1, <2>2, <2>3 DEF Told, Agrees
  <2>. QED
    BY <2>1, <2>3 DEF Told
<1>2. CASE StartTurn \/ Supervise \/ TakeLine \/ Return \/ Peer \/ UNCHANGED vars
  BY <1>2, <1>b DEF StartTurn, Supervise, TakeLine, Return, Peer, vars, durable, counters
<1>3. CASE Refuse \/ FinishLead
  BY <1>3 DEF Refuse, Refused, FinishLead
<1>4. CASE StartFails
  <2>1. /\ me' = "settle" /\ verdict' = "failed" /\ mishaps' # 0 /\ mishaps' \in Nat
        /\ UNCHANGED <<rows, binding, client>> /\ rows # <<>> /\ rows[Now] = "running"
    BY <1>4, <1>a DEF StartFails, Mishap, durable, Flow
  <2>. QED
    BY <1>a, <2>1, ToldFrame DEF Agrees, VerdictAgrees
<1>5. CASE EmitEvent
  <2>1. /\ me' = me /\ me = "turn" /\ UNCHANGED <<rows, client, mishaps, verdict>> /\ rows # <<>>
        /\ rows[Now] = "running"
    BY <1>5 DEF EmitEvent, Flow, counters
  <2>2. binding' = binding \/ binding' = [binding EXCEPT ![Now] = [thread |-> sid, state |-> "running"]]
    BY <1>5 DEF EmitEvent, PersistBinding, Bound
  <2>3. \A i \in Attempts : i # Now => binding'[i] = binding[i]
    BY <1>a, <2>2 DEF DriverTypeOK
  <2>. QED
    BY <1>a, <2>1, <2>3, ToldFrame
<1>6. CASE EmitFails
  <2>1. /\ me' = me /\ me = "turn" /\ UNCHANGED <<rows, binding, client>> /\ rows # <<>>
        /\ rows[Now] = "running" /\ mishaps' \in Nat /\ (mishaps' = 0 => mishaps = 0)
    BY <1>6, <1>a DEF EmitFails, Flow, durable, Mishap
  <2>. QED
    BY <1>a, <2>1, ToldFrame
<1>7. CASE FinishDriver
  <2>1. /\ me = "finish" /\ UNCHANGED <<rows, client>> /\ rows # <<>> /\ rows[Now] = "running"
    BY <1>7 DEF FinishDriver, Flow
  <2>2. Now \in Attempts /\ binding \in [Attempts -> [thread : Thread, state : BindingState]]
    BY <1>a, <2>1, NowType DEF DriverTypeOK
  <2>3. CASE outcome = "ok" /\ binding' = Bound("completed") /\ me' = "check" /\ UNCHANGED mishaps
    <3>1. /\ binding'[Now].state = "completed"
          /\ \A i \in Attempts : i # Now => binding'[i] = binding[i]
      BY <2>2, <2>3 DEF Bound
    <3>. QED
      BY <1>a, <2>1, <2>3, <3>1, ToldFrame
  <2>4. CASE /\ binding' = IF binding[Now].thread = NoThread THEN binding
                           ELSE [binding EXCEPT ![Now].state = "failed"]
             /\ me' = "settle" /\ verdict' = "failed" /\ UNCHANGED mishaps
    <3>1. /\ binding'[Now].state # "running"
          /\ \A i \in Attempts : i # Now => binding'[i] = binding[i]
      BY <2>2, <2>4 DEF Sessions
    <3>2. Now' = Now
      BY <2>1 DEF Now
    <3>3. VerdictAgrees'
      BY <2>4, <3>1, <3>2 DEF Agrees, VerdictAgrees
    <3>. QED
      BY <1>a, <2>1, <2>4, <3>1, <3>3, ToldFrame
  <2>5. CASE Mishap /\ me' = "settle" /\ verdict' = "failed" /\ UNCHANGED binding
    <3>1. mishaps' # 0 /\ mishaps' \in Nat
      BY <1>a, <2>5 DEF Mishap
    <3>. QED
      BY <1>a, <2>1, <2>5, <3>1, ToldFrame DEF Agrees, VerdictAgrees
  <2>. QED
    BY <1>7, <2>3, <2>4, <2>5 DEF FinishDriver
<1>8. CASE CheckResult
  <2>1. /\ me = "check" /\ me' = "settle" /\ UNCHANGED <<rows, binding, mishaps, client>>
        /\ binding[Now].state = "completed"
    BY <1>8 DEF CheckResult, durable, counters, Told
  <2>. QED
    BY <2>1 DEF Told, Agrees, VerdictAgrees, Now
<1>9. CASE Settle
  <2>1. /\ me = "settle" /\ me' = "idle" /\ UNCHANGED <<binding, mishaps, client>> /\ rows # <<>>
        /\ rows' = [rows EXCEPT ![Now] = IF verdict = "succeeded" THEN verdict ELSE "failed"]
    BY <1>9 DEF Settle, Flow, counters
  <2>2. Agrees(Now, IF verdict = "succeeded" THEN verdict ELSE "failed")
    BY <2>1 DEF Told, VerdictAgrees
  <2>3. /\ Len(rows') = Len(rows) /\ Now \in 1 .. Len(rows) /\ rows \in Seq(RowStatus)
    BY <1>a, <2>1, NowType DEF RowStatus, DriverTypeOK
  <2>4. /\ rows'[Now] = IF verdict = "succeeded" THEN verdict ELSE "failed"
        /\ \A i \in 1 .. Len(rows) : i # Now => rows'[i] = rows[i]
    BY <2>1, <2>3
  <2>5. ASSUME NEW i \in 1 .. Len(rows') PROVE Agrees(i, rows[i])'
    <3>1. CASE i = Now
      BY <2>1, <2>2, <2>4, <3>1 DEF Agrees
    <3>2. CASE i # Now
      BY <2>1, <2>3, <2>4, <3>2 DEF Agrees, Told
    <3>. QED
      BY <3>1, <3>2
  <2>. QED
    BY <2>1, <2>5 DEF Told
<1>10. CASE Kill
  <2>1. /\ me' = "idle" /\ UNCHANGED <<rows, binding, client>> /\ mishaps' \in Nat /\ mishaps' # 0
    BY <1>10, <1>a DEF Kill, durable, Mishap
  <2>. QED
    BY <2>1 DEF Told, Agrees
<1>11. CASE Recover
  <2>1. /\ me' = "idle" /\ UNCHANGED <<mishaps, client>> /\ rows # <<>>
        /\ rows' = [rows EXCEPT ![Now] = "failed"]
        /\ binding' = IF binding[Now].state = "running"
                      THEN [binding EXCEPT ![Now].state = "interrupted"] ELSE binding
    BY <1>11 DEF Recover, counters
  <2>2. /\ Len(rows') = Len(rows) /\ Now \in 1 .. Len(rows) /\ Now \in Attempts
        /\ rows \in Seq(RowStatus) /\ 1 .. Len(rows) \subseteq Attempts
        /\ binding \in [Attempts -> [thread : Thread, state : BindingState]]
    BY <1>a, <2>1, NowType, MishapsAreBounded DEF RowStatus, DriverTypeOK, Attempts
  <2>3. /\ rows'[Now] = "failed" /\ binding'[Now].state # "running"
        /\ \A i \in 1 .. Len(rows) : i # Now => rows'[i] = rows[i] /\ binding'[i] = binding[i]
    BY <2>1, <2>2
  <2>4. ASSUME NEW i \in 1 .. Len(rows') PROVE Agrees(i, rows[i])'
    <3>1. CASE i = Now
      BY <2>3, <3>1 DEF Agrees
    <3>2. CASE i # Now
      BY <2>1, <2>2, <2>3, <3>2 DEF Agrees, Told
    <3>. QED
      BY <3>1, <3>2
  <2>. QED
    BY <2>1, <2>4 DEF Told
<1>. QED
  BY <1>1, <1>2, <1>3, <1>4, <1>5, <1>6, <1>7, <1>8, <1>9, <1>10, <1>11 DEF Next, Client

-----------------------------------------------------------------------------
(* The theorems.                                                           *)

\* Nothing has been started.
LEMMA InitIInv == Init => IInv
<1> SUFFICES ASSUME Init PROVE IInv
  OBVIOUS
<1>1. CliTypeOK
  <2>1. sup = "off" /\ outcome = "none"
    BY DEF Init
  <2>2. /\ alive = {} /\ exit = "none" /\ outHeld = {} /\ errHeld = {} /\ errFull = FALSE
        /\ prompt = "taken" /\ stdout = <<>> /\ channel = <<>> /\ written = 0 /\ said = 0
    BY DEF Init, Closed
  <2>3. stdout \in Seq(LineKind \X (0 .. MaxLines)) /\ Len(stdout) = 0
    BY <2>2
  <2>4. channel \in Seq(LineKind \X (0 .. MaxLines)) /\ Len(channel) = 0
    BY <2>2
  <2>5. Len(stdout) <= PipeCap /\ Len(channel) <= ChannelCap
    BY <2>3, <2>4, CapsAreNat
  <2>6. written \in 0 .. MaxLines /\ said \in 0 .. written
    BY <2>2, CapsAreNat
  <2>7. alive \subseteq Process /\ outHeld \subseteq alive /\ errHeld \subseteq alive
    BY <2>2
  <2>8. errFull \in BOOLEAN
    BY <2>2
  <2>. QED
    BY <2>1, <2>2, <2>3, <2>4, <2>5, <2>6, <2>7, <2>8 DEF CliTypeOK
<1>2. DriverTypeOK
  <2>1. rows \in Seq(RowStatus) /\ Len(rows) = 0 /\ todo \in Seq(Event)
    BY DEF Init
  <2>2. NoBinding \in [thread : Thread, state : BindingState] /\ NoThread \in Thread
    BY MishapsAreBounded DEF NoBinding, NoThread, Thread, BindingState
  <2>3. Len(rows) <= MaxAttempts
    BY <2>1, MishapsAreBounded
  <2>4. binding = [i \in Attempts |-> NoBinding] /\ logged = [i \in Attempts |-> {}]
    BY DEF Init
  <2>5. binding \in [Attempts -> [thread : Thread, state : BindingState]]
    BY <2>2, <2>4
  <2>6. logged \in [Attempts -> SUBSET Event]
    BY <2>4
  <2>7. {asked, sid, memory, threads} \subseteq Thread
    BY <2>2 DEF Init, NoThread
  <2>8. seen \in BOOLEAN /\ client \in Clients /\ me = "idle" /\ verdict = "none"
    BY DEF Init
  <2>9. final = 0 /\ turn = 1 /\ starts = 0 /\ rounds = 0 /\ mishaps = 0
    BY DEF Init
  <2>10. /\ final \in 0 .. MaxLines /\ turn \in 1 .. 2 /\ starts \in 0 .. MaxAttempts
         /\ rounds \in 0 .. MaxRounds /\ mishaps \in 0 .. MaxMishaps
    BY <2>9, MishapsAreBounded, CapsAreNat
  <2>. QED
    BY <2>1, <2>3, <2>5, <2>6, <2>7, <2>8, <2>10 DEF DriverTypeOK
<1>3. Len(rows) = 0 /\ Len(todo) = 0 /\ Len(channel) = 0 /\ Len(stdout) = 0
  BY DEF Init, Closed
<1>4. Flow /\ Supervised
  BY <1>3 DEF Init, Closed, Flow, Supervised, FailureLeavesNoGroup
<1>5. Unread
  BY <1>3 DEF Init, Closed, Unread, Counted
<1>6. Sessions /\ Told
  BY <1>3 DEF Init, Sessions, SessionIsBoundFirst, NoBinding, Told
<1>. QED
  BY <1>1, <1>2, <1>4, <1>5, <1>6, TypeParts DEF IInv

\* Every step keeps it.
LEMMA NextIInv == IInv /\ [Next]_vars => IInv'
BY TypeStep, FlowStep, SupervisedStep, UnreadStep, SessionsStep, ToldStep DEF IInv

\* Client, child, bindings and rows agree in every reachable state, whatever
\* the child does and whoever is killed (codex_exec.rs, claude_cli.rs).
THEOREM CliInvariant == Spec => []IInv
BY InitIInv, NextIInv, PTL DEF Spec

\* A run that succeeds has read all that was written: its result is the last
\* message of the session (codex_exec.rs:107-173).
THEOREM ResultsAreLast == Spec => []ResultIsTheLastMessage
<1>1. IInv => ResultIsTheLastMessage
  <2> SUFFICES ASSUME IInv, me = "turn", outcome = "ok"
               PROVE  /\ final = said /\ stdout = <<>> /\ channel = <<>>
                      /\ seen /\ "child" \notin alive
    BY DEF ResultIsTheLastMessage
  <2>1. channel = <<>> /\ stdout = <<>> /\ seen /\ "child" \notin alive
    BY DEF IInv, Flow, Supervised
  <2>2. PICK mid \in Nat : Counted(channel, final, mid) /\ Counted(stdout, mid, said)
    BY DEF IInv, Unread
  <2>. QED
    BY <2>1, <2>2 DEF Counted
<1>. QED
  BY <1>1, CliInvariant, PTL

\* A run that has failed has left nothing of its process group, whoever failed
\* (codex_exec.rs:43-45).
THEOREM FailuresLeaveNoGroup == Spec => []FailureLeavesNoGroup
<1>1. IInv => FailureLeavesNoGroup
  BY DEF IInv, Supervised
<1>. QED
  BY <1>1, CliInvariant, PTL

\* No log names a session the board cannot (codex_exec_driver.rs:276-279).
THEOREM SessionsAreBoundFirst == Spec => []SessionIsBoundFirst
<1>1. IInv => SessionIsBoundFirst
  BY DEF IInv, Sessions
<1>. QED
  BY <1>1, CliInvariant, PTL

\* Binding and attempt of a driver tell one story (codex_exec_driver.rs:302-321).
THEOREM BindingsFollow == Spec => []BindingFollowsTheAttempt
<1>1. IInv => BindingFollowsTheAttempt
  BY DEF IInv, Told, Agrees, BindingFollowsTheAttempt
<1>. QED
  BY <1>1, CliInvariant, PTL
=============================================================================
