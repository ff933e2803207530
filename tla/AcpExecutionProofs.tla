------------------------- MODULE AcpExecutionProofs -------------------------
(***************************************************************************)
(* Proofs about AcpExecution, for whatever an agent may say, any policy,   *)
(* any limits and any number of mishaps.                                   *)
(***************************************************************************)
EXTENDS AcpExecution, SequenceTheorems, FiniteSetTheorems, WellFoundedInduction, TLAPS

-----------------------------------------------------------------------------
(* Control: who is where, and what has been released.                      *)

\* Places, and the channels between worker and holder.
Control ==
  /\ mode \in {"driver", "caller", "resume"}
  /\ worker \in {"off", "handshake", "gate", "turn", "cancelling", "ended"}
  /\ answer \in {"none", "ok", "cancelled", "error"}
  /\ gate \in {"held", "open", "dropped"}
  /\ (result = "none") = (worker # "ended")
  /\ prompts \in 0 .. 2 /\ open \in BOOLEAN

\* A holder is where its kind can be, and an answer comes last.
HolderInPlace ==
  /\ mode = "driver" =>
       holder \in {"idle", "starting", "bind", "release", "waiting", "done"}
  /\ mode = "resume" => holder \in {"idle", "held", "waiting", "done"}
  /\ holder = "idle" \/ (mode = "resume" /\ holder = "held") => worker = "off"
  /\ answer # "none" => holder = "done"

\* A worker is where its session can be: without a prompt the agent is silent,
\* and who waits for a confirmation has told the agent.
WorkerInPlace ==
  /\ mode = "resume" => worker \notin {"gate", "cancelling"} /\ result # "cancelled"
  /\ worker \in {"off", "handshake", "gate"} => prompts = 0
  /\ worker \in {"turn", "cancelling"} => prompts > 0
  /\ prompts = 0 => inbox = <<>> /\ ~open
  /\ worker = "cancelling" \/ result = "cancelled" => told

\* What precedes a prompt: the open gate, and for a driver the binding.
Released ==
  /\ mode # "resume" /\ prompts > 0 => gate = "open"
  /\ mode = "driver" /\ (gate = "open" \/ holder \in {"release", "waiting"}) => binding # "none"

\* Places are kept by every step.
LEMMA ControlStep ==
  ASSUME Control, HolderInPlace, WorkerInPlace, [Next]_vars
  PROVE  Control'
<1> USE DEF Control, WorkerInPlace
<1>1. ASSUME NEW m \in Says, AgentSays(m) PROVE Control'
  BY <1>1 DEF AgentSays, owner, gating, turnVars, setting
<1>2. ASSUME NEW r, AgentStops(r) PROVE Control'
  BY <1>2 DEF AgentStops, owner, gating, turnVars, setting
<1>3. CASE AgentFails \/ TimesOut \/ GateDropped
  BY <1>3 DEF AgentFails, TimesOut, GateDropped, Ends, owner, gating, agent, turnVars, setting
<1>4. CASE SessionOpens \/ NoticeCancel
  BY <1>4 DEF SessionOpens, NoticeCancel, owner, gating, agent, turnVars, setting
<1>5. CASE FirstPrompt \/ SessionResumes
  <2>1. prompts' \in 0 .. 2
    BY <1>5 DEF FirstPrompt, SessionResumes, SendPrompt
  <2>2. open' \in BOOLEAN
    BY <1>5 DEF FirstPrompt, SessionResumes, SendPrompt
  <2>3. /\ \/ worker' = "turn" /\ result' = result /\ worker # "ended"
           \/ worker' = "ended" /\ result' = "protocol"
        /\ mode' = mode /\ answer' = answer /\ gate' = gate
    BY <1>5 DEF FirstPrompt, SessionResumes, SendPrompt, Ends, owner, gating, setting
  <2>. QED
    BY <2>1, <2>2, <2>3
<1>6. CASE TakeUpdate
  BY <1>6 DEF TakeUpdate, Ends, owner, gating
<1>7. CASE TurnEnds
  <2>1. prompts' = prompts \/ (prompts = 1 /\ prompts' = prompts + 1)
    BY <1>7 DEF TurnEnds, SendPrompt
  <2>2. open' \in BOOLEAN
    BY <1>7 DEF TurnEnds, SendPrompt
  <2>3. /\ \/ worker' = "turn" /\ result' = result /\ worker # "ended"
           \/ worker' = "ended" /\ result' # "none"
        /\ mode' = mode /\ answer' = answer /\ gate' = gate
    BY <1>7 DEF TurnEnds, SendPrompt, Concludes, Ends, owner, gating, setting
  <2>. QED
    BY <2>1, <2>2, <2>3
<1>8. CASE CancelReads
  BY <1>8 DEF CancelReads, Ends, owner, gating, turnVars, setting
<1>9. CASE Start \/ Started \/ Bind \/ WaitResumed
  BY <1>9 DEF Start, Started, Bind, WaitResumed, HolderInPlace, Answers, Ends, LetGo, gating, agent,
       turnVars, setting
<1>10. CASE Wait \/ Cancel
  BY <1>10 DEF Wait, Cancel, Release, Answers, agent, turnVars, setting
<1>11. CASE Finish
  BY <1>11 DEF Finish, Answers, gating, agent, turnVars
<1>12. CASE ProbeFails \/ StartResume \/ Settle
  BY <1>12 DEF ProbeFails, StartResume, Settle, Answers, owner, gating, agent, turnVars, setting
<1>13. CASE StopWaiting \/ Drop \/ CancelResumed \/ Recover \/ Expire
  BY <1>13 DEF StopWaiting, Drop, CancelResumed, Recover, Expire, Answers, LetGo, owner, gating,
       agent, turnVars, setting
<1>14. CASE Kill
  BY <1>14 DEF Kill, Ends, gating, agent, turnVars
<1>15. CASE UNCHANGED vars
  BY <1>15 DEF vars, owner, gating, agent, turnVars, setting
<1>. QED
  BY <1>1, <1>2, <1>3, <1>4, <1>5, <1>6, <1>7, <1>8, <1>9, <1>10, <1>11, <1>12, <1>13, <1>14,
     <1>15 DEF Next, Work, Hold

\* The session of a worker only moves when it is at work, and leaves the rest
\* to its holder.
WorkerSteps ==
  AgentFails \/ SessionOpens \/ FirstPrompt \/ GateDropped \/ SessionResumes \/ TakeUpdate
  \/ TurnEnds \/ NoticeCancel \/ CancelReads \/ TimesOut

HolderSteps ==
  Start \/ Started \/ Bind \/ Wait \/ Finish \/ ProbeFails \/ StartResume \/ WaitResumed
  \/ Cancel \/ StopWaiting \/ Drop \/ CancelResumed \/ Kill

\* What the steps of the worker have in common.
LEMMA WorkerFrame ==
  ASSUME WorkerSteps
  PROVE  /\ worker \notin {"off", "ended"} /\ worker' # "off"
         /\ mode' = mode /\ holder' = holder /\ answer' = answer /\ task' = task
         /\ gate' = gate /\ cancelled' = cancelled /\ row' = row /\ binding' = binding
<1>1. mode' = mode /\ holder' = holder /\ answer' = answer /\ task' = task
      /\ gate' = gate /\ cancelled' = cancelled /\ row' = row /\ binding' = binding
  BY DEF WorkerSteps, AgentFails, SessionOpens, FirstPrompt, GateDropped, SessionResumes, TakeUpdate,
     TurnEnds, NoticeCancel, CancelReads, TimesOut, owner, gating, rows, setting
<1>2. worker \notin {"off", "ended"} /\ worker' # "off"
  BY DEF WorkerSteps, AgentFails, SessionOpens, FirstPrompt, GateDropped, SessionResumes, TakeUpdate,
     TurnEnds, NoticeCancel, CancelReads, TimesOut, SendPrompt, Concludes, Ends
<1>. QED
  BY <1>1, <1>2

\* ... and those of whoever holds the execution.
LEMMA HolderFrame ==
  ASSUME HolderSteps
  PROVE  /\ mode' = mode /\ UNCHANGED agent /\ UNCHANGED turnVars /\ row' = row
         /\ result' = result \/ result' = "aborted"
         /\ worker' = worker \/ (worker' = "ended" /\ result' = "aborted")
              \/ (worker' = "handshake" /\ holder \in {"idle", "held"} /\ holder' # "held"
                    /\ (holder = "held" => mode = "resume"))
<1>1. mode' = mode /\ UNCHANGED agent /\ UNCHANGED turnVars /\ row' = row
  BY DEF HolderSteps, Start, Started, Bind, Wait, Finish, ProbeFails, StartResume, WaitResumed,
     Cancel, StopWaiting, Drop, CancelResumed, Kill, setting, rows
<1>2. result' = result \/ result' = "aborted"
  BY DEF HolderSteps, Start, Started, Bind, Wait, Finish, ProbeFails, StartResume, WaitResumed,
     Cancel, StopWaiting, Drop, CancelResumed, Kill, Ends
<1>3. worker' = worker \/ (worker' = "ended" /\ result' = "aborted")
        \/ (worker' = "handshake" /\ holder \in {"idle", "held"} /\ holder' # "held"
              /\ (holder = "held" => mode = "resume"))
  BY DEF HolderSteps, Start, Started, Bind, Wait, Finish, ProbeFails, StartResume, WaitResumed,
     Cancel, StopWaiting, Drop, CancelResumed, Kill, Ends
<1>. QED
  BY <1>1, <1>2, <1>3

\* The places of the holder are kept.
LEMMA HolderStep ==
  ASSUME Control, HolderInPlace, [Next]_vars
  PROVE  HolderInPlace'
<1> USE DEF Control, HolderInPlace
<1>1. CASE WorkerSteps
  BY <1>1, WorkerFrame
<1>2. CASE Start \/ Started \/ Bind
  BY <1>2 DEF Start, Started, Bind, Answers, Ends, setting
<1>3. CASE Wait \/ Cancel
  BY <1>3 DEF Wait, Cancel, Release, Answers, setting
<1>4. CASE Finish \/ ProbeFails \/ StartResume
  BY <1>4 DEF Finish, ProbeFails, StartResume, Answers, setting
<1>5. CASE WaitResumed \/ StopWaiting \/ Drop
  BY <1>5 DEF WaitResumed, StopWaiting, Drop, Answers, setting
<1>6. CASE CancelResumed \/ Settle \/ Recover \/ Expire \/ Kill
  BY <1>6 DEF CancelResumed, Settle, Recover, Expire, Kill, Ends, owner, setting
<1>7. CASE \E m \in Says : AgentSays(m)
  BY <1>7 DEF AgentSays, owner, setting
<1>8. CASE \E r \in {"end_turn", "cancelled"} : AgentStops(r)
  BY <1>8 DEF AgentStops, owner, setting
<1>9. CASE UNCHANGED vars
  BY <1>9 DEF vars, owner, setting
<1>. QED
  BY <1>1, <1>2, <1>3, <1>4, <1>5, <1>6, <1>7, <1>8, <1>9 DEF Next, Work, Hold, WorkerSteps

\* The places of the worker are kept.
LEMMA WorkerStep ==
  ASSUME Control, HolderInPlace, WorkerInPlace, [Next]_vars
  PROVE  WorkerInPlace'
<1> USE DEF Control, WorkerInPlace
<1>1. CASE AgentFails \/ TimesOut \/ GateDropped
  BY <1>1 DEF AgentFails, TimesOut, GateDropped, Ends, agent, turnVars, setting
<1>2. CASE SessionOpens \/ NoticeCancel
  BY <1>2 DEF SessionOpens, NoticeCancel, agent, turnVars, setting
<1>3. CASE FirstPrompt \/ SessionResumes
  <2>1. /\ mode' = mode /\ result' \in {result, "protocol"} /\ told' = told /\ worker # "ended"
        /\ worker' \in {"turn", "ended"} /\ (worker' = "turn" => prompts' = prompts + 1)
        /\ prompts' = 0 => prompts' = prompts /\ inbox' = inbox /\ open' = open
        /\ mode = "resume" => worker' # "gate"
    BY <1>3 DEF FirstPrompt, SessionResumes, SendPrompt, Ends, setting
  <2>. QED
    BY <2>1
<1>4. CASE TakeUpdate
  BY <1>4 DEF TakeUpdate, Ends
<1>5. CASE TurnEnds
  <2>1. /\ mode' = mode /\ told' = told /\ worker = "turn" /\ worker' \in {"turn", "ended"}
        /\ result' \in {result, "protocol", "completed", "invalid"}
        /\ prompts' \in {prompts, prompts + 1}
    BY <1>5 DEF TurnEnds, SendPrompt, Concludes, Ends, setting
  <2>. QED
    BY <2>1
<1>6. CASE CancelReads
  BY <1>6 DEF CancelReads, Ends, turnVars, setting
<1>7. CASE HolderSteps
  BY <1>7, HolderFrame DEF HolderInPlace, agent, turnVars
<1>8. CASE Settle \/ Recover \/ Expire
  BY <1>8 DEF Settle, Recover, Expire, agent, turnVars, setting
<1>9. CASE \E m \in Says : AgentSays(m)
  BY <1>9 DEF AgentSays, turnVars, setting
<1>10. CASE \E r \in {"end_turn", "cancelled"} : AgentStops(r)
  BY <1>10 DEF AgentStops, turnVars, setting
<1>11. CASE UNCHANGED vars
  BY <1>11 DEF vars, agent, turnVars, setting
<1>. QED
  BY <1>1, <1>2, <1>3, <1>4, <1>5, <1>6, <1>7, <1>8, <1>9, <1>10, <1>11
     DEF Next, Work, Hold, HolderSteps

\* A gate opens for a driver that has bound its session, and stays open.
LEMMA ReleasedStep ==
  ASSUME Control, HolderInPlace, WorkerInPlace, Released, [Next]_vars
  PROVE  Released'
<1> USE DEF Control, Released
<1>1. CASE FirstPrompt
  BY <1>1, WorkerFrame DEF WorkerSteps, FirstPrompt
<1>2. CASE SessionResumes
  BY <1>2, WorkerFrame DEF WorkerSteps, SessionResumes
<1>3. CASE TurnEnds
  BY <1>3, WorkerFrame DEF WorkerSteps, WorkerInPlace, TurnEnds
<1>4. CASE AgentFails \/ SessionOpens \/ GateDropped \/ NoticeCancel \/ CancelReads \/ TimesOut
             \/ TakeUpdate
  <2>1. prompts' = prompts
    BY <1>4 DEF AgentFails, SessionOpens, GateDropped, NoticeCancel, CancelReads, TimesOut,
         TakeUpdate, turnVars
  <2>. QED
    BY <1>4, <2>1, WorkerFrame DEF WorkerSteps
<1>5. CASE HolderSteps
  <2>1. prompts' = prompts /\ mode' = mode
    BY <1>5, HolderFrame DEF turnVars
  <2>2. gate = "open" => gate' = "open"
    BY <1>5 DEF HolderSteps, Start, Started, Bind, Wait, Finish, ProbeFails, StartResume,
       WaitResumed, Cancel, StopWaiting, Drop, CancelResumed, Kill, Release, LetGo, gating
  <2>3. /\ mode = "driver" /\ gate' = "open" => gate = "open" \/ holder = "release"
        /\ mode = "driver" /\ holder' = "release" => holder = "release" \/ binding' = "running"
        /\ mode = "driver" /\ holder' = "waiting" => holder \in {"release", "waiting"}
    BY <1>5 DEF HolderInPlace, HolderSteps, Start, Started, Bind, Wait, Finish, ProbeFails,
       StartResume, WaitResumed, Cancel, StopWaiting, Drop, CancelResumed, Kill, Release, LetGo,
       Answers, gating, owner
  <2>4. binding # "none" => binding' # "none"
    BY <1>5 DEF HolderSteps, Start, Started, Bind, Wait, Finish, ProbeFails, StartResume,
       WaitResumed, Cancel, StopWaiting, Drop, CancelResumed, Kill, CompleteBinding, rows
  <2>. QED
    BY <2>1, <2>2, <2>3, <2>4
<1>6. CASE Settle \/ Recover \/ Expire
  BY <1>6 DEF Settle, Recover, Expire, gating, turnVars, owner, setting, rows
<1>7. CASE \E m \in Says : AgentSays(m)
  BY <1>7 DEF AgentSays, gating, turnVars, owner, setting, rows
<1>8. CASE \E r \in {"end_turn", "cancelled"} : AgentStops(r)
  BY <1>8 DEF AgentStops, gating, turnVars, owner, setting, rows
<1>9. CASE UNCHANGED vars
  BY <1>9 DEF vars, gating, turnVars, owner, setting, rows
<1>. QED
  BY <1>1, <1>2, <1>3, <1>4, <1>5, <1>6, <1>7, <1>8, <1>9 DEF Next, Work, Hold, HolderSteps

-----------------------------------------------------------------------------
(* What the agent has said, and what of it the worker has heard.           *)

\* The i-th unread message comes after the first at[i] of the texts.
Counts(at, heard, unread, texts) ==
  /\ at[0] = Len(heard) /\ at[Len(unread)] = Len(texts)
  /\ \A i \in 1 .. Len(unread) :
       /\ unread[i].type = "text" => at[i] = at[i - 1] + 1 /\ texts[at[i]] = unread[i]
       /\ unread[i].type # "text" => at[i] = at[i - 1]

\* The texts heard come first among those said, and those unread follow in
\* their order.
Aligned(heard, unread, texts) ==
  /\ Len(heard) <= Len(texts)
  /\ \A i \in 1 .. Len(heard) : heard[i] = texts[i]
  /\ \E at \in [0 .. Len(unread) -> 0 .. Len(texts)] : Counts(at, heard, unread, texts)

\* A prompt starts a conversation.
LEMMA AlignedAtFirst == Aligned(<<>>, <<>>, <<>>)
<1> DEFINE at == [i \in 0 .. 0 |-> 0]
<1>1. at \in [0 .. Len(<<>>) -> 0 .. Len(<<>>)] /\ at[0] = 0
  OBVIOUS
<1> HIDE DEF at
<1>2. Counts(at, <<>>, <<>>, <<>>)
  BY <1>1 DEF Counts
<1>. QED
  BY <1>1, <1>2 DEF Aligned

\* A message that is no text changes nothing.
LEMMA AlignedSay ==
  ASSUME NEW S, NEW T, NEW heard \in Seq(S), NEW unread \in Seq(T), NEW texts \in Seq(S),
         Aligned(heard, unread, texts), NEW m \in T, m.type # "text"
  PROVE  Aligned(heard, Append(unread, m), texts)
<1>. PICK n \in Nat : n = Len(unread)
  OBVIOUS
<1>1. PICK at \in [0 .. n -> 0 .. Len(texts)] :
       /\ at[0] = Len(heard) /\ at[n] = Len(texts)
       /\ \A i \in 1 .. n :
            /\ unread[i].type = "text" => at[i] = at[i - 1] + 1 /\ texts[at[i]] = unread[i]
            /\ unread[i].type # "text" => at[i] = at[i - 1]
  BY DEF Aligned, Counts
<1>. PICK u : u = Append(unread, m)
  OBVIOUS
<1>2. Len(u) = n + 1 /\ u[n + 1] = m /\ \A i \in 1 .. n : u[i] = unread[i]
  OBVIOUS
<1> DEFINE upto == [i \in 0 .. n + 1 |-> IF i = n + 1 THEN at[n] ELSE at[i]]
<1>3. /\ upto \in [0 .. n + 1 -> 0 .. Len(texts)] /\ upto[n + 1] = at[n]
      /\ \A i \in 0 .. n : upto[i] = at[i]
  <2>1. n \in 0 .. n /\ n + 1 \notin 0 .. n /\ n + 1 \in 0 .. n + 1
    OBVIOUS
  <2>2. \A i \in 0 .. n + 1 : i = n + 1 \/ i \in 0 .. n
    OBVIOUS
  <2>3. \A i \in 0 .. n : i \in 0 .. n + 1 /\ i # n + 1
    OBVIOUS
  <2>. QED
    BY <2>1, <2>2, <2>3
<1> HIDE DEF upto
<1>4. upto[0] = Len(heard) /\ upto[n + 1] = Len(texts)
  BY <1>1, <1>3
<1>5. ASSUME NEW i \in 1 .. n + 1
      PROVE  /\ u[i].type = "text" => upto[i] = upto[i - 1] + 1 /\ texts[upto[i]] = u[i]
             /\ u[i].type # "text" => upto[i] = upto[i - 1]
  <2>1. i \in 1 .. n \/ i = n + 1
    OBVIOUS
  <2>2. i \in 1 .. n => i - 1 \in 0 .. n /\ i \in 0 .. n
    OBVIOUS
  <2>3. CASE i \in 1 .. n
    BY <1>1, <1>2, <1>3, <2>2, <2>3
  <2>4. CASE i = n + 1
    BY <1>2, <1>3, <2>4
  <2>. QED
    BY <2>1, <2>3, <2>4
<1>6. Counts(upto, heard, u, texts)
  BY <1>2, <1>4, <1>5 DEF Counts
<1>. QED
  BY <1>2, <1>3, <1>6 DEF Aligned

\* A text is said and is yet to be read.
LEMMA AlignedText ==
  ASSUME NEW S, NEW T, NEW heard \in Seq(S), NEW unread \in Seq(T), NEW texts \in Seq(S),
         Aligned(heard, unread, texts), NEW m \in T, m \in S, m.type = "text"
  PROVE  Aligned(heard, Append(unread, m), Append(texts, m))
<1>. PICK n \in Nat, k \in Nat : n = Len(unread) /\ k = Len(texts)
  OBVIOUS
<1>1. PICK at \in [0 .. n -> 0 .. k] :
       /\ at[0] = Len(heard) /\ at[n] = k
       /\ \A i \in 1 .. n :
            /\ unread[i].type = "text" => at[i] = at[i - 1] + 1 /\ texts[at[i]] = unread[i]
            /\ unread[i].type # "text" => at[i] = at[i - 1]
  BY DEF Aligned, Counts
<1>. PICK u, v : u = Append(unread, m) /\ v = Append(texts, m)
  OBVIOUS
<1>2. /\ Len(u) = n + 1 /\ u[n + 1] = m /\ \A i \in 1 .. n : u[i] = unread[i]
      /\ Len(v) = k + 1 /\ v[k + 1] = m /\ \A i \in 1 .. k : v[i] = texts[i]
  OBVIOUS
<1>3. /\ Len(heard) <= k + 1 /\ Len(heard) \in Nat
      /\ \A i \in 1 .. Len(heard) : heard[i] = v[i]
  <2>1. Len(heard) <= k /\ Len(heard) \in Nat /\ \A i \in 1 .. Len(heard) : heard[i] = texts[i]
    BY DEF Aligned
  <2>2. \A i \in 1 .. Len(heard) : i \in 1 .. k
    BY <2>1
  <2>. QED
    BY <1>2, <2>1, <2>2
<1> DEFINE upto == [i \in 0 .. n + 1 |-> IF i = n + 1 THEN k + 1 ELSE at[i]]
<1>4. /\ upto \in [0 .. n + 1 -> 0 .. k + 1] /\ upto[n + 1] = k + 1
      /\ \A i \in 0 .. n : upto[i] = at[i]
  <2>1. \A i \in 0 .. n + 1 : i = n + 1 \/ i \in 0 .. n
    OBVIOUS
  <2>2. \A i \in 0 .. n : i \in 0 .. n + 1 /\ i # n + 1 /\ at[i] \in 0 .. k + 1
    BY <1>1, SMTT(30)
  <2>. QED
    BY <2>1, <2>2
<1> HIDE DEF upto
<1>5. upto[0] = Len(heard)
  BY <1>1, <1>4
<1>6. ASSUME NEW i \in 1 .. n + 1
      PROVE  /\ u[i].type = "text" => upto[i] = upto[i - 1] + 1 /\ v[upto[i]] = u[i]
             /\ u[i].type # "text" => upto[i] = upto[i - 1]
  <2>1. i \in 1 .. n \/ i = n + 1
    OBVIOUS
  <2>2. i \in 1 .. n => i - 1 \in 0 .. n /\ i \in 0 .. n
    OBVIOUS
  <2>3. CASE i \in 1 .. n
    <3>1. /\ at[i] \in 0 .. k /\ at[i - 1] \in 0 .. k
          /\ u[i] = unread[i] /\ upto[i] = at[i] /\ upto[i - 1] = at[i - 1]
      BY <1>1, <1>2, <1>4, <2>2, <2>3
    <3>2. /\ unread[i].type = "text" => at[i] = at[i - 1] + 1 /\ texts[at[i]] = unread[i]
          /\ unread[i].type # "text" => at[i] = at[i - 1]
      BY <1>1, <2>3
    <3>3. unread[i].type = "text" => at[i] \in 1 .. k
      BY <3>1, <3>2
    <3>. QED
      BY <1>2, <3>1, <3>2, <3>3
  <2>4. CASE i = n + 1
    <3>1. upto[n] = k /\ n \in 0 .. n /\ (n + 1) - 1 = n
      BY <1>1, <1>4
    <3>. QED
      BY <1>2, <1>4, <2>4, <3>1
  <2>. QED
    BY <2>1, <2>3, <2>4
<1>7. Counts(upto, heard, u, v)
  BY <1>2, <1>4, <1>5, <1>6 DEF Counts
<1>. QED
  BY <1>2, <1>3, <1>4, <1>7 DEF Aligned

\* The worker reads the first unread message.
LEMMA AlignedTake ==
  ASSUME NEW S, NEW T, NEW heard \in Seq(S), NEW unread \in Seq(T), NEW texts \in Seq(S),
         Aligned(heard, unread, texts), unread # <<>>
  PROVE  /\ Head(unread).type = "text" => Aligned(Append(heard, Head(unread)), Tail(unread), texts)
         /\ Head(unread).type # "text" => Aligned(heard, Tail(unread), texts)
<1>. PICK n \in Nat, k \in Nat, h \in Nat :
        n + 1 = Len(unread) /\ k = Len(texts) /\ h = Len(heard)
  <2>1. Len(unread) \in Nat /\ Len(unread) # 0 /\ Len(texts) \in Nat /\ Len(heard) \in Nat
    BY EmptySeq
  <2>. QED
    BY <2>1
<1>1. PICK at \in [0 .. n + 1 -> 0 .. k] :
       /\ at[0] = h /\ at[n + 1] = k
       /\ \A i \in 1 .. n + 1 :
            /\ unread[i].type = "text" => at[i] = at[i - 1] + 1 /\ texts[at[i]] = unread[i]
            /\ unread[i].type # "text" => at[i] = at[i - 1]
  BY DEF Aligned, Counts
<1>. PICK u : u = Tail(unread)
  OBVIOUS
<1>2. Len(u) = n /\ Head(unread) = unread[1] /\ \A i \in 1 .. n : u[i] = unread[i + 1]
  BY HeadTailProperties
<1> DEFINE upto == [i \in 0 .. n |-> at[i + 1]]
<1>3. upto \in [0 .. n -> 0 .. k] /\ \A i \in 0 .. n : upto[i] = at[i + 1]
  <2>1. \A i \in 0 .. n : i + 1 \in 0 .. n + 1
    OBVIOUS
  <2>. QED
    BY <1>1, <2>1
<1> HIDE DEF upto
<1>4. ASSUME NEW i \in 1 .. n
      PROVE  /\ u[i].type = "text" => upto[i] = upto[i - 1] + 1 /\ texts[upto[i]] = u[i]
             /\ u[i].type # "text" => upto[i] = upto[i - 1]
  <2>1. i + 1 \in 1 .. n + 1 /\ i \in 0 .. n /\ i - 1 \in 0 .. n /\ (i + 1) - 1 = i
        /\ (i - 1) + 1 = i
    OBVIOUS
  <2>2. upto[i] = at[i + 1] /\ upto[i - 1] = at[i] /\ u[i] = unread[i + 1]
    BY <1>2, <1>3, <2>1
  <2>. QED
    BY <1>1, <2>1, <2>2
<1>5. upto[0] = at[1] /\ upto[n] = k /\ 1 \in 1 .. n + 1
  BY <1>1, <1>3
<1>6. h <= k /\ \A i \in 1 .. h : heard[i] = texts[i]
  BY DEF Aligned
<1>7. ASSUME Head(unread).type # "text" PROVE Aligned(heard, Tail(unread), texts)
  <2>1. upto[0] = h
    BY <1>1, <1>2, <1>5, <1>7
  <2>2. Counts(upto, heard, u, texts)
    BY <1>2, <1>4, <1>5, <2>1 DEF Counts
  <2>. QED
    BY <1>2, <1>3, <1>6, <2>2 DEF Aligned
<1>8. ASSUME Head(unread).type = "text"
      PROVE  Aligned(Append(heard, Head(unread)), Tail(unread), texts)
  <2>1. at[1] = h + 1 /\ texts[h + 1] = Head(unread) /\ at[1] \in 0 .. k
    BY <1>1, <1>2, <1>5, <1>8
  <2>. PICK x : x = Append(heard, Head(unread))
    OBVIOUS
  <2>2. /\ Len(x) = h + 1 /\ x[h + 1] = Head(unread)
        /\ \A i \in 1 .. h : x[i] = heard[i]
    OBVIOUS
  <2>3. \A i \in 1 .. h + 1 : i \in 1 .. h \/ i = h + 1
    BY SMTT(30)
  <2>4. \A i \in 1 .. h + 1 : x[i] = texts[i]
    BY <1>6, <2>1, <2>2, <2>3
  <2>5. Counts(upto, x, u, texts)
    BY <1>2, <1>4, <1>5, <2>1, <2>2 DEF Counts
  <2>6. Len(x) <= Len(texts) /\ \A i \in 1 .. Len(x) : x[i] = texts[i]
    <3>1. h + 1 <= k
      BY <2>1
    <3>. QED
      BY <2>2, <2>4, <3>1
  <2>. QED
    BY <1>2, <1>3, <2>5, <2>6 DEF Aligned
<1>. QED
  BY <1>7, <1>8

\* When only the end of the turn is left to read, all has been heard.
LEMMA AlignedAtLast ==
  ASSUME NEW S, NEW T, NEW heard \in Seq(S), NEW unread \in Seq(T), NEW texts \in Seq(S),
         Aligned(heard, unread, texts), Len(unread) = 1, unread[1].type # "text"
  PROVE  heard = texts
<1>1. PICK at \in [0 .. 1 -> 0 .. Len(texts)] :
        at[0] = Len(heard) /\ at[1] = Len(texts) /\ at[1] = at[1 - 1]
  BY DEF Aligned, Counts
<1>2. Len(heard) = Len(texts) /\ \A i \in 1 .. Len(heard) : heard[i] = texts[i]
  BY <1>1 DEF Aligned
<1>. QED
  BY <1>2, SeqEqual

-----------------------------------------------------------------------------
(* The conversation.                                                       *)

Stops == [type : {"stop"}, reason : {"end_turn", "cancelled"}]

\* What is in the session.
Typed ==
  /\ inbox \in Seq(Says \cup Stops) /\ output \in Seq(Says)
  /\ said \in Seq(Seq(Says)) /\ Len(said) = prompts

\* A stop is the last message, and the agent is at rest after it.
Stopped == \A i \in 1 .. Len(inbox) : inbox[i].type = "stop" => i = Len(inbox) /\ ~open

\* The worker loses nothing of a turn.
Heard == worker = "turn" => Aligned(output, inbox, said[prompts])

\* A worker that ended well has heard the end of a turn, and a strict result is
\* all that was said to its prompt.
Concluded ==
  /\ result \in {"completed", "cancelled"} => ~open
  /\ result = "completed" => prompts > 0 /\ IsStrict(said[prompts])

\* The parts of the conversation.
Conversation == Typed /\ Stopped /\ Heard /\ Concluded

\* Nothing happens to a conversation that is only looked at, or given up.
LEMMA ConversationStays ==
  ASSUME Conversation, UNCHANGED agent, UNCHANGED <<prompts, output>>,
         worker' = "turn" => worker = "turn",
         result' \in {"completed", "cancelled"} => result' = result
  PROVE  Conversation'
BY DEF Conversation, Typed, Stopped, Heard, Concluded, agent

\* The agent speaks.
LEMMA SaysKeeps ==
  ASSUME Control, WorkerInPlace, Conversation, NEW m \in Says, AgentSays(m)
  PROVE  Conversation'
<1>. PICK p : p = prompts
  OBVIOUS
<1>1. /\ open /\ open' = open /\ inbox' = Append(inbox, m) /\ m.type # "stop"
      /\ said' = [said EXCEPT ![p] = IF m.type = "text" THEN Append(@, m) ELSE @]
      /\ worker' = worker /\ result' = result /\ prompts' = p /\ output' = output
  BY SaysAssumption DEF AgentSays, agent, turnVars
<1>2. /\ p \in 1 .. Len(said) /\ said[p] \in Seq(Says) /\ m \in Says \cup Stops
      /\ inbox \in Seq(Says \cup Stops) /\ said \in Seq(Seq(Says))
  BY <1>1 DEF Control, WorkerInPlace, Conversation, Typed
<1>3. /\ said' \in Seq(Seq(Says)) /\ Len(said') = Len(said)
      /\ said'[p] = IF m.type = "text" THEN Append(said[p], m) ELSE said[p]
  <2>1. PICK e : e = IF m.type = "text" THEN Append(said[p], m) ELSE said[p]
    OBVIOUS
  <2>2. e \in Seq(Says)
    BY <1>2, <2>1, AppendProperties
  <2>3. said' = [said EXCEPT ![p] = e]
    BY <1>1, <2>1
  <2>. QED
    BY <1>2, <2>1, <2>2, <2>3, ExceptSeq
<1>4. Typed'
  BY <1>1, <1>2, <1>3, AppendProperties DEF Conversation, Typed
<1>5. Stopped'
  <2>1. /\ Len(inbox') = Len(inbox) + 1 /\ inbox'[Len(inbox) + 1] = m /\ Len(inbox) \in Nat
        /\ \A i \in 1 .. Len(inbox) : inbox'[i] = inbox[i]
    BY <1>1, <1>2
  <2>2. \A i \in 1 .. Len(inbox) : inbox[i].type # "stop"
    BY <1>1 DEF Conversation, Stopped
  <2>3. \A i \in 1 .. Len(inbox) + 1 : i \in 1 .. Len(inbox) \/ i = Len(inbox) + 1
    BY <2>1
  <2>4. \A i \in 1 .. Len(inbox') : inbox'[i].type # "stop"
    BY <1>1, <2>1, <2>2, <2>3
  <2>. QED
    BY <2>4 DEF Stopped
<1>6. Heard'
  <2>1. SUFFICES ASSUME worker = "turn" PROVE Aligned(output', inbox', said'[p])
    BY <1>1 DEF Heard
  <2>. PICK h, u, t : h = output /\ u = inbox /\ t = said[p]
    OBVIOUS
  <2>2. Aligned(h, u, t) /\ h \in Seq(Says) /\ u \in Seq(Says \cup Stops) /\ t \in Seq(Says)
    BY <1>2, <2>1 DEF Conversation, Heard, Typed
  <2>3. m.type = "text" => Aligned(h, Append(u, m), Append(t, m))
    BY <1>2, <2>2, AlignedText
  <2>4. m.type # "text" => Aligned(h, Append(u, m), t)
    BY <1>2, <2>2, AlignedSay
  <2>. QED
    BY <1>1, <1>3, <2>3, <2>4
<1>7. Concluded'
  BY <1>1 DEF Conversation, Concluded
<1>. QED
  BY <1>4, <1>5, <1>6, <1>7 DEF Conversation

\* The agent ends its turn.
LEMMA StopKeeps ==
  ASSUME Control, WorkerInPlace, Conversation, NEW r \in {"end_turn", "cancelled"}, AgentStops(r)
  PROVE  Conversation'
<1>. PICK m : m = [type |-> "stop", reason |-> r]
  OBVIOUS
<1>1. /\ open /\ open' = FALSE /\ inbox' = Append(inbox, m)
      /\ said' = said /\ worker' = worker /\ result' = result /\ prompts' = prompts
      /\ output' = output
  BY DEF AgentStops, turnVars
<1>2. /\ m \in Says \cup Stops /\ m.type = "stop" /\ inbox \in Seq(Says \cup Stops)
  BY DEF Stops, Conversation, Typed
<1>3. Typed'
  BY <1>1, <1>2, AppendProperties DEF Conversation, Typed
<1>4. Stopped'
  <2>1. /\ Len(inbox') = Len(inbox) + 1 /\ Len(inbox) \in Nat
        /\ \A i \in 1 .. Len(inbox) : inbox'[i] = inbox[i]
    BY <1>1, <1>2
  <2>2. \A i \in 1 .. Len(inbox) : inbox[i].type # "stop"
    BY <1>1 DEF Conversation, Stopped
  <2>3. \A i \in 1 .. Len(inbox) + 1 : i \in 1 .. Len(inbox) \/ i = Len(inbox) + 1
    BY <2>1
  <2>. QED
    BY <1>1, <2>1, <2>2, <2>3 DEF Stopped
<1>5. Heard'
  <2>1. SUFFICES ASSUME worker = "turn" PROVE Aligned(output, inbox', said[prompts])
    BY <1>1 DEF Heard
  <2>. PICK h, u, t : h = output /\ u = inbox /\ t = said[prompts]
    OBVIOUS
  <2>2. Aligned(h, u, t) /\ h \in Seq(Says) /\ u \in Seq(Says \cup Stops) /\ t \in Seq(Says)
    BY <1>1, <2>1 DEF Conversation, Heard, Typed, Control, WorkerInPlace
  <2>. QED
    BY <1>1, <1>2, <2>2, AlignedSay
<1>6. Concluded'
  BY <1>1 DEF Conversation, Concluded
<1>. QED
  BY <1>3, <1>4, <1>5, <1>6 DEF Conversation

\* A read takes the first message away; a stop is the only one.
LEMMA ReadKeeps ==
  ASSUME Conversation, inbox # <<>>, inbox' = Rest, open' = open
  PROVE  /\ inbox' \in Seq(Says \cup Stops) /\ Stopped'
         /\ Head(inbox) \in Says \cup Stops
         /\ Head(inbox).type = "stop" => ~open /\ inbox' = <<>> /\ Len(inbox) = 1
         /\ Head(inbox) = inbox[1]
<1>1. /\ inbox \in Seq(Says \cup Stops) /\ Len(inbox) \in Nat /\ Len(inbox) # 0
      /\ Head(inbox) \in Says \cup Stops /\ Head(inbox) = inbox[1]
      /\ inbox' \in Seq(Says \cup Stops) /\ Len(inbox') = Len(inbox) - 1
      /\ \A i \in 1 .. Len(inbox) - 1 : inbox'[i] = inbox[i + 1]
  BY HeadTailProperties, EmptySeq DEF Conversation, Typed, Rest
<1>2. Stopped'
  <2>1. ASSUME NEW i \in 1 .. Len(inbox'), inbox'[i].type = "stop" PROVE i = Len(inbox') /\ ~open
    <3>1. i + 1 \in 1 .. Len(inbox) /\ inbox[i + 1].type = "stop"
      BY <1>1, <2>1
    <3>2. i + 1 = Len(inbox) /\ ~open
      BY <3>1 DEF Conversation, Stopped
    <3>. QED
      BY <1>1, <3>2
  <2>. QED
    BY <2>1 DEF Stopped
<1>3. ASSUME Head(inbox).type = "stop" PROVE ~open /\ inbox' = <<>> /\ Len(inbox) = 1
  <2>1. 1 \in 1 .. Len(inbox)
    BY <1>1
  <2>2. 1 = Len(inbox) /\ ~open
    BY <1>1, <1>3, <2>1 DEF Conversation, Stopped
  <2>3. Len(inbox') = 0
    BY <1>1, <2>2
  <2>. QED
    BY <1>1, <2>2, <2>3, EmptySeq
<1>. QED
  BY <1>1, <1>2, <1>3

\* A prompt into an empty session opens a new turn.
LEMMA PromptKeeps ==
  ASSUME Control, Typed, SendPrompt, inbox' = <<>>, worker' = "turn", result' = "none"
  PROVE  Conversation'
<1>1. /\ prompts' = prompts + 1 /\ output' = <<>> /\ said' = Append(said, <<>>)
      /\ said \in Seq(Seq(Says)) /\ Len(said) = prompts /\ <<>> \in Seq(Says)
  BY DEF SendPrompt, Typed
<1>2. said' \in Seq(Seq(Says)) /\ Len(said') = prompts' /\ said'[prompts'] = <<>>
  BY <1>1, AppendProperties
<1>3. Typed'
  BY <1>1, <1>2 DEF Typed
<1>4. Stopped'
  BY DEF Stopped
<1>5. Heard' /\ Concluded'
  BY <1>1, <1>2, AlignedAtFirst DEF Heard, Concluded
<1>. QED
  BY <1>3, <1>4, <1>5 DEF Conversation

\* The worker reads what is not a stop.
LEMMA TakeKeeps ==
  ASSUME Control, WorkerInPlace, Conversation, TakeUpdate
  PROVE  Conversation'
<1>1. /\ worker = "turn" /\ inbox # <<>> /\ Head(inbox).type # "stop" /\ inbox' = Rest
      /\ open' = open /\ said' = said /\ prompts' = prompts
      /\ output' = IF Head(inbox).type = "text" THEN Append(output, Head(inbox)) ELSE output
      /\ \/ worker' = worker /\ result' = result
         \/ worker' = "ended" /\ result' = "protocol"
  BY DEF TakeUpdate, Ends
<1>2. /\ inbox' \in Seq(Says \cup Stops) /\ Stopped' /\ Head(inbox) \in Says \cup Stops
  BY <1>1, ReadKeeps
<1>3. Head(inbox) \in Says
  BY <1>1, <1>2 DEF Stops
<1>4. Typed'
  BY <1>1, <1>2, <1>3, AppendProperties DEF Conversation, Typed
<1>5. Heard'
  <2>. PICK h, u, t : h = output /\ u = inbox /\ t = said[prompts]
    OBVIOUS
  <2>1. Aligned(h, u, t) /\ h \in Seq(Says) /\ u \in Seq(Says \cup Stops) /\ t \in Seq(Says)
    BY <1>1 DEF Conversation, Heard, Typed, Control, WorkerInPlace
  <2>2. /\ Head(u).type = "text" => Aligned(Append(h, Head(u)), Tail(u), t)
        /\ Head(u).type # "text" => Aligned(h, Tail(u), t)
    BY <1>1, <2>1, AlignedTake
  <2>3. Aligned(output', inbox', said'[prompts'])
    BY <1>1, <2>2 DEF Rest
  <2>. QED
    BY <2>3 DEF Heard
<1>6. Concluded'
  BY <1>1 DEF Control, Conversation, Concluded
<1>. QED
  BY <1>2, <1>4, <1>5, <1>6 DEF Conversation

\* At the end of a turn the worker has heard all of it.
LEMMA TurnKeeps ==
  ASSUME Control, WorkerInPlace, Conversation, TurnEnds
  PROVE  Conversation'
<1>1. /\ worker = "turn" /\ inbox # <<>> /\ Head(inbox).type = "stop" /\ inbox' = Rest
      /\ result = "none"
  BY DEF TurnEnds, Control
<1>2. CASE SendPrompt /\ worker' = worker /\ result' = result
  <2>1. inbox' = <<>>
    <3>1. Len(inbox) = 1
      <4>. PICK u : u = inbox
        OBVIOUS
      <4>1. u \in Seq(Says \cup Stops) /\ Len(u) \in Nat /\ Len(u) # 0 /\ Head(u) = u[1]
        BY <1>1, EmptySeq DEF Conversation, Typed
      <4>2. 1 \in 1 .. Len(u)
        BY <4>1
      <4>. QED
        BY <1>1, <4>1, <4>2 DEF Conversation, Stopped
    <3>2. inbox \in Seq(Says \cup Stops)
      BY DEF Conversation, Typed
    <3>. QED
      BY <1>1, <3>1, <3>2, HeadTailProperties, EmptySeq DEF Rest
  <2>. QED
    BY <1>1, <1>2, <2>1, PromptKeeps DEF Conversation
<1>3. CASE /\ open' = open /\ said' = said /\ prompts' = prompts /\ output' = output
           /\ worker' = "ended"
           /\ result' \in {"protocol", "invalid"} \/ (result' = "completed" /\ Accepts(output))
  <2>1. /\ inbox' \in Seq(Says \cup Stops) /\ Stopped' /\ ~open
        /\ Len(inbox) = 1 /\ Head(inbox) = inbox[1]
    BY <1>1, <1>3, ReadKeeps
  <2>2. Typed'
    BY <1>3, <2>1 DEF Conversation, Typed
  <2>3. Heard'
    BY <1>3 DEF Heard
  <2>4. output = said[prompts] /\ prompts > 0
    <3>. PICK h, u, t : h = output /\ u = inbox /\ t = said[prompts]
      OBVIOUS
    <3>1. /\ Aligned(h, u, t) /\ h \in Seq(Says) /\ u \in Seq(Says \cup Stops) /\ t \in Seq(Says)
          /\ prompts > 0
      BY <1>1 DEF Conversation, Heard, Typed, Control, WorkerInPlace
    <3>2. Len(u) = 1 /\ u[1].type # "text"
      BY <1>1, <2>1
    <3>. QED
      BY <3>1, <3>2, AlignedAtLast
  <2>5. Concluded'
    BY <1>3, <2>1, <2>4 DEF Concluded, Accepts
  <2>. QED
    BY <2>1, <2>2, <2>3, <2>5 DEF Conversation
<1>4. \/ SendPrompt /\ worker' = worker /\ result' = result
      \/ /\ open' = open /\ said' = said /\ prompts' = prompts /\ output' = output
         /\ worker' = "ended"
         /\ result' \in {"protocol", "invalid"} \/ (result' = "completed" /\ Accepts(output))
  BY DEF TurnEnds, Concludes, Ends
<1>. QED
  BY <1>2, <1>3, <1>4

\* The worker waits for the confirmation of a cancellation.
LEMMA CancelKeeps ==
  ASSUME Control, WorkerInPlace, Conversation, CancelReads
  PROVE  Conversation'
<1>1. /\ worker = "cancelling" /\ inbox # <<>> /\ inbox' = Rest /\ open' = open /\ said' = said
      /\ prompts' = prompts /\ output' = output /\ result = "none"
      /\ \/ worker' = worker /\ result' = result
         \/ worker' = "ended" /\ result' = "protocol"
         \/ worker' = "ended" /\ result' = "cancelled" /\ Head(inbox).type = "stop"
  BY DEF CancelReads, Ends, turnVars, Control
<1>2. /\ inbox' \in Seq(Says \cup Stops) /\ Stopped'
      /\ Head(inbox).type = "stop" => ~open
  BY <1>1, ReadKeeps
<1>3. Typed'
  BY <1>1, <1>2 DEF Conversation, Typed
<1>4. Heard'
  BY <1>1 DEF Heard
<1>5. Concluded'
  BY <1>1, <1>2 DEF Concluded
<1>. QED
  BY <1>2, <1>3, <1>4, <1>5 DEF Conversation

\* Nobody else takes part in it.
LEMMA ConversationStep ==
  ASSUME Control, HolderInPlace, WorkerInPlace, Conversation, [Next]_vars
  PROVE  Conversation'
<1>1. CASE \E m \in Says : AgentSays(m)
  BY <1>1, SaysKeeps
<1>2. CASE \E r \in {"end_turn", "cancelled"} : AgentStops(r)
  BY <1>2, StopKeeps
<1>3. CASE TakeUpdate
  BY <1>3, TakeKeeps
<1>4. CASE TurnEnds
  BY <1>4, TurnKeeps
<1>5. CASE CancelReads
  BY <1>5, CancelKeeps
<1>6. CASE FirstPrompt \/ SessionResumes
  <2>1. prompts = 0 /\ inbox = <<>> /\ inbox' = inbox /\ result = "none"
    BY <1>6 DEF FirstPrompt, SessionResumes, Control, WorkerInPlace
  <2>2. CASE SendPrompt /\ worker' = "turn" /\ result' = result
    BY <2>1, <2>2, PromptKeeps DEF Conversation
  <2>3. CASE UNCHANGED <<prompts, open, output, said>> /\ worker' = "ended" /\ result' = "protocol"
    BY <2>1, <2>3 DEF Conversation, Typed, Stopped, Heard, Concluded
  <2>. QED
    BY <1>6, <2>2, <2>3 DEF FirstPrompt, SessionResumes, Ends
<1>7. CASE AgentFails \/ SessionOpens \/ GateDropped \/ NoticeCancel \/ TimesOut
  BY <1>7, ConversationStays DEF AgentFails, SessionOpens, GateDropped, NoticeCancel, TimesOut, Ends,
     turnVars
<1>8. CASE HolderSteps
  BY <1>8, HolderFrame, ConversationStays DEF turnVars
<1>9. CASE Settle \/ Recover \/ Expire
  BY <1>9, ConversationStays DEF Settle, Recover, Expire, turnVars
<1>10. CASE UNCHANGED vars
  BY <1>10, ConversationStays DEF vars, turnVars
<1>. QED
  BY <1>1, <1>2, <1>3, <1>4, <1>5, <1>6, <1>7, <1>8, <1>9, <1>10
     DEF Next, Work, Hold, HolderSteps

-----------------------------------------------------------------------------
(* Answers and records.                                                    *)

\* What an answer tells of the session, and the records of the answer.
Answered ==
  /\ answer = "ok" => result = "completed"
  /\ answer = "cancelled" => result = "cancelled" \/ (mode = "resume" /\ worker = "off")
  /\ binding = "completed" => answer = "ok"
  /\ mode = "driver" /\ answer = "ok" /\ row = "running" => binding = "completed"
  /\ row = "succeeded" => binding = "completed"

\* Who has been answered does not go on, and nothing but an answer completes.
LEMMA AnsweredStep ==
  ASSUME Control, HolderInPlace, WorkerInPlace, Answered, [Next]_vars
  PROVE  Answered'
<1> USE DEF Control, HolderInPlace, Answered
<1>1. CASE WorkerSteps
  BY <1>1, WorkerFrame
<1>2. CASE Start \/ ProbeFails \/ StartResume \/ WaitResumed
  BY <1>2 DEF Start, ProbeFails, StartResume, WaitResumed, Answers, Emits, EmitFails, rows, setting
<1>3. CASE Started \/ Bind
  BY <1>3 DEF Started, Bind, Answers, Ends, rows, setting
<1>4. CASE Wait \/ Cancel
  BY <1>4 DEF Wait, Cancel, Release, Answers, rows, setting
<1>5. CASE Finish
  BY <1>5 DEF Finish, Answers, CompleteBinding
<1>6. CASE StopWaiting \/ Drop \/ CancelResumed
  BY <1>6 DEF StopWaiting, Drop, CancelResumed, Answers, owner, rows, setting
<1>7. CASE Kill
  BY <1>7 DEF Kill, Ends, rows
<1>8. CASE Settle
  BY <1>8 DEF Settle, owner, setting
<1>9. CASE Recover
  BY <1>9 DEF Recover, owner, setting
<1>10. CASE Expire
  BY <1>10 DEF Expire, owner, rows
<1>11. CASE \E m \in Says : AgentSays(m)
  BY <1>11 DEF AgentSays, owner, rows, setting
<1>12. CASE \E r \in {"end_turn", "cancelled"} : AgentStops(r)
  BY <1>12 DEF AgentStops, owner, rows, setting
<1>13. CASE UNCHANGED vars
  BY <1>13 DEF vars, owner, rows, setting
<1>. QED
  BY <1>1, <1>2, <1>3, <1>4, <1>5, <1>6, <1>7, <1>8, <1>9, <1>10, <1>11, <1>12, <1>13
     DEF Next, Work, Hold, WorkerSteps

-----------------------------------------------------------------------------
(* Sizes and numbers.                                                      *)

\* Of naturals one is the least.
LEMMA LeastOf ==
  ASSUME NEW S \in SUBSET Nat, S # {}
  PROVE  \E a \in S : \A b \in S : a <= b
<1> DEFINE R == OpToRel(<, Nat)
<1>1. PICK a \in S : \A b \in S : ~ (<<b, a>> \in R)
  <2> HIDE DEF R
  <2>1. IsWellFoundedOn(R, Nat)
    BY NatLessThanWellFounded DEF R
  <2>. QED
    BY <2>1, WFMin
<1>2. \A b \in S : a <= b
  <2> TAKE b \in S
  <2>1. ~ (b < a)
    BY <1>1 DEF OpToRel
  <2>. QED
    BY <2>1
<1>. QED
  BY <1>2

\* The JSON of a typed event has a size.
LEMMA SizeType ==
  ASSUME NEW e, e.text \in Text, e.items \in Seq(Text)
  PROVE  Size(e) \in Nat
<1>. PICK n \in Nat : n = Len(e.items)
  OBVIOUS
<1>. PICK a \in Nat : a = Json(e.text)
  BY DEF Json, Text
<1> DEFINE cost == [k \in 1 .. n |-> Json(e.items[k])]
<1>1. cost \in [1 .. n -> Nat]
  <2> SUFFICES ASSUME NEW k \in 1 .. n PROVE Json(e.items[k]) \in Nat
    OBVIOUS
  <2>1. e.items[k] \in Text
    OBVIOUS
  <2>. QED
    BY <2>1, SMTT(30) DEF Json, Text
<1> DEFINE next(g) == [k \in 0 .. n |-> IF k = 0 THEN a ELSE g[k - 1] + Json(e.items[k])]
           sum == CHOOSE g : g = next(g)
           Adds(g, m) == g[0] = a /\ \A k \in 1 .. m : g[k] = g[k - 1] + cost[k]
           bad == {m \in 0 .. n : ~ \E g \in [0 .. m -> Nat] : Adds(g, m)}
<1>2. Size(e) = sum[n]
  BY DEF Size
<1>3. bad = {}
  <2> SUFFICES ASSUME bad # {} PROVE FALSE
    OBVIOUS
  <2>1. bad \in SUBSET Nat
    OBVIOUS
  <2>2. PICK m \in bad : \A b \in bad : m <= b
    <3> HIDE DEF bad
    <3>. QED
      BY <2>1, LeastOf
  <2>3. m # 0
    <3>1. [k \in 0 .. 0 |-> a] \in [0 .. 0 -> Nat] /\ Adds([k \in 0 .. 0 |-> a], 0)
      OBVIOUS
    <3>. QED
      BY <3>1
  <2>4. m \in 1 .. n /\ m - 1 \in 0 .. n /\ m - 1 \notin bad
    <3>1. m \in 0 .. n
      BY <2>2
    <3>2. m \in 1 .. n /\ m - 1 \in 0 .. n
      BY <2>3, <3>1
    <3> HIDE DEF bad
    <3>. QED
      BY <2>2, <3>2
  <2>5. PICK g \in [0 .. m - 1 -> Nat] : Adds(g, m - 1)
    BY <2>4
  <2> DEFINE h == [k \in 0 .. m |-> IF k = m THEN g[m - 1] + cost[m] ELSE g[k]]
  <2>6. h \in [0 .. m -> Nat]
    <3> SUFFICES ASSUME NEW k \in 0 .. m
                 PROVE  (IF k = m THEN g[m - 1] + cost[m] ELSE g[k]) \in Nat
      OBVIOUS
    <3>1. m \in Nat \ {0} /\ m - 1 \in 0 .. m - 1 /\ (k # m => k \in 0 .. m - 1)
      BY <2>4
    <3>2. cost[m] \in Nat
      <4> HIDE DEF cost
      <4>. QED
        BY <1>1, <2>4
    <3>. QED
      BY <3>1, <3>2
  <2>7. Adds(h, m)
    <3>1. h[0] = a /\ h[m] = g[m - 1] + cost[m] /\ \A k \in 0 .. m - 1 : h[k] = g[k]
      BY <2>4, <2>5
    <3> HIDE DEF h
    <3>2. ASSUME NEW k \in 1 .. m PROVE h[k] = h[k - 1] + cost[k]
      <4>1. CASE k = m
        BY <2>4, <3>1, <4>1
      <4>2. CASE k # m
        <5>1. k \in 1 .. m - 1 /\ k \in 0 .. m - 1 /\ k - 1 \in 0 .. m - 1
          BY <2>4, <4>2
        <5>. QED
          BY <2>5, <3>1, <5>1
      <4>. QED
        BY <4>1, <4>2
    <3>. QED
      BY <3>1, <3>2
  <2>. QED
    BY <2>2, <2>6, <2>7
<1>4. PICK g \in [0 .. n -> Nat] : Adds(g, n)
  <2>1. n \in 0 .. n /\ n \notin bad
    <3> HIDE DEF bad
    <3>. QED
      BY <1>3
  <2>. QED
    BY <2>1
<1>5. g = next(g)
  <2>1. \A k \in 0 .. n : g[k] = next(g)[k]
    <3> TAKE k \in 0 .. n
    <3>1. k # 0 => k \in 1 .. n
      OBVIOUS
    <3>. QED
      BY <1>4, <3>1
  <2>2. next(g) = [k \in 0 .. n |-> next(g)[k]] /\ g = [k \in 0 .. n |-> g[k]]
    OBVIOUS
  <2> HIDE DEF next
  <2>. QED
    BY <2>1, <2>2
<1>6. sum = next(sum)
  <2> HIDE DEF next
  <2>. QED
    BY <1>5
<1>7. sum[0] = a /\ \A k \in 1 .. n : sum[k] = sum[k - 1] + Json(e.items[k])
  <2> HIDE DEF sum
  <2>. PICK u : u = sum
    OBVIOUS
  <2>1. u = [k \in 0 .. n |-> IF k = 0 THEN a ELSE u[k - 1] + Json(e.items[k])]
    BY <1>6
  <2>. QED
    BY <2>1
<1> DEFINE wrong == {k \in 0 .. n : sum[k] \notin Nat}
<1>8. wrong = {}
  <2> HIDE DEF sum
  <2> SUFFICES ASSUME wrong # {} PROVE FALSE
    OBVIOUS
  <2>1. wrong \in SUBSET Nat
    OBVIOUS
  <2>2. PICK k \in wrong : \A b \in wrong : k <= b
    <3> HIDE DEF wrong
    <3>. QED
      BY <2>1, LeastOf
  <2>3. k \in 1 .. n /\ sum[k - 1] \in Nat
    <3>1. k # 0
      BY <1>7
    <3>2. k - 1 \in 0 .. n /\ k - 1 \notin wrong
      BY <2>2, <3>1
    <3>. QED
      BY <3>1, <3>2
  <2>4. Json(e.items[k]) \in Nat
    BY <1>1, <2>3
  <2>. QED
    BY <1>7, <2>2, <2>3, <2>4
<1>9. n \in 0 .. n /\ n \notin wrong
  <2> HIDE DEF wrong
  <2>. QED
    BY <1>8
<1>. QED
  BY <1>2, <1>9

-----------------------------------------------------------------------------
(* Limits.                                                                 *)

\* An event as it may be made: what lists something has a text of known size.
Shaped(e) ==
  /\ e = [kind |-> e.kind, text |-> e.text, items |-> e.items]
  /\ e.text = [len |-> e.text.len, cost |-> e.text.cost]
  /\ e.items \in Seq(Text)
  /\ e.items # <<>> => e.text \in Text

\* ... and one whose fields have been bounded.
Cut(e) ==
  /\ Shaped(e) /\ Truncate(e.text) = e.text
  /\ Len(e.items) <= MaxItems /\ \A i \in 1 .. Len(e.items) : Truncate(e.items[i]) = e.items[i]

Fits(e, room) == e.items = <<>> \/ Size(e) <= room

\* A text is cut once.
LEMMA TruncateIs ==
  ASSUME NEW x, x = [len |-> x.len, cost |-> x.cost]
  PROVE  /\ Truncate(x) = [len |-> Truncate(x).len, cost |-> Truncate(x).cost]
         /\ Truncate(Truncate(x)) = Truncate(x)
         /\ x \in Text => Truncate(x) \in Text
<1>1. MaxText \in Nat
  BY EventAssumption
<1>2. CASE x.len <= MaxText
  <2>1. Truncate(x) = x
    BY <1>2 DEF Truncate
  <2>. QED
    BY <2>1
<1>3. CASE ~ (x.len <= MaxText)
  <2>1. Truncate(x) = [len |-> MaxText, cost |-> x.cost]
    BY <1>3 DEF Truncate
  <2>2. Truncate([len |-> MaxText, cost |-> x.cost]) = [len |-> MaxText, cost |-> x.cost]
    BY <1>1 DEF Truncate
  <2>3. x \in Text => [len |-> MaxText, cost |-> x.cost] \in Text
    BY <1>1 DEF Text
  <2>. QED
    BY <2>1, <2>2, <2>3
<1>. QED
  BY <1>2, <1>3

\* Bounding the fields cuts them, and leaves those alone that are cut.
LEMMA FieldsAreCut ==
  ASSUME NEW e, Shaped(e)
  PROVE  /\ Cut(BoundedFields(e)) /\ BoundedFields(e).kind = e.kind
         /\ Cut(e) => BoundedFields(e) = e
<1>. PICK n \in Nat : n = IF Len(e.items) < MaxItems THEN Len(e.items) ELSE MaxItems
  BY EventAssumption DEF Shaped
<1>1. n <= MaxItems /\ n <= Len(e.items) /\ Len(e.items) \in Nat /\ MaxItems \in Nat
  BY EventAssumption DEF Shaped
<1>. PICK s : s = [i \in 1 .. n |-> Truncate(e.items[i])]
  OBVIOUS
<1>2. BoundedFields(e) = [kind |-> e.kind, text |-> Truncate(e.text), items |-> s]
  <2>1. e = [kind |-> e.kind, text |-> e.text, items |-> e.items]
    BY DEF Shaped
  <2>2. BoundedFields(e) = [e EXCEPT !.text = Truncate(e.text), !.items = s]
    BY DEF BoundedFields
  <2>. QED
    BY <2>1, <2>2
<1>3. ASSUME NEW i \in 1 .. n
      PROVE  Truncate(e.items[i]) \in Text /\ Truncate(Truncate(e.items[i])) = Truncate(e.items[i])
  <2>1. e.items[i] \in Text
    BY <1>1 DEF Shaped
  <2>2. e.items[i] = [len |-> e.items[i].len, cost |-> e.items[i].cost]
    BY <2>1 DEF Text
  <2>. QED
    BY <2>1, <2>2, TruncateIs
<1>4. s \in Seq(Text) /\ Len(s) = n /\ \A i \in 1 .. n : s[i] = Truncate(e.items[i])
  BY <1>3
<1>5. s # <<>> => e.items # <<>>
  BY <1>1, <1>4
<1>6. /\ Truncate(e.text) = [len |-> Truncate(e.text).len, cost |-> Truncate(e.text).cost]
      /\ Truncate(Truncate(e.text)) = Truncate(e.text)
      /\ e.text \in Text => Truncate(e.text) \in Text
  BY TruncateIs DEF Shaped
<1>7. Cut([kind |-> e.kind, text |-> Truncate(e.text), items |-> s])
  <2>. PICK t : t = Truncate(e.text)
    OBVIOUS
  <2>. PICK f : f = [kind |-> e.kind, text |-> t, items |-> s]
    OBVIOUS
  <2>1. f.kind = e.kind /\ f.text = t /\ f.items = s
    OBVIOUS
  <2>2. f = [kind |-> f.kind, text |-> f.text, items |-> f.items]
    OBVIOUS
  <2>3. Shaped(f)
    BY <1>4, <1>5, <1>6, <2>1, <2>2 DEF Shaped
  <2>4. Truncate(f.text) = f.text
    BY <1>6, <2>1
  <2>5. Len(f.items) <= MaxItems /\ \A i \in 1 .. Len(f.items) : Truncate(f.items[i]) = f.items[i]
    BY <1>1, <1>3, <1>4, <2>1
  <2>. QED
    BY <2>3, <2>4, <2>5, SMTT(30) DEF Cut
<1>8. Cut(e) => BoundedFields(e) = e
  <2> SUFFICES ASSUME Cut(e) PROVE BoundedFields(e) = e
    OBVIOUS
  <2>1. Truncate(e.text) = e.text /\ n = Len(e.items)
    BY <1>1 DEF Cut
  <2>2. s = e.items
    <3>1. \A i \in 1 .. n : s[i] = e.items[i]
      BY <1>4, <2>1 DEF Cut
    <3>. QED
      BY <1>4, <2>1, <3>1, SeqEqual DEF Shaped
  <2>3. e = [kind |-> e.kind, text |-> e.text, items |-> e.items]
    BY DEF Shaped
  <2>. QED
    BY <1>2, <2>1, <2>2, <2>3
<1>. QED
  BY <1>2, <1>7, <1>8

\* Of naturals with a bound one is the greatest.
LEMMA GreatestOf ==
  ASSUME NEW n \in Nat, NEW S \in SUBSET (0 .. n), S # {}
  PROVE  \E k \in S : \A j \in S : j <= k
<1> DEFINE gaps == {n - i : i \in S}
<1>1. gaps \in SUBSET Nat /\ gaps # {}
  <2>1. \A i \in S : n - i \in Nat
    OBVIOUS
  <2>. QED
    BY <2>1
<1>2. PICK g \in gaps : \A h \in gaps : g <= h
  <2> HIDE DEF gaps
  <2>. QED
    BY <1>1, LeastOf
<1>3. PICK k \in S : g = n - k
  OBVIOUS
<1>4. ASSUME NEW j \in S PROVE j <= k
  <2>1. n - k <= n - j /\ j \in Nat /\ k \in Nat
    BY <1>2, <1>3
  <2>. QED
    BY <2>1
<1>. QED
  BY <1>4

\* Dropping items makes an event fit, and leaves one alone that does.
LEMMA DropTailIs ==
  ASSUME NEW e, Cut(e), NEW room
  PROVE  /\ Cut(DropTail(e, room)) /\ DropTail(e, room).kind = e.kind
         /\ Fits(DropTail(e, room), room)
         /\ Fits(e, room) => DropTail(e, room) = e
<1> DEFINE first(n) == [e EXCEPT !.items = SubSeq(e.items, 1, n)]
           keep == {n \in 0 .. Len(e.items) : Size(first(n)) <= room}
           most == CHOOSE n \in keep : \A k \in keep : k <= n
<1>1. /\ e = [kind |-> e.kind, text |-> e.text, items |-> e.items]
      /\ e.items \in Seq(Text) /\ Len(e.items) \in Nat
  BY DEF Cut, Shaped
<1>2. ASSUME NEW n \in 0 .. Len(e.items)
      PROVE  /\ first(n) = [kind |-> e.kind, text |-> e.text, items |-> SubSeq(e.items, 1, n)]
             /\ SubSeq(e.items, 1, n) \in Seq(Text) /\ Len(SubSeq(e.items, 1, n)) = n
             /\ \A i \in 1 .. n : SubSeq(e.items, 1, n)[i] = e.items[i]
             /\ n = 0 => SubSeq(e.items, 1, n) = <<>>
             /\ n = Len(e.items) => SubSeq(e.items, 1, n) = e.items
  <2>1. first(n) = [kind |-> e.kind, text |-> e.text, items |-> SubSeq(e.items, 1, n)]
    <3>1. \A s : [e EXCEPT !.items = s] = [kind |-> e.kind, text |-> e.text, items |-> s]
      BY <1>1
    <3>. QED
      BY <3>1
  <2>2. /\ SubSeq(e.items, 1, n) \in Seq(Text) /\ Len(SubSeq(e.items, 1, n)) = n
        /\ \A i \in 1 .. n : SubSeq(e.items, 1, n)[i] = e.items[i]
    BY <1>1
  <2>3. n = 0 => SubSeq(e.items, 1, n) = <<>>
    BY <2>2
  <2>4. n = Len(e.items) => SubSeq(e.items, 1, n) = e.items
    BY <1>1, <2>2, SeqEqual
  <2>. QED
    BY <2>1, <2>2, <2>3, <2>4
<1>3. ASSUME NEW n \in 0 .. Len(e.items)
      PROVE  Cut(first(n)) /\ first(n).kind = e.kind /\ (n = Len(e.items) => first(n) = e)
             /\ (n = 0 => first(n).items = <<>>)
  <2>. PICK s : s = SubSeq(e.items, 1, n)
    OBVIOUS
  <2>. PICK f : f = [kind |-> e.kind, text |-> e.text, items |-> s]
    OBVIOUS
  <2>1. f.kind = e.kind /\ f.text = e.text /\ f.items = s
        /\ f = [kind |-> f.kind, text |-> f.text, items |-> f.items]
    OBVIOUS
  <2>2. s \in Seq(Text) /\ Len(s) = n /\ \A i \in 1 .. n : s[i] = e.items[i]
    BY <1>2
  <2>3. s # <<>> => e.items # <<>>
    BY <1>1, <2>2
  <2>4. Shaped(f)
    BY <2>1, <2>2, <2>3 DEF Cut, Shaped
  <2>5. Len(s) <= MaxItems /\ \A i \in 1 .. Len(s) : Truncate(s[i]) = s[i]
    BY <1>1, <2>2, EventAssumption DEF Cut
  <2>6. Cut(f)
    BY <2>1, <2>4, <2>5 DEF Cut
  <2>. QED
    BY <1>1, <1>2, <2>1, <2>6
<1>4. DropTail(e, room) = [e EXCEPT !.items = IF keep = {} THEN <<>> ELSE SubSeq(e.items, 1, most)]
  BY DEF DropTail
<1>5. CASE keep = {}
  <2>1. 0 \in 0 .. Len(e.items)
    BY <1>1
  <2>2. DropTail(e, room) = first(0)
    BY <1>2, <1>4, <1>5, <2>1
  <2>3. Fits(first(0), room)
    BY <1>3, <2>1 DEF Fits
  <2>4. Fits(e, room) => Len(e.items) = 0
    <3>1. Len(e.items) \in 0 .. Len(e.items) /\ Len(e.items) \notin keep
      <4> HIDE DEF keep
      <4>. QED
        BY <1>1, <1>5
    <3>2. ~ (Size(e) <= room)
      BY <1>3, <3>1
    <3>. QED
      BY <3>2 DEF Fits
  <2>5. Fits(e, room) => first(0) = e
    BY <1>3, <2>1, <2>4
  <2> HIDE DEF first
  <2>. QED
    BY <1>3, <2>1, <2>2, <2>3, <2>5
<1>6. CASE keep # {}
  <2>1. keep \in SUBSET (0 .. Len(e.items))
    OBVIOUS
  <2>2. most \in keep /\ \A k \in keep : k <= most
    <3> HIDE DEF keep
    <3>1. \E n \in keep : \A k \in keep : k <= n
      BY <1>1, <1>6, <2>1, GreatestOf
    <3>. QED
      BY <3>1
  <2>3. DropTail(e, room) = first(most)
    BY <1>4, <1>6
  <2>4. most \in 0 .. Len(e.items) /\ Size(first(most)) <= room
    <3> HIDE DEF most
    <3>. QED
      BY <2>2
  <2>5. Fits(first(most), room)
    BY <2>4 DEF Fits
  <2>6. Fits(e, room) => most = Len(e.items)
    <3> HIDE DEF most
    <3> SUFFICES ASSUME Fits(e, room) PROVE most = Len(e.items)
      OBVIOUS
    <3>1. CASE e.items = <<>>
      BY <2>4, <3>1
    <3>2. CASE Size(e) <= room
      <4>1. Len(e.items) \in 0 .. Len(e.items)
        BY <1>1
      <4>2. first(Len(e.items)) = e
        BY <1>3, <4>1
      <4>3. Len(e.items) \in keep
        BY <3>2, <4>1, <4>2
      <4> HIDE DEF keep
      <4>4. Len(e.items) <= most
        BY <2>2, <4>3
      <4>. QED
        BY <1>1, <2>4, <4>4
    <3>. QED
      BY <3>1, <3>2 DEF Fits
  <2> HIDE DEF first, most, keep
  <2>. QED
    BY <1>3, <2>3, <2>4, <2>5, <2>6
<1>. QED
  BY <1>5, <1>6

\* What has been bounded is bounded: the journal cuts nothing that the observer
\* has seen (runtime_event.rs:54-83).
LEMMA BoundedIs ==
  ASSUME NEW e, Shaped(e)
  PROVE  /\ Bounded(e).kind = e.kind /\ Durable(Bounded(e)) = Durable(e)
         /\ Bounded(Bounded(e)) = Bounded(e) /\ Stored(e) = Bounded(e)
<1>. PICK room \in Nat : room = IF Envelope < MaxPayload THEN MaxPayload - Envelope ELSE 0
  BY EventAssumption
<1>1. room <= MaxPayload /\ MaxPayload \in Nat
  BY EventAssumption
<1>. PICK f : f = BoundedFields(e)
  OBVIOUS
<1>. PICK g : g = DropTail(f, MaxPayload)
  OBVIOUS
<1>. PICK h : h = DropTail(g, room)
  OBVIOUS
<1>2. Bounded(e) = h
  BY DEF Bounded, BoundedEvent
<1>3. Cut(f) /\ f.kind = e.kind
  BY FieldsAreCut
<1>4. Cut(g) /\ g.kind = e.kind
  BY <1>3, DropTailIs
<1>5. Cut(h) /\ h.kind = e.kind /\ Fits(h, room)
  BY <1>4, DropTailIs
<1>6. Fits(h, MaxPayload)
  <2>1. CASE h.items = <<>>
    BY <2>1 DEF Fits
  <2>2. CASE h.items # <<>>
    <3>1. Size(h) \in Nat
      BY <1>5, <2>2, SizeType DEF Cut, Shaped
    <3>2. Size(h) <= room
      BY <1>5, <2>2 DEF Fits
    <3>. QED
      BY <1>1, <3>1, <3>2 DEF Fits
  <2>. QED
    BY <2>1, <2>2
<1>7. BoundedFields(h) = h
  BY <1>5, FieldsAreCut DEF Cut
<1>8. DropTail(h, MaxPayload) = h /\ DropTail(h, room) = h
  BY <1>5, <1>6, DropTailIs
<1>9. Bounded(h) = h
  BY <1>7, <1>8 DEF Bounded, BoundedEvent
<1>. QED
  BY <1>2, <1>5, <1>9 DEF Stored, Durable

-----------------------------------------------------------------------------
(* What is durable among events.                                           *)

\* The places of the durable events, in their order.
At(e) == {i \in DOMAIN e : Durable(e[i])}
Places(S) == [n \in 1 .. Cardinality(S) |-> CHOOSE i \in S : Cardinality({j \in S : j <= i}) = n]

\* Places are told by their order: whoever lists S in ascending order lists
\* what Places does.
LEMMA PlacesAre ==
  ASSUME NEW S \in SUBSET Nat, NEW n \in Nat, NEW f \in [1 .. n -> S],
         \A i, j \in 1 .. n : i < j => f[i] < f[j],
         \A s \in S : \E i \in 1 .. n : f[i] = s
  PROVE  IsFiniteSet(S) /\ Cardinality(S) = n /\ Places(S) = f
<1> DEFINE upto(k) == {j \in S : j <= k}
<1>0. \A i \in 1 .. n : f[i] \in S /\ f[i] \in Nat
  OBVIOUS
<1>1. \A i, j \in 1 .. n : i # j => f[i] # f[j]
  <2> TAKE i, j \in 1 .. n
  <2>1. f[i] \in Nat /\ f[j] \in Nat
    BY <1>0
  <2>2. i < j \/ j < i \/ i = j
    OBVIOUS
  <2>3. (i < j => f[i] < f[j]) /\ (j < i => f[j] < f[i])
    OBVIOUS
  <2>4. \A a, b \in Nat : a < b => a # b
    OBVIOUS
  <2>. QED
    BY <2>1, <2>2, <2>3, <2>4
<1>2. IsFiniteSet(S) /\ Cardinality(S) = n
  <2>1. f \in Bijection(1 .. n, S)
    BY <1>1 DEF Bijection, Injection, Surjection, IsInjective
  <2>2. ExistsBijection(1 .. n, S)
    BY <2>1 DEF ExistsBijection
  <2>. QED
    BY <2>2, FS_CountingElements, FS_NatBijection
<1>3. ASSUME NEW i \in 1 .. n PROVE Cardinality(upto(f[i])) = i
  <2>. PICK T : T = upto(f[i])
    OBVIOUS
  <2>. PICK g : g = [k \in 1 .. i |-> f[k]]
    OBVIOUS
  <2>1. \A k \in 1 .. i : k \in 1 .. n /\ f[k] \in T
    <3> TAKE k \in 1 .. i
    <3>1. k \in 1 .. n /\ (k = i \/ k < i)
      OBVIOUS
    <3>2. f[k] \in S /\ f[k] \in Nat /\ f[i] \in Nat
      BY <1>0, <3>1
    <3>3. k = i \/ f[k] < f[i]
      BY <3>1
    <3>. QED
      BY <3>1, <3>2, <3>3
  <2>2. \A s \in T : \E k \in 1 .. i : g[k] = s
    <3> TAKE s \in T
    <3>1. PICK k \in 1 .. n : f[k] = s
      OBVIOUS
    <3>2. ~ (i < k)
      <4>1. f[k] <= f[i]
        BY <3>1
      <4>2. f[k] \in Nat /\ f[i] \in Nat
        BY <1>0, <3>1
      <4>3. i < k => f[i] < f[k]
        BY <3>1
      <4>. QED
        BY <4>1, <4>2, <4>3
    <3>. QED
      BY <3>1, <3>2
  <2>3. g \in [1 .. i -> T] /\ \A k, l \in 1 .. i : g[k] = g[l] => k = l
    BY <1>1, <2>1
  <2>4. g \in Bijection(1 .. i, T)
    BY <2>2, <2>3 DEF Bijection, Injection, Surjection, IsInjective
  <2>5. ExistsBijection(1 .. i, T)
    BY <2>4 DEF ExistsBijection
  <2>6. i \in Nat
    OBVIOUS
  <2>. QED
    BY <2>5, <2>6, FS_CountingElements
<1> HIDE DEF upto
<1>4. ASSUME NEW i \in 1 .. n
      PROVE  (CHOOSE s \in S : Cardinality(upto(s)) = i) = f[i]
  <2>1. f[i] \in S /\ Cardinality(upto(f[i])) = i
    BY <1>3
  <2>2. \A s \in S : Cardinality(upto(s)) = i => s = f[i]
    <3> TAKE s \in S
    <3>1. PICK k \in 1 .. n : f[k] = s
      OBVIOUS
    <3>. QED
      BY <1>3, <3>1
  <2>. QED
    BY <2>1, <2>2
<1>5. Places(S) = [i \in 1 .. n |-> CHOOSE s \in S : Cardinality(upto(s)) = i]
  BY <1>2 DEF Places, upto
<1>6. Places(S) = [i \in 1 .. n |-> f[i]]
  BY <1>4, <1>5
<1>. QED
  BY <1>2, <1>6

\* The events are a list, and the places of the durable ones are in order.
Listed(s) ==
  /\ s \in Seq(Range(s))
  /\ Cardinality(At(s)) \in Nat
  /\ Places(At(s)) \in [1 .. Cardinality(At(s)) -> At(s)]
  /\ \A i, j \in 1 .. Cardinality(At(s)) : i < j => Places(At(s))[i] < Places(At(s))[j]
  /\ \A k \in At(s) : \E i \in 1 .. Cardinality(At(s)) : Places(At(s))[i] = k

\* The durable events of a list are those at its places.
LEMMA DurablesAre ==
  ASSUME NEW s, Listed(s)
  PROVE  /\ Durables(s) \in Seq(Range(s)) /\ Len(Durables(s)) = Cardinality(At(s))
         /\ Durables(s) = [n \in 1 .. Cardinality(At(s)) |-> s[Places(At(s))[n]]]
<1>. PICK N \in Nat : N = Cardinality(At(s))
  BY DEF Listed
<1>. PICK p \in [1 .. N -> At(s)] : p = Places(At(s))
  BY DEF Listed
<1>1. \A n \in 1 .. N : p[n] = CHOOSE i \in At(s) : Cardinality({j \in At(s) : j <= i}) = n
  BY DEF Places
<1>2. Durables(s) = [n \in 1 .. N |-> s[CHOOSE i \in At(s) : Cardinality({j \in At(s) : j <= i}) = n]]
  BY DEF Durables, At
<1>3. Durables(s) = [n \in 1 .. N |-> s[p[n]]]
  BY <1>1, <1>2
<1>4. \A n \in 1 .. N : s[p[n]] \in Range(s)
  BY DEF At, Range
<1>5. Durables(s) \in Seq(Range(s)) /\ Len(Durables(s)) = N
  BY <1>3, <1>4
<1>. QED
  BY <1>3, <1>5

\* One event more is durable or not.
LEMMA ListedAppend ==
  ASSUME NEW s, Listed(s), NEW x
  PROVE  /\ Listed(Append(s, x))
         /\ Durables(Append(s, x)) = IF Durable(x) THEN Append(Durables(s), x) ELSE Durables(s)
<1>. PICK E : E = Range(s) \cup {x}
  OBVIOUS
<1>. PICK n \in Nat : n = Len(s)
  BY DEF Listed
<1>. PICK N \in Nat : N = Cardinality(At(s))
  BY DEF Listed
<1>. PICK p \in [1 .. N -> At(s)] : p = Places(At(s))
  BY DEF Listed
<1>. PICK t : t = Append(s, x)
  OBVIOUS
<1>1. s \in Seq(E) /\ x \in E /\ t \in Seq(E) /\ Len(t) = n + 1 /\ t[n + 1] = x
      /\ (\A i \in 1 .. n : t[i] = s[i]) /\ DOMAIN s = 1 .. n /\ DOMAIN t = 1 .. n + 1
  <2>1. s \in Seq(E) /\ x \in E
    BY DEF Listed
  <2>. QED
    BY <2>1
<1>2. t \in Seq(Range(t))
  <2>1. \A i \in 1 .. n + 1 : t[i] \in Range(t)
    BY <1>1 DEF Range
  <2>. QED
    BY <1>1, <2>1
<1>3. At(s) \in SUBSET (1 .. n) /\ At(s) \in SUBSET Nat /\ At(t) \in SUBSET Nat
  BY <1>1 DEF At
<1>4. At(t) = IF Durable(x) THEN At(s) \cup {n + 1} ELSE At(s)
  <2>1. \A i \in 1 .. n + 1 : i \in At(t) <=> IF i = n + 1 THEN Durable(x) ELSE i \in At(s)
    <3> TAKE i \in 1 .. n + 1
    <3>1. i \in At(t) <=> Durable(t[i])
      BY <1>1 DEF At
    <3>2. i # n + 1 => i \in 1 .. n /\ t[i] = s[i]
      BY <1>1
    <3>3. i \in 1 .. n => (i \in At(s) <=> Durable(s[i]))
      BY <1>1 DEF At
    <3>. QED
      BY <1>1, <3>1, <3>2, <3>3
  <2>2. At(t) \in SUBSET (1 .. n + 1)
    BY <1>1 DEF At
  <2>3. n + 1 \in 1 .. n + 1 /\ \A i \in 1 .. n : i # n + 1 /\ i \in 1 .. n + 1
    OBVIOUS
  <2>. QED
    BY <1>3, <2>1, <2>2, <2>3
<1>5. /\ \A i, j \in 1 .. N : i < j => p[i] < p[j]
      /\ \A k \in At(s) : \E i \in 1 .. N : p[i] = k
      /\ \A i \in 1 .. N : p[i] \in At(s) /\ p[i] \in 1 .. n
  BY <1>3 DEF Listed
<1>6. Durables(s) = [k \in 1 .. N |-> s[p[k]]] /\ Durables(s) \in Seq(Range(s)) /\ Len(Durables(s)) = N
  BY DurablesAre
<1>7. CASE ~ Durable(x)
  <2>1. At(t) = At(s)
    BY <1>4, <1>7
  <2>2. Listed(t)
    BY <1>2, <2>1 DEF Listed
  <2>3. Durables(t) = [k \in 1 .. N |-> t[p[k]]]
    <3>1. Durables(t) = [k \in 1 .. Cardinality(At(t)) |-> t[Places(At(t))[k]]]
      BY <2>2, DurablesAre
    <3>. QED
      BY <2>1, <3>1
  <2>4. \A k \in 1 .. N : t[p[k]] = s[p[k]]
    BY <1>1, <1>5
  <2>5. Durables(t) = Durables(s)
    BY <1>6, <2>3, <2>4
  <2>. QED
    BY <1>7, <2>2, <2>5
<1>8. CASE Durable(x)
  <2>0. PICK f : f = [k \in 1 .. N + 1 |-> IF k = N + 1 THEN n + 1 ELSE p[k]]
    OBVIOUS
  <2>1. /\ f[N + 1] = n + 1 /\ \A k \in 1 .. N : f[k] = p[k]
        /\ \A k \in 1 .. N + 1 : k = N + 1 \/ k \in 1 .. N
        /\ f = [k \in 1 .. N + 1 |-> f[k]]
    BY <2>0
  <2>2. At(t) = At(s) \cup {n + 1}
    BY <1>4, <1>8
  <2>3. f \in [1 .. N + 1 -> At(t)]
    <3>1. \A k \in 1 .. N + 1 : f[k] \in At(t)
      BY <1>5, <2>1, <2>2
    <3>. QED
      BY <2>1, <3>1
  <2>4. \A i, j \in 1 .. N + 1 : i < j => f[i] < f[j]
    <3> TAKE i, j \in 1 .. N + 1
    <3> HAVE i < j
    <3>1. i \in 1 .. N
      OBVIOUS
    <3>2. CASE j \in 1 .. N
      BY <1>5, <2>1, <3>1, <3>2
    <3>3. CASE j = N + 1
      <4>1. f[i] \in 1 .. n /\ f[j] = n + 1
        BY <1>5, <2>1, <3>1, <3>3
      <4>. QED
        BY <4>1
    <3>. QED
      BY <2>1, <3>2, <3>3
  <2>5. \A k \in At(t) : \E i \in 1 .. N + 1 : f[i] = k
    <3> TAKE k \in At(t)
    <3>1. CASE k = n + 1
      <4>1. N + 1 \in 1 .. N + 1
        OBVIOUS
      <4>. QED
        BY <2>1, <3>1, <4>1
    <3>2. CASE k \in At(s)
      <4>1. PICK i \in 1 .. N : p[i] = k
        BY <1>5, <3>2
      <4>2. i \in 1 .. N + 1
        OBVIOUS
      <4>. QED
        BY <2>1, <4>1, <4>2
    <3>. QED
      BY <2>2, <3>1, <3>2
  <2>6. Cardinality(At(t)) = N + 1 /\ Places(At(t)) = f
    <3>0. PICK M \in Nat : M = N + 1
      OBVIOUS
    <3>1. /\ f \in [1 .. M -> At(t)]
          /\ \A i, j \in 1 .. M : i < j => f[i] < f[j]
          /\ \A k \in At(t) : \E i \in 1 .. M : f[i] = k
      BY <2>3, <2>4, <2>5, <3>0
    <3>2. \A S \in SUBSET Nat, k \in Nat : \A g \in [1 .. k -> S] :
            (/\ \A i, j \in 1 .. k : i < j => g[i] < g[j]
             /\ \A a \in S : \E i \in 1 .. k : g[i] = a)
            => Cardinality(S) = k /\ Places(S) = g
      BY PlacesAre
    <3>3. Cardinality(At(t)) = M /\ Places(At(t)) = f
      <4>1. At(t) \in SUBSET Nat /\ M \in Nat
        BY <1>3
      <4>. QED
        BY <3>1, <3>2, <4>1, ZenonT(60)
    <3>. QED
      BY <3>0, <3>3
  <2>7. Listed(t)
    BY <1>2, <2>3, <2>4, <2>5, <2>6 DEF Listed
  <2>8. Durables(t) = [k \in 1 .. N + 1 |-> t[f[k]]]
    <3>1. Durables(t) = [k \in 1 .. Cardinality(At(t)) |-> t[Places(At(t))[k]]]
      BY <2>7, DurablesAre
    <3>. QED
      BY <2>6, <3>1
  <2>9. Append(Durables(s), x) = [k \in 1 .. N + 1 |-> IF k = N + 1 THEN x ELSE s[p[k]]]
    BY <1>6
  <2>10. \A k \in 1 .. N + 1 : t[f[k]] = IF k = N + 1 THEN x ELSE s[p[k]]
    <3> TAKE k \in 1 .. N + 1
    <3>1. CASE k = N + 1
      BY <1>1, <2>1, <3>1
    <3>2. CASE k \in 1 .. N /\ k # N + 1
      BY <1>1, <1>5, <2>1, <3>2
    <3>. QED
      BY <2>1, <3>1, <3>2
  <2>11. Durables(t) = Append(Durables(s), x)
    <3>1. Durables(t) = [k \in 1 .. N + 1 |-> IF k = N + 1 THEN x ELSE s[p[k]]]
      BY <2>8, <2>10, Zenon
    <3>. QED
      BY <2>9, <3>1, Zenon
  <2>. QED
    BY <1>8, <2>7, <2>11
<1>. QED
  BY <1>7, <1>8

\* Nothing is listed at first.
LEMMA ListedNothing == Listed(<<>>) /\ Durables(<<>>) = <<>>
<1>1. At(<<>>) = {} /\ <<>> \in Seq(Range(<<>>))
  BY EmptySeq DEF At
<1>2. Cardinality({}) = 0 /\ 1 .. 0 = {}
  BY FS_EmptySet
<1>3. Places({}) = <<>>
  BY <1>2 DEF Places
<1>4. Listed(<<>>)
  <2>1. Cardinality(At(<<>>)) = 0 /\ Places(At(<<>>)) = <<>>
    BY <1>1, <1>2, <1>3
  <2>2. <<>> \in [1 .. 0 -> At(<<>>)]
    BY <1>1, <1>2
  <2>3. \A i \in 1 .. 0 : FALSE
    OBVIOUS
  <2>4. 0 \in Nat
    OBVIOUS
  <2>. QED
    BY <1>1, <2>1, <2>2, <2>3, <2>4 DEF Listed
<1>5. Len(Durables(<<>>)) = 0 /\ Durables(<<>>) \in Seq(Range(<<>>))
  BY <1>1, <1>2, <1>4, DurablesAre
<1>. QED
  BY <1>4, <1>5

-----------------------------------------------------------------------------
(* What is shown and what is written of a list of events.                  *)

\* One more at the end.
LEMMA AppendIs ==
  ASSUME NEW E, NEW s \in Seq(E), NEW x \in E
  PROVE  /\ Append(s, x) \in Seq(E) /\ Len(Append(s, x)) = Len(s) + 1
         /\ Append(s, x)[Len(s) + 1] = x /\ \A i \in 1 .. Len(s) : Append(s, x)[i] = s[i]
         /\ Append(s, x) = [i \in 1 .. Len(s) + 1 |-> IF i = Len(s) + 1 THEN x ELSE s[i]]
<1>0. PICK t : t = Append(s, x)
  OBVIOUS
<1>1. t \in Seq(E) /\ Len(t) = Len(s) + 1 /\ t[Len(s) + 1] = x
      /\ \A i \in 1 .. Len(s) : t[i] = s[i]
  BY <1>0, AppendProperties
<1>2. t = [i \in 1 .. Len(s) + 1 |-> t[i]]
  BY <1>1
<1>3. \A i \in 1 .. Len(s) + 1 : t[i] = IF i = Len(s) + 1 THEN x ELSE s[i]
  <2> TAKE i \in 1 .. Len(s) + 1
  <2>1. i = Len(s) + 1 \/ i \in 1 .. Len(s)
    OBVIOUS
  <2>. QED
    BY <1>1, <2>1
<1>4. t = [i \in 1 .. Len(s) + 1 |-> IF i = Len(s) + 1 THEN x ELSE s[i]]
  BY <1>2, <1>3, Zenon
<1>. QED
  BY <1>0, <1>1, <1>4

Seen(e) == [i \in DOMAIN e |-> Bounded(e[i])]
Written(e) == [i \in DOMAIN Durables(e) |-> Stored(Durables(e)[i])]

\* After s the events e are shown whole, and what is durable of them is written.
Emitted(s, e) ==
  /\ Listed(s) /\ Listed(e) /\ Listed(s \o Seen(e))
  /\ Durables(s \o Seen(e)) = Durables(s) \o Written(e)

LEMMA EmittedNothing ==
  ASSUME NEW s, Listed(s)
  PROVE  Emitted(s, <<>>)
<1>1. Seen(<<>>) = <<>> /\ Written(<<>>) = <<>>
  BY ListedNothing DEF Seen, Written
<1>2. s \o <<>> = s /\ Durables(s) \o <<>> = Durables(s)
  BY DurablesAre DEF Listed
<1>. QED
  BY <1>1, <1>2, ListedNothing DEF Emitted

\* One event more is shown, and written if it is durable.
LEMMA EmittedMore ==
  ASSUME NEW s, NEW e, Emitted(s, e), NEW x, Shaped(x)
  PROVE  /\ Emitted(s, Append(e, x))
         /\ s \o Seen(Append(e, x)) = Append(s \o Seen(e), Bounded(x))
         /\ Written(Append(e, x)) = IF Durable(x) THEN Append(Written(e), Bounded(x)) ELSE Written(e)
<1>. PICK b : b = Bounded(x)
  OBVIOUS
<1>1. Durable(b) = Durable(x) /\ Stored(x) = b
  BY BoundedIs
<1>2. PICK E : /\ Range(s) \subseteq E /\ Range(e) \subseteq E /\ x \in E /\ b \in E
               /\ Range(Seen(e)) \subseteq E /\ Range(Written(e)) \subseteq E
  <2> WITNESS Range(s) \cup Range(e) \cup {x, b} \cup Range(Seen(e)) \cup Range(Written(e))
  <2>. QED
    OBVIOUS
<1>0. x \in E /\ b \in E
  BY <1>2
<1>3. s \in Seq(E) /\ e \in Seq(E)
  BY <1>2 DEF Emitted, Listed
<1>4. Durables(s) \in Seq(E) /\ Durables(e) \in Seq(E)
  BY <1>2, DurablesAre DEF Emitted
<1>5. Seen(e) \in Seq(E) /\ Len(Seen(e)) = Len(e) /\ \A i \in 1 .. Len(e) : Seen(e)[i] = Bounded(e[i])
  <2>1. DOMAIN e = 1 .. Len(e) /\ Len(e) \in Nat
    BY <1>3
  <2>2. \A i \in 1 .. Len(e) : Bounded(e[i]) \in Range(Seen(e))
    BY <2>1 DEF Seen, Range
  <2>3. Seen(e) = [i \in 1 .. Len(e) |-> Bounded(e[i])]
    BY <2>1 DEF Seen
  <2>4. \A i \in 1 .. Len(e) : Bounded(e[i]) \in E
    BY <1>2, <2>2
  <2>5. Seen(e) \in [1 .. Len(e) -> E] /\ \A i \in 1 .. Len(e) : Seen(e)[i] = Bounded(e[i])
    BY <2>3, <2>4
  <2>. QED
    BY <2>1, <2>5
<1>6. /\ Written(e) \in Seq(E) /\ Len(Written(e)) = Len(Durables(e))
      /\ \A i \in 1 .. Len(Durables(e)) : Written(e)[i] = Stored(Durables(e)[i])
  <2>1. DOMAIN Durables(e) = 1 .. Len(Durables(e)) /\ Len(Durables(e)) \in Nat
    BY <1>4
  <2>2. \A i \in 1 .. Len(Durables(e)) : Stored(Durables(e)[i]) \in Range(Written(e))
    BY <2>1 DEF Written, Range
  <2>3. Written(e) = [i \in 1 .. Len(Durables(e)) |-> Stored(Durables(e)[i])]
    BY <2>1 DEF Written
  <2>4. \A i \in 1 .. Len(Durables(e)) : Stored(Durables(e)[i]) \in E
    BY <1>2, <2>2
  <2>5. /\ Written(e) \in [1 .. Len(Durables(e)) -> E]
        /\ \A i \in 1 .. Len(Durables(e)) : Written(e)[i] = Stored(Durables(e)[i])
    BY <2>3, <2>4
  <2>. QED
    BY <2>1, <2>5
<1>7. Seen(Append(e, x)) = Append(Seen(e), b)
  <2>0. PICK f \in Seq(E) : f = Append(e, x)
    BY <1>0, <1>3, AppendIs
  <2>1. Len(f) = Len(e) + 1 /\ f[Len(e) + 1] = x /\ \A i \in 1 .. Len(e) : f[i] = e[i]
    BY <1>0, <1>3, <2>0, AppendIs
  <2>2. DOMAIN f = 1 .. Len(e) + 1 /\ Len(e) \in Nat
    BY <1>3, <2>1
  <2>3. Seen(f) = [i \in 1 .. Len(e) + 1 |-> Bounded(f[i])]
    BY <2>2 DEF Seen
  <2>4. Append(Seen(e), b) = [i \in 1 .. Len(e) + 1 |-> IF i = Len(e) + 1 THEN b ELSE Seen(e)[i]]
    BY <1>0, <1>5, AppendIs
  <2>5. \A i \in 1 .. Len(e) + 1 : Bounded(f[i]) = IF i = Len(e) + 1 THEN b ELSE Seen(e)[i]
    <3> TAKE i \in 1 .. Len(e) + 1
    <3>1. i = Len(e) + 1 \/ i \in 1 .. Len(e)
      BY <2>2
    <3>. QED
      BY <1>5, <2>1, <3>1
  <2>. QED
    BY <2>0, <2>3, <2>4, <2>5, Zenon
<1>8. Listed(Append(e, x))
      /\ Durables(Append(e, x)) = IF Durable(x) THEN Append(Durables(e), x) ELSE Durables(e)
  BY ListedAppend DEF Emitted
<1>9. Written(Append(e, x)) = IF Durable(x) THEN Append(Written(e), b) ELSE Written(e)
  <2>1. CASE ~ Durable(x)
    BY <1>8, <2>1 DEF Written
  <2>2. CASE Durable(x)
    <3>0. PICK d \in Seq(E) : d = Durables(e)
      BY <1>4
    <3>1. PICK f \in Seq(E) : f = Append(d, x)
      BY <1>0, AppendIs
    <3>2. Len(f) = Len(d) + 1 /\ f[Len(d) + 1] = x /\ \A i \in 1 .. Len(d) : f[i] = d[i]
      BY <1>0, <3>1, AppendIs
    <3>3. DOMAIN f = 1 .. Len(d) + 1 /\ Len(d) \in Nat
      BY <3>2
    <3>4. Written(Append(e, x)) = [i \in 1 .. Len(d) + 1 |-> Stored(f[i])]
      BY <1>8, <2>2, <3>0, <3>1, <3>3 DEF Written
    <3>5. Append(Written(e), b) = [i \in 1 .. Len(d) + 1 |-> IF i = Len(d) + 1 THEN b ELSE Written(e)[i]]
      BY <1>0, <1>6, <3>0, AppendIs
    <3>6. \A i \in 1 .. Len(d) + 1 : Stored(f[i]) = IF i = Len(d) + 1 THEN b ELSE Written(e)[i]
      <4> TAKE i \in 1 .. Len(d) + 1
      <4>1. i = Len(d) + 1 \/ i \in 1 .. Len(d)
        BY <3>3
      <4>. QED
        BY <1>1, <1>6, <3>0, <3>2, <4>1
    <3>7. Written(Append(e, x)) = Append(Written(e), b)
      BY <3>4, <3>5, <3>6, Zenon
    <3>. QED
      BY <2>2, <3>7
  <2>. QED
    BY <2>1, <2>2
<1>10. s \o Append(Seen(e), b) = Append(s \o Seen(e), b)
  BY <1>2, <1>3, <1>5
<1>11. Durables(s) \o Append(Written(e), b) = Append(Durables(s) \o Written(e), b)
  BY <1>2, <1>4, <1>6
<1>. PICK t : t = s \o Seen(e)
  OBVIOUS
<1>12. Listed(t) /\ Durables(t) = Durables(s) \o Written(e)
  BY DEF Emitted
<1>13. Listed(Append(t, b))
       /\ Durables(Append(t, b)) = IF Durable(b) THEN Append(Durables(t), b) ELSE Durables(t)
  BY <1>12, ListedAppend
<1>14. s \o Seen(Append(e, x)) = Append(t, b)
  BY <1>7, <1>10
<1>15. Durables(s \o Seen(Append(e, x))) = Durables(s) \o Written(Append(e, x))
  <2>1. CASE Durable(x)
    BY <1>1, <1>9, <1>11, <1>12, <1>13, <1>14, <2>1
  <2>2. CASE ~ Durable(x)
    BY <1>1, <1>9, <1>12, <1>13, <1>14, <2>2
  <2>. QED
    BY <2>1, <2>2
<1>16. Emitted(s, Append(e, x))
  BY <1>8, <1>13, <1>14, <1>15 DEF Emitted
<1>. QED
  BY <1>9, <1>14, <1>16

\* Events that may be made: shaped, and at most two at a time.
Makes(e) == e \in Seq(Range(e)) /\ Len(e) <= 2 /\ \A i \in 1 .. Len(e) : Shaped(e[i])

\* The first k are the first k - 1 and one more.
LEMMA FirstMore ==
  ASSUME NEW E, NEW e \in Seq(E), NEW k \in 1 .. Len(e)
  PROVE  SubSeq(e, 1, k) = Append(SubSeq(e, 1, k - 1), e[k]) /\ SubSeq(e, 1, 0) = <<>>
<1>1. \A m \in 0 .. Len(e) :
        /\ SubSeq(e, 1, m) \in Seq(E) /\ Len(SubSeq(e, 1, m)) = m
        /\ \A i \in 1 .. m : SubSeq(e, 1, m)[i] = e[i]
  OBVIOUS
<1>2. k - 1 \in 0 .. Len(e) /\ k \in 0 .. Len(e) /\ 0 \in 0 .. Len(e) /\ e[k] \in E
  OBVIOUS
<1>3. PICK d \in Seq(E) : d = SubSeq(e, 1, k - 1)
  BY <1>1, <1>2
<1>4. Len(d) = k - 1 /\ \A i \in 1 .. k - 1 : d[i] = e[i]
  BY <1>1, <1>2, <1>3
<1>5. /\ Append(d, e[k]) \in Seq(E) /\ Len(Append(d, e[k])) = k
      /\ Append(d, e[k])[k] = e[k] /\ \A i \in 1 .. k - 1 : Append(d, e[k])[i] = d[i]
  BY <1>2, <1>4, AppendIs
<1>6. \A i \in 1 .. k : Append(d, e[k])[i] = e[i]
  <2> TAKE i \in 1 .. k
  <2>1. i = k \/ i \in 1 .. k - 1
    OBVIOUS
  <2>. QED
    BY <1>4, <1>5, <2>1
<1>7. SubSeq(e, 1, k) = Append(d, e[k])
  BY <1>1, <1>2, <1>5, <1>6, SeqEqual
<1>8. SubSeq(e, 1, 0) = <<>>
  BY <1>1, <1>2
<1>. QED
  BY <1>3, <1>7, <1>8

\* Up to any of them they are shown and written.
LEMMA MadeAreEmitted ==
  ASSUME NEW s, Listed(s), NEW e, Makes(e), NEW n \in 0 .. Len(e)
  PROVE  Emitted(s, SubSeq(e, 1, n))
<1>1. e \in Seq(Range(e)) /\ Len(e) \in Nat
  BY DEF Makes
<1>2. SubSeq(e, 1, 0) = <<>>
  BY <1>1
<1>3. Emitted(s, SubSeq(e, 1, 0))
  BY <1>2, EmittedNothing
<1>4. ASSUME NEW k \in 1 .. Len(e)
      PROVE  SubSeq(e, 1, k) = Append(SubSeq(e, 1, k - 1), e[k]) /\ Shaped(e[k])
  BY <1>1, FirstMore DEF Makes
<1>5. ASSUME NEW k \in 1 .. Len(e), Emitted(s, SubSeq(e, 1, k - 1))
      PROVE  Emitted(s, SubSeq(e, 1, k))
  <2>1. PICK d : d = SubSeq(e, 1, k - 1)
    OBVIOUS
  <2>2. Emitted(s, Append(d, e[k]))
    BY <1>4, <1>5, <2>1, EmittedMore
  <2>. QED
    BY <1>4, <2>1, <2>2
<1>6. CASE n = 0
  BY <1>3, <1>6
<1>7. CASE n = 1
  <2>1. 1 \in 1 .. Len(e) /\ 1 - 1 = 0
    BY <1>1, <1>7
  <2>. QED
    BY <1>3, <1>5, <1>7, <2>1
<1>8. CASE n = 2
  <2>1. 1 \in 1 .. Len(e) /\ 1 - 1 = 0 /\ 2 \in 1 .. Len(e) /\ 2 - 1 = 1
    BY <1>1, <1>8
  <2>2. Emitted(s, SubSeq(e, 1, 1))
    BY <1>3, <1>5, <2>1
  <2>. QED
    BY <1>5, <1>8, <2>1, <2>2
<1>9. n = 0 \/ n = 1 \/ n = 2
  BY <1>1 DEF Makes
<1>. QED
  BY <1>6, <1>7, <1>8, <1>9

\* Events that are emitted keep the journal complete.
LEMMA EmitsIs ==
  ASSUME Listed(shown), journal = Durables(shown), NEW e, Makes(e), Emits(e)
  PROVE  /\ Listed(shown') /\ journal' = Durables(shown')
         /\ journal' = journal \o Written(e)
<1>1. e \in Seq(Range(e)) /\ Len(e) \in 0 .. Len(e)
  BY DEF Makes
<1>2. SubSeq(e, 1, Len(e)) = e
  BY <1>1, SeqEqual
<1>3. Emitted(shown, e)
  BY <1>1, <1>2, MadeAreEmitted
<1>4. shown' = shown \o Seen(e) /\ journal' = journal \o Written(e)
  BY DEF Emits, Emit, Seen, Written
<1>. QED
  BY <1>3, <1>4 DEF Emitted

\* A write that fails is of the last event shown.
LEMMA EmitFailsIs ==
  ASSUME Listed(shown), journal = Durables(shown), NEW e, Makes(e), NEW n, EmitFails(e, n)
  PROVE  /\ Listed(shown') /\ n \in 1 .. Len(e)
         /\ journal' = journal \o Written(SubSeq(e, 1, n - 1))
         /\ Durables(shown') = Append(journal', Bounded(e[n]))
<1>1. e \in Seq(Range(e)) /\ Len(e) \in Nat /\ n \in 1 .. Len(e) /\ Durable(e[n]) /\ Shaped(e[n])
  BY DEF Makes, EmitFails
<1>0. PICK d : d = SubSeq(e, 1, n - 1)
  OBVIOUS
<1>2. n - 1 \in 0 .. Len(e)
  BY <1>1
<1>3. Emitted(shown, d)
  BY <1>0, <1>2, MadeAreEmitted
<1>4. Emitted(shown, Append(d, e[n]))
      /\ shown \o Seen(Append(d, e[n])) = Append(shown \o Seen(d), Bounded(e[n]))
  BY <1>1, <1>3, EmittedMore
<1>5. journal' = journal \o Written(d)
  BY <1>0 DEF EmitFails, Written
<1>6. shown' = shown \o Seen(Append(d, e[n]))
  <2>1. d \in Seq(Range(e)) /\ Len(d) = n - 1 /\ e[n] \in Range(e) /\ \A i \in 1 .. n - 1 : d[i] = e[i]
    BY <1>0, <1>1 DEF Range
  <2>2. PICK f : f = Append(d, e[n])
    OBVIOUS
  <2>3. /\ f \in Seq(Range(e)) /\ Len(f) = n /\ f[n] = e[n] /\ \A i \in 1 .. n - 1 : f[i] = d[i]
    BY <1>1, <2>1, <2>2, AppendIs
  <2>4. DOMAIN f = 1 .. n
    BY <2>3
  <2>5. \A i \in 1 .. n : f[i] = e[i]
    <3> TAKE i \in 1 .. n
    <3>1. i = n \/ i \in 1 .. n - 1
      BY <1>1
    <3>. QED
      BY <2>1, <2>3, <3>1
  <2>6. Seen(f) = [i \in 1 .. n |-> Bounded(e[i])]
    BY <2>4, <2>5 DEF Seen
  <2>7. shown' = shown \o [i \in 1 .. n |-> Bounded(e[i])]
    BY DEF EmitFails
  <2>. QED
    BY <2>2, <2>6, <2>7, Zenon
<1>7. Listed(shown') /\ shown' = Append(shown \o Seen(d), Bounded(e[n]))
  BY <1>4, <1>6 DEF Emitted
<1>8. Listed(shown \o Seen(d)) /\ Durables(shown \o Seen(d)) = journal'
  BY <1>3, <1>5 DEF Emitted
<1>9. Durable(Bounded(e[n]))
  BY <1>1, BoundedIs
<1>10. Durables(shown') = Append(journal', Bounded(e[n]))
  BY <1>7, <1>8, <1>9, ListedAppend
<1>. QED
  BY <1>0, <1>1, <1>5, <1>7, <1>10

\* A list is one of what it lists.
LEMMA OwnRange ==
  ASSUME NEW E, NEW s \in Seq(E)
  PROVE  s \in Seq(Range(s))
<1>1. \A i \in 1 .. Len(s) : s[i] \in Range(s)
  BY DEF Range
<1>. QED
  BY <1>1

\* The events of a step are shaped.
LEMMA EventsAreMade ==
  /\ \A k : Makes(<<Event(k, NoText, <<>>)>>)
  /\ Makes(<<Completed>>)
  /\ \A m \in Says : Makes(EventsOf(m))
  /\ \A m \in Says : m.type = "permission" =>
       Len(PermissionEvents(m)) = 2 /\ PermissionEvents(m)[1].kind = "permission_requested"
<1>1. ASSUME NEW x, Shaped(x) PROVE Makes(<<x>>)
  <2>1. PICK e : e = <<x>>
    OBVIOUS
  <2>2. e \in Seq({x}) /\ Len(e) = 1 /\ e[1] = x
    BY <2>1
  <2>3. e \in Seq(Range(e))
    BY <2>2, OwnRange
  <2>. QED
    BY <1>1, <2>1, <2>2, <2>3 DEF Makes
<1>2. ASSUME NEW x, NEW y, Shaped(x), Shaped(y) PROVE Makes(<<x, y>>)
  <2>1. PICK e : e = <<x, y>>
    OBVIOUS
  <2>2. e \in Seq({x, y}) /\ Len(e) = 2 /\ e[1] = x /\ e[2] = y
    BY <2>1
  <2>3. e \in Seq(Range(e))
    BY <2>2, OwnRange
  <2>. QED
    BY <1>2, <2>1, <2>2, <2>3 DEF Makes
<1>3. ASSUME NEW k, NEW t, t = [len |-> t.len, cost |-> t.cost]
      PROVE  Shaped(Event(k, t, <<>>))
  <2>1. PICK x : x = Event(k, t, <<>>)
    OBVIOUS
  <2>2. x.kind = k /\ x.text = t /\ x.items = <<>>
        /\ x = [kind |-> x.kind, text |-> x.text, items |-> x.items]
    BY <2>1 DEF Event
  <2>3. <<>> \in Seq(Text)
    OBVIOUS
  <2>. QED
    BY <1>3, <2>1, <2>2, <2>3 DEF Shaped
<1>4. ASSUME NEW k, NEW s \in Seq(Text)
      PROVE  Shaped(Event(k, NoText, s))
  <2>1. PICK x : x = Event(k, NoText, s)
    OBVIOUS
  <2>2. x.kind = k /\ x.text = NoText /\ x.items = s
        /\ x = [kind |-> x.kind, text |-> x.text, items |-> x.items]
    BY <2>1 DEF Event
  <2>3. NoText \in Text /\ NoText = [len |-> NoText.len, cost |-> NoText.cost]
    BY DEF NoText, Text
  <2>. QED
    BY <2>1, <2>2, <2>3 DEF Shaped
<1>5. NoText = [len |-> NoText.len, cost |-> NoText.cost]
  BY DEF NoText
<1>6. \A k : Makes(<<Event(k, NoText, <<>>)>>)
  BY <1>1, <1>3, <1>5
<1>7. Makes(<<Completed>>)
  <2>1. PICK t : t = [len |-> FoldSeq(LAMBDA m, n : m.text.len + n, 0, output),
                      cost |-> FoldSeq(LAMBDA m, n : IF m.text.cost > n THEN m.text.cost ELSE n, 1,
                                       output)]
    OBVIOUS
  <2>2. t = [len |-> t.len, cost |-> t.cost]
    BY <2>1
  <2>3. Completed = Event("assistant_message_completed", t, <<>>)
    BY <2>1 DEF Completed
  <2>. QED
    BY <1>1, <1>3, <2>2, <2>3
<1>8. ASSUME NEW m \in Says
      PROVE  /\ Makes(EventsOf(m))
             /\ m.type = "permission" =>
                  Len(PermissionEvents(m)) = 2 /\ PermissionEvents(m)[1].kind = "permission_requested"
  <2>1. Makes(<<>>)
    BY EmptySeq DEF Makes
  <2>2. m.type = "text" => Makes(UpdateEvents(m))
    <3> SUFFICES ASSUME m.type = "text" PROVE Makes(UpdateEvents(m))
      OBVIOUS
    <3>1. m.text = [len |-> m.text.len, cost |-> m.text.cost]
      BY SaysAssumption DEF Text
    <3>2. UpdateEvents(m) = <<Event("assistant_message_delta", m.text, <<>>)>>
      BY DEF UpdateEvents
    <3>. QED
      BY <1>1, <1>3, <3>1, <3>2
  <2>3. m.type = "plan" => Makes(UpdateEvents(m))
    <3> SUFFICES ASSUME m.type = "plan" PROVE Makes(UpdateEvents(m))
      OBVIOUS
    <3>1. m.items \in Seq(Text)
      BY SaysAssumption
    <3>2. UpdateEvents(m) = <<Event("plan_updated", NoText, m.items)>>
      BY DEF UpdateEvents
    <3>. QED
      BY <1>1, <1>4, <3>1, <3>2
  <2>4. m.type = "tool" => Makes(UpdateEvents(m))
    <3> SUFFICES ASSUME m.type = "tool" PROVE Makes(UpdateEvents(m))
      OBVIOUS
    <3>1. UpdateEvents(m) = <<Event("tool_call_started", NoText, <<>>),
                              Event("tool_call_completed", NoText, <<>>)>>
      BY DEF UpdateEvents
    <3>. QED
      BY <1>2, <1>3, <1>5, <3>1
  <2>5. m.type \notin {"text", "plan", "tool"} => Makes(UpdateEvents(m))
    BY <2>1 DEF UpdateEvents
  <2>6. m.type = "permission" =>
          /\ Makes(PermissionEvents(m)) /\ Len(PermissionEvents(m)) = 2
          /\ PermissionEvents(m)[1].kind = "permission_requested"
    <3> SUFFICES ASSUME m.type = "permission"
                 PROVE  /\ Makes(PermissionEvents(m)) /\ Len(PermissionEvents(m)) = 2
                        /\ PermissionEvents(m)[1].kind = "permission_requested"
      OBVIOUS
    <3>0. PICK o : o = [i \in DOMAIN m.options |-> [len |-> 1, cost |-> 1]]
      OBVIOUS
    <3>1. o \in Seq(Text)
      <4>1. m.options \in Seq(STRING)
        BY SaysAssumption
      <4>2. [len |-> 1, cost |-> 1] \in Text
        BY DEF Text
      <4>. QED
        BY <3>0, <4>1, <4>2
    <3>2. PermissionEvents(m) = <<Event("permission_requested", NoText, o),
                                  Event("permission_resolved", NoText, <<>>)>>
      BY <3>0 DEF PermissionEvents
    <3>3. Shaped(Event("permission_requested", NoText, o))
          /\ Shaped(Event("permission_resolved", NoText, <<>>))
      BY <1>3, <1>4, <1>5, <3>1
    <3>4. Makes(PermissionEvents(m))
      BY <1>2, <3>2, <3>3
    <3>5. Event("permission_requested", NoText, o).kind = "permission_requested"
      BY DEF Event
    <3>. QED
      BY <3>2, <3>4, <3>5
  <2>. QED
    BY <2>1, <2>2, <2>3, <2>4, <2>5, <2>6 DEF EventsOf
<1>. QED
  BY <1>6, <1>7, <1>8

-----------------------------------------------------------------------------
(* The journal of an execution.                                            *)

\* The requests for permission among what is written.
Asked(j) == {i \in DOMAIN j : j[i].kind = "permission_requested"}

\* The journal has what is durable of the events shown, but for a last one that
\* could not be written: then it ends.
Journaled ==
  /\ Listed(shown) /\ journal \in Seq(Range(journal))
  /\ \/ journal = Durables(shown)
     \/ /\ worker = "ended" \/ (mode = "resume" /\ holder = "done")
        /\ Len(Durables(shown)) = Len(journal) + 1
        /\ Durables(shown) = Append(journal, Durables(shown)[Len(journal) + 1])

\* An answer comes after its request was written, and is what the policy allows.
Decided ==
  /\ decisions \in Seq({"allow", "reject", "cancelled"})
  /\ Len(decisions) <= Cardinality(Asked(journal))
  /\ policy = "deny" => \A i \in 1 .. Len(decisions) : decisions[i] # "allow"

\* What is added to the journal adds to the requests in it.
LEMMA AskedMore ==
  ASSUME NEW E, NEW j \in Seq(E), NEW w \in Seq(E)
  PROVE  /\ Cardinality(Asked(j)) \in Nat /\ Cardinality(Asked(j \o w)) \in Nat
         /\ Cardinality(Asked(j)) <= Cardinality(Asked(j \o w))
         /\ w # <<>> /\ w[1].kind = "permission_requested" =>
              Cardinality(Asked(j)) + 1 <= Cardinality(Asked(j \o w))
<1>1. PICK t \in Seq(E) : t = j \o w
  BY ConcatProperties
<1>2. PICK n \in Nat : n = Len(j)
  OBVIOUS
<1>3. Len(t) = n + Len(w) /\ (\A i \in 1 .. n : t[i] = j[i]) /\ (w # <<>> => t[n + 1] = w[1])
  BY <1>1, <1>2
<1>4. Asked(j) \in SUBSET (1 .. n) /\ Asked(t) \in SUBSET (1 .. Len(t)) /\ Len(t) \in Nat
  BY <1>2 DEF Asked
<1>5. IsFiniteSet(Asked(j)) /\ IsFiniteSet(Asked(t))
  <2>1. IsFiniteSet(1 .. n) /\ IsFiniteSet(1 .. Len(t))
    BY <1>4, FS_Interval
  <2>. QED
    BY <1>4, <2>1, FS_Subset
<1>6. Asked(j) \in SUBSET Asked(t)
  <2> SUFFICES ASSUME NEW i \in Asked(j) PROVE i \in Asked(t)
    OBVIOUS
  <2>1. i \in 1 .. n /\ j[i].kind = "permission_requested"
    BY <1>2 DEF Asked
  <2>2. i \in 1 .. Len(t) /\ t[i] = j[i]
    BY <1>3, <2>1
  <2>. QED
    BY <2>1, <2>2 DEF Asked
<1>7. Cardinality(Asked(j)) \in Nat /\ Cardinality(Asked(t)) \in Nat
      /\ Cardinality(Asked(j)) <= Cardinality(Asked(t))
  BY <1>5, <1>6, FS_Subset, FS_CardinalityType
<1>8. ASSUME w # <<>>, w[1].kind = "permission_requested"
      PROVE  Cardinality(Asked(j)) + 1 <= Cardinality(Asked(t))
  <2>1. n + 1 \in 1 .. Len(t) /\ t[n + 1].kind = "permission_requested"
    BY <1>3, <1>8
  <2>2. n + 1 \in Asked(t)
    BY <2>1 DEF Asked
  <2>3. n + 1 \notin Asked(j)
    BY <1>4
  <2>4. Asked(t) # Asked(j)
    BY <2>2, <2>3
  <2>5. Cardinality(Asked(j)) # Cardinality(Asked(t))
    BY <1>5, <1>6, <2>4, FS_Subset
  <2>. QED
    BY <1>7, <2>5
<1>. QED
  BY <1>1, <1>7, <1>8

\* A request for permission is the first that is written of its two events.
LEMMA RequestComesFirst ==
  ASSUME NEW e, Makes(e), Len(e) = 2, e[1].kind = "permission_requested", NEW n \in {1, 2}
  PROVE  /\ Written(SubSeq(e, 1, n)) \in Seq(Range(Written(SubSeq(e, 1, n))))
         /\ Written(SubSeq(e, 1, n)) # <<>>
         /\ Written(SubSeq(e, 1, n))[1].kind = "permission_requested"
<1>1. /\ e \in Seq(Range(e)) /\ e[1] \in Range(e) /\ e[2] \in Range(e)
      /\ Shaped(e[1]) /\ Shaped(e[2])
  BY DEF Makes, Range
<1>2. Durable(e[1]) /\ Bounded(e[1]).kind = "permission_requested"
  <2>1. Durable(e[1])
    BY DEF Durable, LiveOnly
  <2>. QED
    BY <1>1, <2>1, BoundedIs
<1>3. SubSeq(e, 1, 1) = Append(<<>>, e[1]) /\ SubSeq(e, 1, 2) = Append(Append(<<>>, e[1]), e[2])
  <2>1. 1 \in 1 .. Len(e) /\ 2 \in 1 .. Len(e) /\ 1 - 1 = 0 /\ 2 - 1 = 1
    OBVIOUS
  <2>. QED
    BY <1>1, <2>1, FirstMore
<1>4. Emitted(<<>>, <<>>) /\ Written(<<>>) = <<>>
  BY ListedNothing, EmittedNothing DEF Written
<1>5. /\ Emitted(<<>>, Append(<<>>, e[1]))
      /\ Written(Append(<<>>, e[1])) = Append(<<>>, Bounded(e[1]))
  BY <1>1, <1>2, <1>4, EmittedMore
<1>6. PICK d : d = Append(<<>>, e[1])
  OBVIOUS
<1>7. Written(Append(d, e[2])) = IF Durable(e[2]) THEN Append(Written(d), Bounded(e[2])) ELSE Written(d)
  BY <1>1, <1>5, <1>6, EmittedMore
<1>8. PICK x, y : x = Bounded(e[1]) /\ y = Bounded(e[2])
  OBVIOUS
<1>9. Written(SubSeq(e, 1, n)) \in {Append(<<>>, x), Append(Append(<<>>, x), y)}
  <2>1. CASE n = 1
    BY <1>3, <1>5, <1>8, <2>1
  <2>2. CASE n = 2
    BY <1>3, <1>5, <1>6, <1>7, <1>8, <2>2
  <2>. QED
    BY <2>1, <2>2
<1>10. PICK w : w = Written(SubSeq(e, 1, n))
  OBVIOUS
<1>11. w \in Seq({x, y}) /\ w # <<>> /\ w[1] = x
  <2>1. <<>> \in Seq({x, y}) /\ x \in {x, y} /\ y \in {x, y}
    OBVIOUS
  <2>2. PICK u \in Seq({x, y}) : u = Append(<<>>, x)
    BY <2>1, AppendIs
  <2>3. Len(u) = 1 /\ u[1] = x
    BY <2>2
  <2>4. /\ Append(u, y) \in Seq({x, y}) /\ Len(Append(u, y)) = 2
        /\ Append(u, y)[1] = x
    BY <2>1, <2>3, AppendIs
  <2>5. w = u \/ w = Append(u, y)
    BY <1>9, <1>10, <2>2
  <2>6. CASE w = u
    <3>1. u # <<>>
      BY <2>3, SMTT(30)
    <3>. QED
      BY <2>2, <2>3, <2>6, <3>1
  <2>7. CASE w = Append(u, y)
    <3>1. Append(u, y) # <<>>
      BY <2>4
    <3>. QED
      BY <2>4, <2>7, <3>1
  <2>. QED
    BY <2>5, <2>6, <2>7
<1>12. w \in Seq(Range(w))
  BY <1>11, OwnRange
<1>. QED
  BY <1>2, <1>8, <1>10, <1>11, <1>12

\* What the journal may become.
Grown(w) ==
  /\ Journaled' /\ w \in Seq(Range(w)) /\ journal' = journal \o w

LEMMA WrittenIsList ==
  ASSUME NEW e, Listed(e)
  PROVE  Written(e) \in Seq(Range(Written(e)))
<1>1. Durables(e) \in Seq(Range(e))
  BY DurablesAre
<1>2. \A i \in 1 .. Len(Durables(e)) : Stored(Durables(e)[i]) \in Range(Written(e))
  BY <1>1 DEF Written, Range
<1>3. Written(e) = [i \in 1 .. Len(Durables(e)) |-> Stored(Durables(e)[i])]
  BY <1>1 DEF Written
<1>4. Len(Durables(e)) \in Nat
  BY <1>1
<1>. QED
  BY <1>2, <1>3, <1>4

\* Where events are emitted the journal is complete, and what is written is
\* either all of it, or all before an event whose write failed: the last.
LEMMA EmitsGrow ==
  ASSUME Journaled, journal = Durables(shown), NEW e, Makes(e), Emits(e)
  PROVE  Grown(Written(e))
<1>1. Listed(shown') /\ journal' = Durables(shown') /\ journal' = journal \o Written(e)
  BY EmitsIs DEF Journaled
<1>2. journal' \in Seq(Range(journal'))
  BY <1>1, DurablesAre, OwnRange
<1>3. Written(e) \in Seq(Range(Written(e)))
  <2>1. Emitted(shown, SubSeq(e, 1, Len(e)))
    BY MadeAreEmitted DEF Makes, Journaled
  <2>2. SubSeq(e, 1, Len(e)) = e
    BY SeqEqual DEF Makes
  <2>3. Listed(e)
    BY <2>1, <2>2 DEF Emitted
  <2>. QED
    BY <2>3, WrittenIsList
<1>4. Journaled'
  BY <1>1, <1>2 DEF Journaled
<1>. QED
  BY <1>1, <1>3, <1>4 DEF Grown

LEMMA EmitFailsGrows ==
  ASSUME Journaled, journal = Durables(shown), NEW e, Makes(e), NEW n, EmitFails(e, n),
         worker' = "ended" \/ (mode' = "resume" /\ holder' = "done")
  PROVE  n \in 1 .. Len(e) /\ Grown(Written(SubSeq(e, 1, n - 1)))
<1>1. /\ Listed(shown') /\ n \in 1 .. Len(e)
      /\ journal' = journal \o Written(SubSeq(e, 1, n - 1))
      /\ Durables(shown') = Append(journal', Bounded(e[n]))
  BY EmitFailsIs DEF Journaled
<1>2. n - 1 \in 0 .. Len(e)
  BY <1>1 DEF Makes
<1>0. PICK w : w = Written(SubSeq(e, 1, n - 1))
  OBVIOUS
<1>3. w \in Seq(Range(w))
  <2>1. Listed(SubSeq(e, 1, n - 1))
    BY <1>2, MadeAreEmitted DEF Journaled, Emitted
  <2>. QED
    BY <1>0, <2>1, WrittenIsList
<1>4. journal' \in Seq(Range(journal'))
  <2>1. PICK E : Range(journal) \subseteq E /\ Range(w) \subseteq E
    <3> WITNESS Range(journal) \cup Range(w)
    <3>. QED
      OBVIOUS
  <2>2. journal \in Seq(E) /\ w \in Seq(E)
    BY <1>3, <2>1 DEF Journaled
  <2>3. journal' \in Seq(E)
    BY <1>0, <1>1, <2>2, ConcatProperties
  <2>. QED
    BY <2>3, OwnRange
<1>5. /\ Len(Durables(shown')) = Len(journal') + 1
      /\ Durables(shown')[Len(journal') + 1] = Bounded(e[n])
  <2>1. PICK E : Range(journal') \subseteq E /\ Bounded(e[n]) \in E
    <3> WITNESS Range(journal') \cup {Bounded(e[n])}
    <3>. QED
      OBVIOUS
  <2>2. journal' \in Seq(E)
    BY <1>4, <2>1
  <2>. QED
    BY <1>1, <2>1, <2>2, AppendIs
<1>6. Journaled'
  BY <1>1, <1>4, <1>5 DEF Journaled
<1>. QED
  BY <1>0, <1>1, <1>3, <1>6 DEF Grown

\* What the journal gains loses no request.
LEMMA GrownAsks ==
  ASSUME Journaled, NEW w, Grown(w)
  PROVE  /\ Cardinality(Asked(journal)) \in Nat /\ Cardinality(Asked(journal')) \in Nat
         /\ Cardinality(Asked(journal)) <= Cardinality(Asked(journal'))
         /\ w # <<>> /\ w[1].kind = "permission_requested" =>
              Cardinality(Asked(journal)) + 1 <= Cardinality(Asked(journal'))
<1>1. PICK E : Range(journal) \subseteq E /\ Range(w) \subseteq E
  <2> WITNESS Range(journal) \cup Range(w)
  <2>. QED
    OBVIOUS
<1>2. journal \in Seq(E) /\ w \in Seq(E) /\ journal' = journal \o w
  BY <1>1 DEF Journaled, Grown
<1>. QED
  BY <1>2, AskedMore

\* Only these steps show anything, decide anything, or write to the journal.
Emitters == FirstPrompt \/ TakeUpdate \/ TurnEnds \/ StartResume

LEMMA QuietSteps ==
  ASSUME [Next]_vars
  PROVE  /\ policy' = policy
         /\ ~ Emitters => journal' = journal /\ shown' = shown /\ decisions' = decisions
<1>1. CASE FirstPrompt \/ TakeUpdate \/ TurnEnds \/ StartResume
  BY <1>1 DEF FirstPrompt, TakeUpdate, TurnEnds, StartResume, Emitters
<1>2. CASE AgentFails \/ SessionOpens \/ GateDropped \/ SessionResumes \/ NoticeCancel \/ CancelReads
           \/ TimesOut \/ Expire
  BY <1>2 DEF AgentFails, SessionOpens, GateDropped, SessionResumes, NoticeCancel, CancelReads,
     TimesOut, Expire, events, turnVars, setting
<1>3. CASE Start \/ Started \/ Bind \/ Wait \/ Finish \/ ProbeFails \/ WaitResumed \/ Settle
  BY <1>3 DEF Start, Started, Bind, Wait, Finish, ProbeFails, WaitResumed, Settle, events, turnVars,
     setting
<1>4. CASE Cancel \/ StopWaiting \/ Drop \/ CancelResumed \/ Recover \/ Kill
  BY <1>4 DEF Cancel, StopWaiting, Drop, CancelResumed, Recover, Kill, events, turnVars, setting
<1>5. CASE \E m \in Says : AgentSays(m)
  BY <1>5 DEF AgentSays, events, turnVars, setting
<1>6. CASE \E r \in {"end_turn", "cancelled"} : AgentStops(r)
  BY <1>6 DEF AgentStops, events, turnVars, setting
<1>7. CASE UNCHANGED vars
  BY <1>7 DEF vars, events, turnVars, setting
<1>. QED
  BY <1>1, <1>2, <1>3, <1>4, <1>5, <1>6, <1>7 DEF Next, Work, Hold

\* Where a write may have failed nothing is emitted any more.
Over == worker = "ended" \/ (mode = "resume" /\ holder = "done")

LEMMA OverStays ==
  ASSUME HolderInPlace, Over, [Next]_vars
  PROVE  Over'
<1> USE DEF Over
<1>1. CASE WorkerSteps
  BY <1>1, WorkerFrame
<1>2. CASE HolderSteps
  <2>1. CASE worker = "ended"
    BY <1>2, <2>1, HolderFrame DEF HolderInPlace
  <2>2. CASE mode = "resume" /\ holder = "done"
    <3>1. holder' = "done"
      BY <1>2, <2>2 DEF HolderSteps, Start, Started, Bind, Wait, Finish, ProbeFails, StartResume,
         WaitResumed, Cancel, StopWaiting, Drop, CancelResumed, Kill, owner
    <3>. QED
      BY <1>2, <2>2, <3>1, HolderFrame
  <2>. QED
    BY <2>1, <2>2
<1>3. CASE Settle \/ Recover \/ Expire
  BY <1>3 DEF Settle, Recover, Expire, owner, setting
<1>4. CASE \E m \in Says : AgentSays(m)
  BY <1>4 DEF AgentSays, owner, setting
<1>5. CASE \E r \in {"end_turn", "cancelled"} : AgentStops(r)
  BY <1>5 DEF AgentStops, owner, setting
<1>6. CASE UNCHANGED vars
  BY <1>6 DEF vars, owner, setting
<1>. QED
  BY <1>1, <1>2, <1>3, <1>4, <1>5, <1>6 DEF Next, Work, Hold, HolderSteps, WorkerSteps

\* A decision is one the policy allows.
LEMMA Selects ==
  ASSUME NEW o
  PROVE  /\ Selected(o) \in {"allow", "reject", "cancelled"}
         /\ policy = "deny" => Selected(o) # "allow"
BY DEF Selected

\* A journal that grows keeps the decisions, and one more follows its request.
LEMMA DecidedKept ==
  ASSUME Journaled, Decided, policy' = policy, NEW w, Grown(w), decisions' = decisions
  PROVE  Decided'
<1>1. /\ Cardinality(Asked(journal)) \in Nat /\ Cardinality(Asked(journal')) \in Nat
      /\ Cardinality(Asked(journal)) <= Cardinality(Asked(journal'))
  BY GrownAsks
<1>2. Len(decisions) \in Nat
  BY DEF Decided
<1>. QED
  BY <1>1, <1>2 DEF Decided

LEMMA DecidedMore ==
  ASSUME Journaled, Decided, policy' = policy, NEW w, Grown(w), NEW o,
         w # <<>>, w[1].kind = "permission_requested", decisions' = Append(decisions, Selected(o))
  PROVE  Decided'
<1>1. /\ Cardinality(Asked(journal)) \in Nat /\ Cardinality(Asked(journal')) \in Nat
      /\ Cardinality(Asked(journal)) + 1 <= Cardinality(Asked(journal'))
  BY GrownAsks
<1>2. /\ decisions \in Seq({"allow", "reject", "cancelled"})
      /\ Len(decisions) <= Cardinality(Asked(journal))
      /\ policy = "deny" => \A i \in 1 .. Len(decisions) : decisions[i] # "allow"
  BY DEF Decided
<1>3. PICK d \in {"allow", "reject", "cancelled"} : d = Selected(o)
  BY Selects
<1>4. policy = "deny" => d # "allow"
  BY <1>3, Selects
<1>5. /\ decisions' \in Seq({"allow", "reject", "cancelled"}) /\ Len(decisions') = Len(decisions) + 1
      /\ decisions'[Len(decisions) + 1] = d
      /\ \A i \in 1 .. Len(decisions) : decisions'[i] = decisions[i]
  BY <1>2, <1>3, AppendIs
<1>6. Len(decisions') <= Cardinality(Asked(journal'))
  <2>1. Len(decisions) \in Nat
    BY <1>2
  <2>. QED
    BY <1>1, <1>2, <1>5, <2>1
<1>7. ASSUME policy = "deny", NEW i \in 1 .. Len(decisions') PROVE decisions'[i] # "allow"
  <2>1. i = Len(decisions) + 1 \/ i \in 1 .. Len(decisions)
    BY <1>2, <1>5
  <2>. QED
    BY <1>2, <1>4, <1>5, <1>7, <2>1
<1>. QED
  BY <1>5, <1>6, <1>7 DEF Decided

\* One event, or the failure to write it.
LEMMA OneEvent ==
  ASSUME Journaled, Decided, journal = Durables(shown), policy' = policy, decisions' = decisions,
         NEW x, Makes(<<x>>), Emits(<<x>>) \/ (EmitFails(<<x>>, 1) /\ Over')
  PROVE  Journaled' /\ Decided'
<1>1. \E w : Grown(w)
  BY EmitsGrow, EmitFailsGrows DEF Over
<1>. QED
  BY <1>1, DecidedKept DEF Grown

\* The journal of an execution is kept by every step.
LEMMA JournalStep ==
  ASSUME Control, HolderInPlace, WorkerInPlace, Typed, Journaled, Decided, [Next]_vars
  PROVE  Journaled' /\ Decided'
<1>1. policy' = policy /\ (Over => Over')
  BY QuietSteps, OverStays
<1>2. ~ Over => journal = Durables(shown)
  BY DEF Journaled, Over
<1>3. CASE journal' = journal /\ shown' = shown /\ decisions' = decisions
  BY <1>1, <1>3 DEF Journaled, Decided, Over
<1>4. CASE FirstPrompt
  <2>1. journal = Durables(shown)
    BY <1>2, <1>4 DEF FirstPrompt, Over, WorkerInPlace
  <2>2. /\ decisions' = decisions
        /\ \/ Emits(<<Event("session_started", NoText, <<>>)>>)
           \/ EmitFails(<<Event("session_started", NoText, <<>>)>>, 1) /\ Over'
    BY <1>4 DEF FirstPrompt, Ends, Over
  <2>. QED
    BY <1>1, <2>1, <2>2, OneEvent, EventsAreMade
<1>5. CASE StartResume
  <2>1. journal = Durables(shown)
    BY <1>2, <1>5 DEF StartResume, Over, HolderInPlace
  <2>2. /\ decisions' = decisions
        /\ \/ Emits(<<Event("session_resumed", NoText, <<>>)>>)
           \/ EmitFails(<<Event("session_resumed", NoText, <<>>)>>, 1) /\ Over'
    BY <1>5 DEF StartResume, Answers, Over, turnVars
  <2>. QED
    BY <1>1, <2>1, <2>2, OneEvent, EventsAreMade
<1>6. CASE TurnEnds /\ mode = "resume"
  <2>1. journal' = journal /\ shown' = shown /\ decisions' = decisions
    BY <1>6 DEF TurnEnds, events
  <2>. QED
    BY <1>3, <2>1
<1>7. CASE TurnEnds /\ mode # "resume"
  <2>1. journal = Durables(shown)
    BY <1>2, <1>7 DEF TurnEnds, Over
  <2>2. /\ decisions' = decisions
        /\ \/ UNCHANGED events
           \/ Emits(<<Completed>>)
           \/ EmitFails(<<Completed>>, 1) /\ Over'
    BY <1>7 DEF TurnEnds, Ends, Over
  <2>3. UNCHANGED events => journal' = journal /\ shown' = shown
    BY DEF events
  <2>. QED
    BY <1>1, <1>3, <2>1, <2>2, <2>3, OneEvent, EventsAreMade
<1>8. CASE TakeUpdate
  <2>0. PICK m : m = Head(inbox)
    OBVIOUS
  <2>0a. PICK e : e = EventsOf(m)
    OBVIOUS
  <2>1. m \in Says
    <3>1. inbox \in Seq(Says \cup Stops) /\ inbox # <<>> /\ m.type # "stop"
      BY <1>8, <2>0 DEF TakeUpdate, Typed
    <3>2. m \in Says \cup Stops
      BY <2>0, <3>1
    <3>. QED
      BY <3>1, <3>2 DEF Stops
  <2>2. \/ /\ Emits(e)
           /\ decisions' = IF mode # "resume" /\ m.type = "permission"
                           THEN Append(decisions, Selected(m.options)) ELSE decisions
        \/ \E n \in DOMAIN e :
             /\ EmitFails(e, n) /\ Over'
             /\ decisions' = IF mode # "resume" /\ m.type = "permission" /\ n = 2
                             THEN Append(decisions, Selected(m.options)) ELSE decisions
    BY <1>8, <2>0, <2>0a DEF TakeUpdate, Ends, Over
  <2>3. Makes(e)
    BY <2>0a, <2>1, EventsAreMade
  <2>4. CASE mode = "resume"
    <3>1. e = <<>>
      BY <2>0a, <2>4 DEF EventsOf
    <3>2. Emits(<<>>) /\ decisions' = decisions
      BY <2>2, <2>4, <3>1
    <3>3. Seen(<<>>) = <<>> /\ Written(<<>>) = <<>>
      BY ListedNothing DEF Seen, Written
    <3>4. shown' = shown \o Seen(<<>>) /\ journal' = journal \o Written(<<>>)
      BY <3>2 DEF Emits, Emit, Seen, Written
    <3>5. shown' = shown /\ journal' = journal
      BY <3>3, <3>4 DEF Journaled, Listed
    <3>. QED
      BY <1>3, <3>2, <3>5
  <2>5. CASE mode # "resume"
    <3>1. journal = Durables(shown)
      BY <1>2, <1>8, <2>5 DEF TakeUpdate, Over
    <3>2. m.type = "permission" => e = PermissionEvents(m) /\ Len(e) = 2
                                   /\ e[1].kind = "permission_requested"
      BY <2>0a, <2>1, <2>5, EventsAreMade DEF EventsOf
    <3>3. CASE Emits(e) /\ decisions' = IF m.type = "permission"
                                        THEN Append(decisions, Selected(m.options)) ELSE decisions
      <4>1. Grown(Written(e))
        BY <2>3, <3>1, <3>3, EmitsGrow
      <4>2. CASE m.type # "permission"
        BY <1>1, <3>3, <4>1, <4>2, DecidedKept DEF Grown
      <4>3. CASE m.type = "permission"
        <5>1. SubSeq(e, 1, 2) = e
          BY <2>3, <3>2, <4>3, SeqEqual DEF Makes
        <5>2. Written(e) # <<>> /\ Written(e)[1].kind = "permission_requested"
          BY <2>3, <3>2, <4>3, <5>1, RequestComesFirst
        <5>. QED
          BY <1>1, <3>3, <4>1, <4>3, <5>2, DecidedMore DEF Grown
      <4>. QED
        BY <4>2, <4>3
    <3>4. CASE \E n \in DOMAIN e :
                 /\ EmitFails(e, n) /\ Over'
                 /\ decisions' = IF m.type = "permission" /\ n = 2
                                 THEN Append(decisions, Selected(m.options)) ELSE decisions
      <4>0. PICK n \in DOMAIN e :
              /\ EmitFails(e, n) /\ Over'
              /\ decisions' = IF m.type = "permission" /\ n = 2
                              THEN Append(decisions, Selected(m.options)) ELSE decisions
        BY <3>4
      <4>1. Grown(Written(SubSeq(e, 1, n - 1)))
        BY <2>3, <3>1, <4>0, EmitFailsGrows DEF Over
      <4>2. CASE ~ (m.type = "permission" /\ n = 2)
        BY <1>1, <4>0, <4>1, <4>2, DecidedKept DEF Grown
      <4>3. CASE m.type = "permission" /\ n = 2
        <5>1. /\ Written(SubSeq(e, 1, 1)) # <<>>
              /\ Written(SubSeq(e, 1, 1))[1].kind = "permission_requested"
          BY <2>3, <3>2, <4>3, RequestComesFirst
        <5>2. n - 1 = 1
          BY <4>3
        <5>. QED
          BY <1>1, <4>0, <4>1, <4>3, <5>1, <5>2, DecidedMore DEF Grown
      <4>. QED
        BY <4>2, <4>3
    <3>. QED
      BY <2>2, <2>5, <3>3, <3>4
  <2>. QED
    BY <2>4, <2>5
<1>9. ~ Emitters => journal' = journal /\ shown' = shown /\ decisions' = decisions
  BY QuietSteps
<1>. QED
  BY <1>3, <1>4, <1>5, <1>6, <1>7, <1>8, <1>9 DEF Emitters

-----------------------------------------------------------------------------
(* The theorems.                                                           *)

\* The properties name a prompt, an answer and a row; what makes them true is
\* in the places of the two threads and in the messages under way between them.
IInv ==
  /\ Control /\ HolderInPlace /\ WorkerInPlace /\ Released
  /\ Conversation /\ Answered /\ Journaled /\ Decided

\* An execution that nobody has started.
LEMMA InitIInv == Init => IInv
<1>. SUFFICES ASSUME Init PROVE IInv
  OBVIOUS
<1>. USE DEF Init
<1>1. Control /\ HolderInPlace /\ WorkerInPlace /\ Released
  <2>1. /\ worker = "off" /\ result = "none" /\ answer = "none" /\ gate = "held" /\ prompts = 0
        /\ inbox = <<>> /\ open = FALSE /\ holder = "idle"
        /\ mode \in {"driver", "caller", "resume"}
    OBVIOUS
  <2>2. Control
    <3>1. result = "none" /\ worker # "ended" /\ open \in BOOLEAN
      BY <2>1
    <3>2. (result = "none") = (worker # "ended")
      BY <3>1
    <3>3. prompts \in 0 .. 2
      BY <2>1
    <3>. QED
      BY <2>1, <3>1, <3>2, <3>3 DEF Control
  <2>. QED
    BY <2>1, <2>2 DEF HolderInPlace, WorkerInPlace, Released
<1>2. Conversation
  <2>1. Typed
    BY EmptySeq DEF Typed
  <2>. QED
    BY <2>1 DEF Conversation, Stopped, Heard, Concluded
<1>3. Answered
  BY DEF Answered
<1>4. Journaled
  <2>1. shown = <<>> /\ journal = <<>> /\ <<>> \in Seq(Range(<<>>))
    BY EmptySeq
  <2>. QED
    BY <2>1, ListedNothing DEF Journaled
<1>5. Decided
  <2>1. Asked(<<>>) = {} /\ Cardinality({}) = 0
    BY FS_EmptySet DEF Asked
  <2>2. decisions = <<>> /\ journal = <<>> /\ Len(<<>>) = 0
    OBVIOUS
  <2>3. decisions \in Seq({"allow", "reject", "cancelled"})
    BY <2>2
  <2>4. Len(decisions) = 0 /\ Cardinality(Asked(journal)) = 0
    BY <2>1, <2>2
  <2>5. \A i \in 1 .. 0 : FALSE
    OBVIOUS
  <2> HIDE DEF Init
  <2>. QED
    BY <2>3, <2>4, <2>5 DEF Decided
<1>. QED
  BY <1>1, <1>2, <1>3, <1>4, <1>5 DEF IInv

\* Every step keeps it.
LEMMA NextIInv == IInv /\ [Next]_vars => IInv'
<1>. SUFFICES ASSUME IInv, [Next]_vars PROVE IInv'
  OBVIOUS
<1>. QED
  BY ControlStep, HolderStep, WorkerStep, ReleasedStep, ConversationStep, AnsweredStep, JournalStep
     DEF IInv, Conversation

\* The invariant of an execution.
THEOREM ExecutionInvariant == Spec => []IInv
<1>. QED
  BY InitIInv, NextIInv, PTL DEF Spec

\* No prompt before the binding is durable, or before the gate is open, and
\* none at all after a resume that was cancelled before it was waited for
\* (acp_worker.rs:107-110, 830-833).
THEOREM PromptsAreReleased == Spec => []PromptIsReleased
<1>1. IInv => PromptIsReleased
  BY DEF IInv, Control, WorkerInPlace, Released, Answered, PromptIsReleased
<1>. QED
  BY <1>1, ExecutionInvariant, PTL

\* Neither a result nor a confirmed cancellation leaves the agent at work
\* (acp_worker.rs:337-339).
THEOREM AnswersAreLast == Spec => []AnsweredIsOver
<1>1. IInv => AnsweredIsOver
  BY DEF IInv, WorkerInPlace, Conversation, Concluded, Answered, AnsweredIsOver
<1>. QED
  BY <1>1, ExecutionInvariant, PTL

\* A success is one strict object, all that was said to the latest of at most
\* two prompts, and row and binding follow it (acp_worker.rs:441-444).
THEOREM ResultsAreEarned == Spec => []ResultIsEarned
<1>1. IInv => ResultIsEarned
  BY DEF IInv, Control, Conversation, Concluded, Answered, ResultIsEarned
<1>. QED
  BY <1>1, ExecutionInvariant, PTL

\* What is durable of an event is what was seen of it, in its order and with
\* nothing left out but a last one that could not be written; and no permission
\* is answered, against the policy or before its request is in the journal
\* (runtime_event.rs:54-83, acp_worker.rs:1025-1093).
THEOREM JournalsAreComplete == Spec => []JournalIsComplete
<1>1. IInv => JournalIsComplete
  <2> SUFFICES ASSUME IInv PROVE JournalIsComplete
    OBVIOUS
  <2>1. PICK seen : seen = Durables(shown)
    OBVIOUS
  <2>2. /\ Listed(shown) /\ journal \in Seq(Range(journal))
        /\ \/ journal = seen
           \/ /\ worker = "ended" \/ mode = "resume"
              /\ Len(seen) = Len(journal) + 1
              /\ seen = Append(journal, seen[Len(journal) + 1])
    BY <2>1 DEF IInv, Journaled
  <2>3. seen \in Seq(Range(shown))
    BY <2>1, <2>2, DurablesAre
  <2>4. CASE journal = seen
    <3>1. Len(seen) \in Nat /\ IsPrefix(seen, seen)
      BY <2>3 DEF IsPrefix
    <3>. QED
      BY <2>1, <2>4, <3>1 DEF IInv, Decided, JournalIsComplete, Asked
  <2>5. CASE /\ worker = "ended" \/ mode = "resume"
             /\ Len(seen) = Len(journal) + 1
             /\ seen = Append(journal, seen[Len(journal) + 1])
    <3>1. Len(journal) \in Nat /\ Len(seen) > Len(journal)
      BY <2>2, <2>5
    <3>2. IsPrefix(journal, seen)
      <4>0. PICK x : x = seen[Len(journal) + 1]
        OBVIOUS
      <4>1. PICK E : Range(journal) \subseteq E /\ x \in E
        <5> WITNESS Range(journal) \cup {x}
        <5>. QED
          OBVIOUS
      <4>2. journal \in Seq(E) /\ seen \in Seq(E)
            /\ \A i \in 1 .. Len(journal) : seen[i] = journal[i]
        BY <2>2, <2>5, <4>0, <4>1, AppendIs
      <4>3. /\ SubSeq(journal, 1, Len(journal)) \in Seq(E) /\ SubSeq(seen, 1, Len(journal)) \in Seq(E)
            /\ Len(SubSeq(journal, 1, Len(journal))) = Len(journal)
            /\ Len(SubSeq(seen, 1, Len(journal))) = Len(journal)
            /\ \A i \in 1 .. Len(journal) :
                 /\ SubSeq(journal, 1, Len(journal))[i] = journal[i]
                 /\ SubSeq(seen, 1, Len(journal))[i] = seen[i]
        BY <2>5, <3>1, <4>2
      <4>4. SubSeq(journal, 1, Len(journal)) = SubSeq(seen, 1, Len(journal))
        BY <4>2, <4>3, SeqEqual
      <4>. QED
        BY <3>1, <2>5, <4>4 DEF IsPrefix
    <3>. QED
      BY <2>1, <2>5, <3>1, <3>2 DEF IInv, Decided, JournalIsComplete, Asked
  <2>. QED
    BY <2>2, <2>4, <2>5
<1>. QED
  BY <1>1, ExecutionInvariant, PTL

-----------------------------------------------------------------------------
(* Types.                                                                  *)

\* What the invariant above does not already say of the variables.
Simple ==
  /\ holder \in {"idle", "starting", "bind", "release", "held", "waiting", "cancelling", "done"}
  /\ result \in {"none", "completed", "invalid", "protocol", "timed_out", "cancelled", "aborted"}
  /\ task \in BOOLEAN /\ bound \in BOOLEAN /\ cancelled \in BOOLEAN /\ expired \in BOOLEAN
  /\ told \in BOOLEAN
  /\ row \in {"running", "succeeded", "failed"}
  /\ binding \in {"none", "running", "completed", "interrupted"}
  /\ spoken \in 0 .. MaxSaid /\ mishaps \in 0 .. MaxMishaps

\* The output of a turn is what the agent said first.
Follows ==
  /\ prompts = 0 => output = <<>>
  /\ prompts > 0 => Len(output) <= Len(said[prompts])
                    /\ \A i \in 1 .. Len(output) : output[i] = said[prompts][i]

LEMMA SimpleStep ==
  ASSUME Simple, [Next]_vars
  PROVE  Simple'
<1> USE DEF Simple
<1>0. MaxSaid \in Nat /\ MaxMishaps \in Nat
  BY SaysAssumption
<1>a. Mishap => mishaps' \in 0 .. MaxMishaps
  BY <1>0 DEF Mishap
<1>b. \A e : \A n : EmitFails(e, n) => mishaps' \in 0 .. MaxMishaps
  BY <1>a DEF EmitFails
<1> HIDE DEF Mishap
<1>1. CASE AgentFails \/ TimesOut \/ GateDropped \/ SessionOpens \/ NoticeCancel
  BY <1>1 DEF AgentFails, TimesOut, GateDropped, SessionOpens, NoticeCancel, Ends, owner, gating,
     agent, turnVars, rows, setting
<1>2. CASE FirstPrompt \/ SessionResumes
  <2>1. mishaps' \in 0 .. MaxMishaps
    BY <1>2, <1>b DEF FirstPrompt, SessionResumes, setting
  <2>. QED
    BY <1>2, <2>1 DEF FirstPrompt, SessionResumes, SendPrompt, Ends, owner, gating, turnVars, rows,
       setting
<1>3. CASE TakeUpdate
  <2>1. mishaps' \in 0 .. MaxMishaps
    BY <1>3, <1>b DEF TakeUpdate
  <2>. QED
    BY <1>3, <2>1 DEF TakeUpdate, Ends, owner, gating, rows
<1>4. CASE TurnEnds
  <2>1. mishaps' \in 0 .. MaxMishaps
    BY <1>4, <1>b DEF TurnEnds
  <2>2. result' \in {result, "protocol", "completed", "invalid"}
    BY <1>4 DEF TurnEnds, Concludes, Ends
  <2>. QED
    BY <1>4, <2>1, <2>2 DEF TurnEnds, owner, gating, rows
<1>5. CASE CancelReads
  BY <1>5 DEF CancelReads, Ends, owner, gating, turnVars, rows, setting
<1>6. CASE Start \/ Started \/ WaitResumed \/ ProbeFails
  <2>1. CASE Start
    <3>1. mishaps' \in 0 .. MaxMishaps
      BY <2>1, <1>a DEF Start
    <3>2. holder' \in {"starting", "done"} /\ task' \in BOOLEAN
      BY <2>1 DEF Start, Answers
    <3>. QED
      BY <2>1, <3>1, <3>2 DEF Start, gating, agent, turnVars, rows
  <2>2. CASE Started
    <3>1. holder' \in {"bind", "held", "done"} /\ result' \in {result, "aborted"}
      BY <2>2 DEF Started, Answers, Ends
    <3>. QED
      BY <2>2, <3>1 DEF Started, gating, agent, turnVars, rows, setting
  <2>3. CASE WaitResumed \/ ProbeFails
    BY <2>3 DEF WaitResumed, ProbeFails, Answers, gating, agent, turnVars, rows, setting
  <2>. QED
    BY <1>6, <2>1, <2>2, <2>3
<1>7. CASE Bind
  BY <1>7, <1>a DEF Bind, Answers, LetGo, gating, agent, turnVars
<1>8. CASE Wait \/ Cancel
  BY <1>8 DEF Wait, Cancel, Release, Answers, agent, turnVars, rows, setting
<1>9. CASE Finish
  <2>1. mishaps' \in 0 .. MaxMishaps
    BY <1>9, <1>a DEF Finish
  <2>2. binding' \in {binding, "completed"} /\ holder' = "done" /\ task' = FALSE
    BY <1>9 DEF Finish, Answers, CompleteBinding
  <2>. QED
    BY <1>9, <2>1, <2>2 DEF Finish, gating, agent, turnVars
<1>10. CASE StartResume
  <2>1. mishaps' \in 0 .. MaxMishaps
    BY <1>10, <1>b DEF StartResume
  <2>. QED
    BY <1>10, <2>1 DEF StartResume, Answers, gating, agent, turnVars, rows
<1>11. CASE Settle \/ Recover \/ Expire
  BY <1>11 DEF Settle, Recover, Expire, owner, gating, agent, turnVars, rows, setting
<1>12. CASE StopWaiting \/ Drop \/ CancelResumed
  BY <1>12 DEF StopWaiting, Drop, CancelResumed, Answers, LetGo, owner, gating, agent, turnVars,
     rows, setting
<1>13. CASE Kill
  BY <1>13, <1>a DEF Kill, Ends, gating, agent, turnVars, rows
<1>14. CASE \E m \in Says : AgentSays(m)
  BY <1>0, <1>14 DEF AgentSays, owner, gating, turnVars, rows, setting
<1>15. CASE \E r \in {"end_turn", "cancelled"} : AgentStops(r)
  BY <1>15 DEF AgentStops, owner, gating, turnVars, rows, setting
<1>16. CASE UNCHANGED vars
  BY <1>16 DEF vars, owner, gating, agent, turnVars, rows, setting
<1>. QED
  BY <1>1, <1>2, <1>3, <1>4, <1>5, <1>6, <1>7, <1>8, <1>9, <1>10, <1>11, <1>12, <1>13, <1>14,
     <1>15, <1>16 DEF Next, Work, Hold

LEMMA FollowsStep ==
  ASSUME IInv, Follows, [Next]_vars
  PROVE  Follows'
<1>1. /\ output \in Seq(Says) /\ said \in Seq(Seq(Says)) /\ Len(said) = prompts
      /\ prompts \in Nat /\ prompts' \in Nat
  BY NextIInv DEF IInv, Control, Conversation, Typed
<1>2. CASE output' = output /\ said' = said /\ prompts' = prompts
  BY <1>2 DEF Follows
<1>3. CASE SendPrompt
  <2>1. said' = Append(said, <<>>) /\ output' = <<>> /\ prompts' = prompts + 1
    BY <1>3 DEF SendPrompt
  <2>2. said'[prompts'] = <<>>
    BY <1>1, <2>1
  <2>3. \A i \in 1 .. 0 : FALSE
    OBVIOUS
  <2>. QED
    BY <1>1, <2>1, <2>2, <2>3 DEF Follows
<1>4. ASSUME NEW m \in Says, AgentSays(m) PROVE Follows'
  <2>1. output' = output /\ prompts' = prompts
        /\ said' = [said EXCEPT ![prompts] =
                       IF m.type = "text" THEN Append(said[prompts], m) ELSE said[prompts]]
        /\ open
    BY <1>4 DEF AgentSays, turnVars
  <2>2. prompts > 0
    BY <1>1, <2>1 DEF IInv, WorkerInPlace
  <2>3. PICK t \in Seq(Says) : t = said[prompts]
    BY <1>1, <2>2
  <2>4. said'[prompts] = IF m.type = "text" THEN Append(t, m) ELSE t
    BY <1>1, <2>1, <2>2, <2>3
  <2>5. Len(output) <= Len(t) /\ \A i \in 1 .. Len(output) : output[i] = t[i]
    BY <2>2, <2>3 DEF Follows
  <2>6. /\ Len(Append(t, m)) = Len(t) + 1
        /\ \A i \in 1 .. Len(t) : Append(t, m)[i] = t[i]
    BY AppendIs
  <2>7. Len(output) \in Nat /\ Len(t) \in Nat
    BY <1>1
  <2>8. Len(output) <= Len(Append(t, m))
        /\ \A i \in 1 .. Len(output) : i \in 1 .. Len(t) /\ output[i] = Append(t, m)[i]
    BY <2>5, <2>6, <2>7
  <2>. QED
    BY <2>1, <2>2, <2>4, <2>5, <2>8 DEF Follows
<1>5. CASE TakeUpdate
  <2>1. /\ worker = "turn" /\ inbox # <<>> /\ Head(inbox).type # "stop"
        /\ said' = said /\ prompts' = prompts
        /\ output' = IF Head(inbox).type = "text" THEN Append(output, Head(inbox)) ELSE output
    BY <1>5 DEF TakeUpdate
  <2>2. prompts > 0
    BY <1>1, <2>1 DEF IInv, WorkerInPlace
  <2>3. PICK h, u, t : h = output /\ u = inbox /\ t = said[prompts]
    OBVIOUS
  <2>4. Aligned(h, u, t) /\ h \in Seq(Says) /\ u \in Seq(Says \cup Stops) /\ t \in Seq(Says)
    BY <1>1, <2>1, <2>2, <2>3 DEF IInv, Conversation, Heard, Typed
  <2>5. /\ Head(u).type = "text" => Aligned(Append(h, Head(u)), Tail(u), t)
        /\ Head(u).type # "text" => Aligned(h, Tail(u), t)
    BY <2>1, <2>3, <2>4, AlignedTake
  <2>6. Aligned(output', Tail(u), t)
    BY <2>1, <2>3, <2>5
  <2>7. Len(output') <= Len(t) /\ \A i \in 1 .. Len(output') : output'[i] = t[i]
    BY <2>6 DEF Aligned
  <2>. QED
    BY <2>1, <2>2, <2>3, <2>7 DEF Follows
<1>6. CASE FirstPrompt \/ SessionResumes \/ TurnEnds
  <2>1. SendPrompt \/ (output' = output /\ said' = said /\ prompts' = prompts)
    BY <1>6 DEF FirstPrompt, SessionResumes, TurnEnds
  <2>. QED
    BY <1>2, <1>3, <2>1
<1>7. CASE AgentFails \/ TimesOut \/ GateDropped \/ SessionOpens \/ NoticeCancel \/ CancelReads
  BY <1>2, <1>7 DEF AgentFails, TimesOut, GateDropped, SessionOpens, NoticeCancel, CancelReads,
     agent, turnVars
<1>8. CASE HolderSteps
  BY <1>2, <1>8, HolderFrame DEF agent, turnVars
<1>9. CASE Settle \/ Recover \/ Expire
  BY <1>2, <1>9 DEF Settle, Recover, Expire, agent, turnVars
<1>10. CASE \E r \in {"end_turn", "cancelled"} : AgentStops(r)
  BY <1>2, <1>10 DEF AgentStops, turnVars
<1>11. CASE UNCHANGED vars
  BY <1>2, <1>11 DEF vars, agent, turnVars
<1>. QED
  BY <1>4, <1>5, <1>6, <1>7, <1>8, <1>9, <1>10, <1>11 DEF Next, Work, Hold, HolderSteps

\* The type invariant: what each variable holds, and that the output of a turn
\* is the beginning of what the agent has said to its prompt.
THEOREM TypesHold == Spec => []TypeOK
<1>1. Init => Simple /\ Follows
  <2> SUFFICES ASSUME Init PROVE Simple /\ Follows
    OBVIOUS
  <2>1. 0 \in 0 .. MaxSaid /\ 0 \in 0 .. MaxMishaps
    BY SaysAssumption
  <2>2. Simple
    BY <2>1 DEF Init, Simple
  <2>3. Follows
    <3>1. prompts = 0 /\ output = <<>>
      BY DEF Init
    <3>. QED
      BY <3>1 DEF Follows
  <2>. QED
    BY <2>2, <2>3
<1>2. IInv /\ Simple /\ Follows /\ [Next]_vars => Simple' /\ Follows'
  BY SimpleStep, FollowsStep
<1>3. IInv /\ Simple /\ Follows => TypeOK
  <2> SUFFICES ASSUME IInv, Simple, Follows PROVE TypeOK
    OBVIOUS
  <2>1. prompts = Len(said) /\ output \in Seq(Says) /\ said \in Seq(Seq(Says)) /\ prompts \in Nat
    BY DEF IInv, Control, Conversation, Typed
  <2>2. PICK t \in Seq(Says) : t = IF prompts = 0 THEN <<>> ELSE said[prompts]
    BY <2>1
  <2>3. Len(output) <= Len(t) /\ \A i \in 1 .. Len(output) : output[i] = t[i]
    <3>1. CASE prompts = 0
      <4>1. output = <<>> /\ t = <<>>
        BY <2>2, <3>1 DEF Follows
      <4>. QED
        BY <4>1
    <3>2. CASE prompts > 0
      BY <2>2, <3>2 DEF Follows
    <3>. QED
      BY <2>1, <3>1, <3>2
  <2>4. IsPrefix(output, t)
    <3>1. Len(output) \in Nat /\ Len(output) \in 0 .. Len(t)
      BY <2>1, <2>3
    <3>2. /\ SubSeq(output, 1, Len(output)) \in Seq(Says) /\ SubSeq(t, 1, Len(output)) \in Seq(Says)
          /\ Len(SubSeq(output, 1, Len(output))) = Len(output)
          /\ Len(SubSeq(t, 1, Len(output))) = Len(output)
          /\ \A i \in 1 .. Len(output) : SubSeq(output, 1, Len(output))[i] = output[i]
                                         /\ SubSeq(t, 1, Len(output))[i] = t[i]
      BY <2>1, <3>1
    <3>3. SubSeq(output, 1, Len(output)) = SubSeq(t, 1, Len(output))
      BY <2>3, <3>2, SeqEqual
    <3>. QED
      BY <2>3, <3>3 DEF IsPrefix
  <2>5. Range(decisions) \subseteq {"allow", "reject", "cancelled"}
    BY DEF IInv, Decided, Range
  <2>6. {task, bound, cancelled, expired, open, told} \subseteq BOOLEAN
    BY DEF IInv, Control, Simple
  <2>7. /\ holder \in {"idle", "starting", "bind", "release", "held", "waiting", "cancelling", "done"}
        /\ answer \in {"none", "ok", "cancelled", "error"}
        /\ worker \in {"off", "handshake", "gate", "turn", "cancelling", "ended"}
        /\ result \in {"none", "completed", "invalid", "protocol", "timed_out", "cancelled", "aborted"}
        /\ gate \in {"held", "open", "dropped"}
    BY DEF IInv, Control, Simple
  <2>8. (result = "none") = (worker # "ended")
    BY DEF IInv, Control
  <2>9. /\ row \in {"running", "succeeded", "failed"}
        /\ binding \in {"none", "running", "completed", "interrupted"}
        /\ spoken \in 0 .. MaxSaid /\ mishaps \in 0 .. MaxMishaps
    BY DEF Simple
  <2>. QED
    BY <2>1, <2>2, <2>4, <2>5, <2>6, <2>7, <2>8, <2>9 DEF TypeOK
<1>. QED
  BY <1>1, <1>2, <1>3, ExecutionInvariant, PTL DEF Spec
=============================================================================
