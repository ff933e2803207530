---------------------------- MODULE AcpExecution ----------------------------
(***************************************************************************)
(* One execution of an ACP agent behind the runtime adapter                *)
(* (acp_worker.rs:726-1395): the spawned worker with its session, the gate *)
(* that holds the first prompt back, and who holds the execution: the      *)
(* scheduler's persisted driver, or a caller that may wait, stop waiting,  *)
(* cancel or let go, or a caller that resumes an earlier session.          *)
(*                                                                         *)
(* External: the agent, its messages in order; select!, which takes any of *)
(* the branches that are ready.                                            *)
(***************************************************************************)
EXTENDS RuntimeEvents

CONSTANTS
  Says,         \* what the agent may say within a prompt
  MaxSaid,      \* bound: messages of the agent
  MaxMishaps    \* bound: failures of the board or of the journal, kills

ASSUME SaysAssumption ==
  /\ MaxSaid \in Nat /\ MaxMishaps \in Nat
  /\ \A m \in Says :
       /\ m.type # "stop"
       /\ m.type = "text" => m.text \in Text
       /\ m.type = "plan" => m.items \in Seq(Text)
       /\ m.type = "permission" => m.options \in Seq(STRING)

VARIABLES
  mode,       \* "driver", "caller" or "resume"
  policy,     \* AcpPermissionPolicy: "deny" or "allow"
  holder,     \* where the driver or caller is
  task,       \* the execution still has the JoinHandle of the worker
  answer,     \* what it got: "none", "ok", "cancelled" or "error"
  worker,     \* where the worker is
  result,     \* how it ended
  bound,      \* it has sent its binding
  gate,       \* "held", "open" or "dropped"
  cancelled,  \* the watch channel of AcpCancellation
  expired,    \* the one deadline has passed
  inbox,      \* messages of the session not yet read
  prompts,    \* prompts sent
  open,       \* the agent works on the latest prompt
  told,       \* the agent has been sent session/cancel
  output,     \* text of the current turn, as the worker has it
  said,       \* texts of each prompt, as the agent said them
  decisions,  \* answers to requests for permission
  row, binding,   \* the attempt and its external_runtime_bindings row
  journal, shown, \* durable events; events the live observer has seen
  spoken, mishaps   \* counters

agent == <<inbox, open, said, spoken>>
gating == <<bound, gate, cancelled>>
turnVars == <<prompts, told, output, decisions>>
rows == <<row, binding>>
events == <<journal, shown>>
owner == <<holder, task, answer>>
setting == <<mode, policy, expired, mishaps>>
vars == <<owner, worker, result, gating, agent, turnVars, rows, events, setting>>

NoText == [len |-> 0, cost |-> 1]
Event(k, t, i) == [kind |-> k, text |-> t, items |-> i]

Init ==
  /\ mode \in {"driver", "caller", "resume"} /\ policy \in {"deny", "allow"}
  /\ holder = "idle" /\ task = FALSE /\ answer = "none"
  /\ worker = "off" /\ result = "none"
  /\ bound = FALSE /\ gate = "held" /\ cancelled = FALSE /\ expired = FALSE
  /\ inbox = <<>> /\ prompts = 0 /\ open = FALSE /\ told = FALSE
  /\ output = <<>> /\ said = <<>> /\ decisions = <<>>
  /\ row = "running" /\ binding = "none" /\ journal = <<>> /\ shown = <<>>
  /\ spoken = 0 /\ mishaps = 0

Mishap == mishaps < MaxMishaps /\ mishaps' = mishaps + 1

Ends(r) == worker' = "ended" /\ result' = r

\* The answer reaches the holder, and the execution is over.
Answers(a) == holder' = "done" /\ answer' = a

-----------------------------------------------------------------------------
\* The agent.

\* It speaks while it works on a prompt, and its session keeps the order.
AgentSays(m) ==
  /\ open /\ spoken < MaxSaid /\ spoken' = spoken + 1
  /\ inbox' = Append(inbox, m)
  /\ said' = [said EXCEPT ![prompts] = IF m.type = "text" THEN Append(@, m) ELSE @]
  /\ UNCHANGED <<owner, worker, result, gating, open, turnVars, rows, events, setting>>

AgentStops(reason) ==
  /\ open
  /\ open' = FALSE /\ inbox' = Append(inbox, [type |-> "stop", reason |-> reason])
  /\ UNCHANGED <<owner, worker, result, gating, said, spoken, turnVars, rows, events, setting>>

\* The process or the connection of the agent ends, or a request is refused:
\* a session that has read what there is fails.
AgentFails ==
  /\ worker \in {"handshake", "turn", "cancelling"} /\ inbox = <<>>
  /\ Ends("protocol")
  /\ UNCHANGED <<owner, gating, agent, turnVars, rows, events, setting>>

-----------------------------------------------------------------------------
\* The worker: run_with_cancellation_observed and resume_with_follow_up.

\* Events e are dispatched in order.  A write that fails, or that the journal
\* refuses, fails the worker: then only those before it are durable.
Durables(e) ==
  LET at == {i \in DOMAIN e : Durable(e[i])}
  IN [n \in 1 .. Cardinality(at) |-> e[CHOOSE i \in at : Cardinality({j \in at : j <= i}) = n]]
Emit(e) ==
  /\ shown' = shown \o [i \in DOMAIN e |-> Bounded(e[i])]
  /\ journal' = journal \o [i \in DOMAIN Durables(e) |-> Stored(Durables(e)[i])]
Emits(e) == (\A i \in DOMAIN e : Durable(e[i]) => ~TooLarge(e[i])) /\ Emit(e)
EmitFails(e, n) ==
  /\ n \in DOMAIN e /\ Durable(e[n])
  /\ \A i \in 1 .. n - 1 : Durable(e[i]) => ~TooLarge(e[i])
  /\ IF TooLarge(e[n]) THEN UNCHANGED mishaps ELSE Mishap
  /\ shown' = shown \o [i \in 1 .. n |-> Bounded(e[i])]
  /\ journal' = journal \o LET d == Durables(SubSeq(e, 1, n - 1))
                           IN [i \in DOMAIN d |-> Stored(d[i])]

\* initialize, authenticate and session/new succeed; the binding goes to the
\* starter, unless it has gone away.
SessionOpens ==
  /\ worker = "handshake" /\ mode # "resume"
  /\ bound' = TRUE /\ worker' = "gate"
  /\ UNCHANGED <<owner, result, gate, cancelled, agent, turnVars, rows, events, setting>>

SendPrompt ==
  /\ prompts' = prompts + 1 /\ open' = TRUE /\ output' = <<>> /\ said' = Append(said, <<>>)

\* Mutant: the worker does not wait at the gate.
PromptAtOnce ==
  /\ worker = "gate" /\ gate # "dropped"
  /\ \/ Emits(<<Event("session_started", NoText, <<>>)>>) /\ worker' = "turn" /\ SendPrompt
        /\ UNCHANGED <<result, mishaps>>
     \/ EmitFails(<<Event("session_started", NoText, <<>>)>>, 1) /\ Ends("protocol")
        /\ UNCHANGED <<prompts, open, output, said>>
  /\ UNCHANGED <<owner, gating, inbox, spoken, told, decisions, rows, mode, policy, expired>>

\* Released: the session is announced and prompted.
FirstPrompt ==
  /\ worker = "gate" /\ gate = "open"
  /\ \/ Emits(<<Event("session_started", NoText, <<>>)>>) /\ worker' = "turn" /\ SendPrompt
        /\ UNCHANGED <<result, mishaps>>
     \/ EmitFails(<<Event("session_started", NoText, <<>>)>>, 1) /\ Ends("protocol")
        /\ UNCHANGED <<prompts, open, output, said>>
  /\ UNCHANGED <<owner, gating, inbox, spoken, told, decisions, rows, mode, policy, expired>>

\* Execution dropped before release.
GateDropped ==
  /\ worker = "gate" /\ gate = "dropped"
  /\ Ends("protocol")
  /\ UNCHANGED <<owner, gating, agent, turnVars, rows, events, setting>>

\* session/resume succeeds, and the follow-up is the prompt.
SessionResumes ==
  /\ worker = "handshake" /\ mode = "resume"
  /\ worker' = "turn" /\ SendPrompt
  /\ UNCHANGED <<owner, result, gating, inbox, spoken, told, decisions, rows, events, setting>>

\* What a typed update becomes.  Thoughts become nothing.
UpdateEvents(m) ==
  CASE m.type = "text" -> <<Event("assistant_message_delta", m.text, <<>>)>>
    [] m.type = "plan" -> <<Event("plan_updated", NoText, m.items)>>
    [] m.type = "tool" -> <<Event("tool_call_started", NoText, <<>>),
                            Event("tool_call_completed", NoText, <<>>)>>
    [] OTHER -> <<>>

\* The first option that fits the policy, or none.
Selected(options) ==
  LET want == IF policy = "deny" THEN "reject" ELSE "allow"
      fits == {i \in DOMAIN options : options[i] = want}
  IN IF fits = {} THEN "cancelled" ELSE want

PermissionEvents(m) ==
  <<Event("permission_requested", NoText, [i \in DOMAIN m.options |-> [len |-> 1, cost |-> 1]]),
    Event("permission_resolved", NoText, <<>>)>>

Rest == Tail(inbox)

\* A session of a resume is read by the protocol library, for its text only.
EventsOf(m) ==
  IF mode = "resume" THEN <<>>
  ELSE IF m.type = "permission" THEN PermissionEvents(m) ELSE UpdateEvents(m)

\* read_acp_turn takes an update or a request for permission.
TakeUpdate ==
  /\ worker = "turn" /\ inbox # <<>> /\ Head(inbox).type # "stop"
  /\ inbox' = Rest
  /\ LET m == Head(inbox)
         e == EventsOf(m)
         decides == mode # "resume" /\ m.type = "permission"
     IN /\ output' = IF m.type = "text" THEN Append(output, m) ELSE output
        /\ \/ Emits(e) /\ UNCHANGED <<worker, result, mishaps>>
              /\ decisions' = IF decides THEN Append(decisions, Selected(m.options))
                              ELSE decisions
           \/ \E n \in DOMAIN e : EmitFails(e, n) /\ Ends("protocol")
              /\ decisions' = IF decides /\ n = 2 THEN Append(decisions, Selected(m.options))
                              ELSE decisions
  /\ UNCHANGED <<owner, gating, open, said, spoken, prompts, told, rows, mode, policy, expired>>

\* The text of a turn as one event, as costly to encode as its costliest part.
Completed ==
  Event("assistant_message_completed",
        [len |-> FoldSeq(LAMBDA m, n : m.text.len + n, 0, output),
         cost |-> FoldSeq(LAMBDA m, n : IF m.text.cost > n THEN m.text.cost ELSE n, 1, output)],
        <<>>)

\* parse_peer_result: one strict JSON object, nothing around it.
IsStrict(texts) == Len(texts) = 1 /\ Head(texts).json

\* Mutant: the repaired answer is taken as it is.
AcceptsRepair(texts) == IsStrict(texts) \/ prompts = 2
Accepts(texts) == IsStrict(texts)

\* The contract is satisfied.  Of the result the artifacts are read from the
\* working directory, where they may be missing; a resume has none.
Concludes == Ends("completed") \/ (mode # "resume" /\ Ends("invalid"))

\* A turn ends.  A first turn that has not satisfied the contract is asked
\* once more, in the same session.
TurnEnds ==
  /\ worker = "turn" /\ inbox # <<>> /\ Head(inbox).type = "stop"
  /\ inbox' = Rest
  /\ \/ /\ Head(inbox).reason = "cancelled" /\ mode # "resume" /\ Ends("protocol")
        /\ UNCHANGED <<prompts, open, output, said, events, mishaps>>
     \/ /\ Head(inbox).reason # "cancelled" \/ mode = "resume"
        /\ IF mode = "resume" THEN UNCHANGED <<events, mishaps>>
           ELSE Emits(<<Completed>>) /\ UNCHANGED mishaps
        /\ IF Accepts(output)
           THEN Concludes /\ UNCHANGED <<prompts, open, output, said>>
           ELSE IF prompts = 1 /\ mode # "resume"
           THEN SendPrompt /\ UNCHANGED <<worker, result>>
           ELSE Ends("invalid") /\ UNCHANGED <<prompts, open, output, said>>
     \/ /\ Head(inbox).reason # "cancelled" /\ mode # "resume"
        /\ EmitFails(<<Completed>>, 1) /\ Ends("protocol")
        /\ UNCHANGED <<prompts, open, output, said>>
  /\ UNCHANGED <<owner, gating, spoken, told, decisions, rows, mode, policy, expired>>

\* The listener fires: cancel was called, or the execution is gone.
NoticeCancel ==
  /\ worker = "turn" /\ cancelled /\ mode # "resume"
  /\ worker' = "cancelling" /\ told' = TRUE
  /\ UNCHANGED <<owner, result, gating, agent, prompts, output, decisions, rows, events, setting>>

\* Mutant: any message ends the wait for the confirmation.
CancelReadsAnything ==
  /\ worker = "cancelling" /\ inbox # <<>>
  /\ inbox' = Rest
  /\ IF Head(inbox).type = "stop" /\ Head(inbox).reason # "cancelled"
     THEN Ends("protocol") ELSE Ends("cancelled")
  /\ UNCHANGED <<owner, gating, open, said, spoken, turnVars, rows, events, setting>>

\* Everything but a stop is ignored, requests for permission included.
CancelReads ==
  /\ worker = "cancelling" /\ inbox # <<>>
  /\ inbox' = Rest
  /\ IF Head(inbox).type # "stop" THEN UNCHANGED <<worker, result>>
     ELSE IF Head(inbox).reason = "cancelled" THEN Ends("cancelled")
     ELSE Ends("protocol")
  /\ UNCHANGED <<owner, gating, open, said, spoken, turnVars, rows, events, setting>>

\* Mutant: the deadline is set when the gate opens.
TimesOutAfterGate ==
  /\ worker \in {"handshake", "turn", "cancelling"} /\ expired
  /\ Ends("timed_out")
  /\ UNCHANGED <<owner, gating, agent, turnVars, rows, events, setting>>

\* One deadline over handshake, gate and turns.
TimesOut ==
  /\ worker \in {"handshake", "gate", "turn", "cancelling"} /\ expired
  /\ Ends("timed_out")
  /\ UNCHANGED <<owner, gating, agent, turnVars, rows, events, setting>>

Expire ==
  /\ worker # "off" /\ ~expired /\ expired' = TRUE
  /\ UNCHANGED <<owner, worker, result, gating, agent, turnVars, rows, events, mode, policy,
                 mishaps>>

-----------------------------------------------------------------------------
\* The adapter and the execution.

\* The driver reads the attempts of its task for the one that is running.
FindsAttempt == mode = "driver" => row = "running"

\* Then start spawns the worker.
Start ==
  /\ holder = "idle" /\ mode # "resume"
  /\ \/ /\ FindsAttempt
        /\ holder' = "starting" /\ worker' = "handshake" /\ task' = TRUE
        /\ UNCHANGED <<answer, mishaps>>
     \/ /\ mode = "driver"
        /\ IF FindsAttempt THEN Mishap ELSE UNCHANGED mishaps
        /\ Answers("error") /\ UNCHANGED <<worker, task>>
  /\ UNCHANGED <<result, gating, agent, turnVars, rows, events, mode, policy, expired>>

\* The binding has come, the worker has ended without one, or it took too long
\* and the worker is aborted.
Started ==
  /\ holder = "starting"
  /\ \/ /\ bound /\ holder' = IF mode = "driver" THEN "bind" ELSE "held"
        /\ UNCHANGED <<answer, worker, result>>
     \/ /\ ~bound /\ worker = "ended" /\ Answers("error") /\ UNCHANGED <<worker, result>>
     \/ /\ ~bound /\ expired /\ Answers("error") /\ Ends("aborted")
  /\ UNCHANGED <<task, gating, agent, turnVars, rows, events, setting>>

\* Letting go of the execution drops the gate and the sender of the watch.
LetGo == /\ gate' = IF gate = "held" THEN "dropped" ELSE gate
         /\ cancelled' = TRUE /\ task' = FALSE /\ UNCHANGED bound

\* The driver persists the binding before it waits.
Bind ==
  /\ holder = "bind"
  /\ \/ binding' = "running" /\ holder' = "release"
        /\ UNCHANGED <<answer, task, gating, mishaps>>
     \/ Mishap /\ Answers("error") /\ LetGo /\ UNCHANGED binding
  /\ UNCHANGED <<worker, result, agent, turnVars, row, events, mode, policy, expired>>

\* Opening the gate fails when the worker has already ended.
Release(next) ==
  IF gate = "held" /\ worker = "ended"
  THEN Answers("error") /\ gate' = "dropped" /\ UNCHANGED task
  ELSE /\ gate' = "open"
       /\ IF task THEN holder' = next /\ UNCHANGED answer ELSE Answers("error")
       /\ UNCHANGED task

Wait ==
  /\ \/ holder = "release"
     \/ holder = "held" /\ mode = "caller"
  /\ Release("waiting")
  /\ UNCHANGED <<worker, result, bound, cancelled, agent, turnVars, rows, events, setting>>

Cancel ==
  /\ holder = "held" /\ mode = "caller"
  /\ cancelled' = TRUE
  /\ Release("cancelling")
  /\ UNCHANGED <<worker, result, bound, agent, turnVars, rows, events, setting>>

\* The caller drops the future of wait, which has taken the JoinHandle.
StopWaiting ==
  /\ holder = "waiting" /\ mode = "caller"
  /\ holder' = "held" /\ task' = FALSE
  /\ UNCHANGED <<answer, worker, result, gating, agent, turnVars, rows, events, setting>>

Drop ==
  /\ mode = "caller"
  /\ \/ holder = "held" /\ Answers("error")
     \/ holder = "done" /\ ~cancelled /\ UNCHANGED <<holder, answer>>
  /\ LetGo
  /\ UNCHANGED <<worker, result, agent, turnVars, rows, events, setting>>

\* The second upsert of the driver, whatever has become of the row meanwhile.
CompleteBinding == binding' = "completed"

\* finish.  A driver's success completes the binding; its failure leaves it.
Finish ==
  /\ holder \in {"waiting", "cancelling"} /\ worker = "ended" /\ task' = FALSE
  /\ IF holder = "cancelling"
     THEN Answers(IF result = "cancelled" THEN "cancelled" ELSE "error")
          /\ UNCHANGED <<binding, mishaps>>
     ELSE IF result # "completed"
     THEN Answers(IF result = "cancelled" /\ mode = "resume" THEN "cancelled" ELSE "error")
          /\ UNCHANGED <<binding, mishaps>>
     ELSE \/ /\ Answers("ok") /\ UNCHANGED mishaps
             /\ IF mode = "driver" THEN CompleteBinding ELSE UNCHANGED binding
          \/ mode = "driver" /\ Mishap /\ Answers("error") /\ UNCHANGED binding
  /\ UNCHANGED <<worker, result, gating, agent, turnVars, row, events, mode, policy, expired>>

\* resume first probes the agent, in a process of its own that is asked for
\* nothing but a handshake and an empty session.
ProbeFails ==
  /\ holder = "idle" /\ mode = "resume"
  /\ Answers("error")
  /\ UNCHANGED <<task, worker, result, gating, agent, turnVars, rows, events, setting>>

\* Then it announces the session it has not resumed yet.
StartResume ==
  /\ holder = "idle" /\ mode = "resume"
  /\ \/ /\ Emits(<<Event("session_resumed", NoText, <<>>)>>)
        /\ holder' = "held" /\ UNCHANGED <<answer, mishaps>>
     \/ EmitFails(<<Event("session_resumed", NoText, <<>>)>>, 1) /\ Answers("error")
  /\ UNCHANGED <<task, worker, result, gating, agent, turnVars, rows, mode, policy, expired>>

WaitResumed ==
  /\ holder = "held" /\ mode = "resume"
  /\ IF cancelled THEN Answers("cancelled") /\ UNCHANGED worker
     ELSE holder' = "waiting" /\ worker' = "handshake" /\ UNCHANGED answer
  /\ UNCHANGED <<task, result, gating, agent, turnVars, rows, events, setting>>

\* There is no session yet to cancel.
CancelResumed ==
  /\ holder = "held" /\ mode = "resume" /\ ~cancelled
  /\ cancelled' = TRUE
  /\ UNCHANGED <<owner, worker, result, bound, gate, agent, turnVars, rows, events, setting>>

\* run_one settles the attempt by what the driver answers.
Settle ==
  /\ mode = "driver" /\ holder = "done" /\ row = "running" /\ answer # "none"
  /\ row' = IF answer = "ok" THEN "succeeded" ELSE "failed"
  /\ UNCHANGED <<owner, worker, result, gating, agent, turnVars, binding, events, setting>>

\* `am recover`, of an attempt somebody may still work for.
Recover ==
  /\ mode = "driver" /\ row = "running"
  /\ row' = "failed" /\ binding' = IF binding = "none" THEN "none" ELSE "interrupted"
  /\ UNCHANGED <<owner, worker, result, gating, agent, turnVars, events, setting>>

\* The am process is killed; the agent sees its connection close.
Kill ==
  /\ holder \notin {"idle", "done"} /\ Mishap
  /\ holder' = "done" /\ answer' = "none" /\ task' = FALSE
  /\ Ends("aborted")
  /\ UNCHANGED <<gating, agent, turnVars, rows, events, mode, policy, expired>>

-----------------------------------------------------------------------------
Work ==
  \/ SessionOpens \/ FirstPrompt \/ GateDropped \/ SessionResumes
  \/ TakeUpdate \/ TurnEnds \/ NoticeCancel \/ CancelReads

Hold ==
  \/ Start \/ Started \/ Bind \/ Wait \/ Finish
  \/ ProbeFails \/ StartResume \/ WaitResumed \/ Settle

Next ==
  \/ \E m \in Says : AgentSays(m)
  \/ \E r \in {"end_turn", "cancelled"} : AgentStops(r)
  \/ AgentFails \/ Work \/ TimesOut \/ Expire
  \/ Hold \/ Cancel \/ StopWaiting \/ Drop \/ CancelResumed
  \/ Recover \/ Kill

\* The deadline passes, timers fire, the driver's future is polled.  The agent
\* owes nothing, a caller neither.
Fairness ==
  /\ WF_vars(TimesOut) /\ WF_vars(Expire) /\ WF_vars(mode = "driver" /\ Hold)

Spec == Init /\ [][Next]_vars
FairSpec == Spec /\ Fairness

-----------------------------------------------------------------------------
\* What each variable holds.
TypeOK ==
  /\ holder \in {"idle", "starting", "bind", "release", "held", "waiting", "cancelling", "done"}
  /\ answer \in {"none", "ok", "cancelled", "error"}
  /\ worker \in {"off", "handshake", "gate", "turn", "cancelling", "ended"}
  /\ result \in {"none", "completed", "invalid", "protocol", "timed_out", "cancelled", "aborted"}
  /\ (result = "none") = (worker # "ended")
  /\ gate \in {"held", "open", "dropped"}
  /\ {task, bound, cancelled, expired, open, told} \subseteq BOOLEAN
  /\ prompts = Len(said) /\ IsPrefix(output, IF prompts = 0 THEN <<>> ELSE said[prompts])
  /\ Range(decisions) \subseteq {"allow", "reject", "cancelled"}
  /\ row \in {"running", "succeeded", "failed"}
  /\ binding \in {"none", "running", "completed", "interrupted"}
  /\ spoken \in 0 .. MaxSaid /\ mishaps \in 0 .. MaxMishaps

\* "The scheduler-facing bridge [may] persist that binding before any foreign
\* side effect is released" (acp_worker.rs:107-110), and a resume cancelled
\* before its wait prompts nothing (830-833).
PromptIsReleased ==
  /\ mode = "driver" /\ prompts > 0 => binding # "none"
  /\ mode = "caller" /\ prompts > 0 => gate = "open"
  /\ mode = "resume" /\ answer = "cancelled" => prompts = 0

\* "A cancellation is confirmed only after the peer returns the stable-v1
\* `cancelled` stop reason" (337-339), and neither a result nor a confirmation
\* leaves the agent at work on a prompt, whatever was in flight.
AnsweredIsOver ==
  answer \in {"ok", "cancelled"} => ~open /\ (answer = "cancelled" /\ mode = "caller" => told)

\* "The final response still undergoes strict parsing ... and is never accepted
\* by heuristic extraction" (441-444): a result is all the agent said to its
\* latest prompt, of at most two; only a result completes the binding, and no
\* attempt succeeds without both, whatever fails in between.
ResultIsEarned ==
  /\ prompts <= 2
  /\ answer = "ok" \/ binding = "completed" => IsStrict(said[prompts])
  /\ row = "succeeded" => binding = "completed"

\* What is durable of an event is what the live observer saw of it, nothing
\* visible is left out, and a failing write is the last (runtime_event.rs:54-83);
\* every answered request for permission was journaled first, and the deny
\* policy never lets one through (acp_worker.rs:1025-1093).
JournalIsComplete ==
  /\ LET seen == Durables(shown)
     IN /\ IsPrefix(journal, seen)
        /\ Len(seen) > Len(journal) =>
             Len(seen) = Len(journal) + 1 /\ (worker = "ended" \/ mode = "resume")
  /\ Len(decisions) <=
       Cardinality({i \in DOMAIN journal : journal[i].kind = "permission_requested"})
  /\ policy = "deny" => \A i \in DOMAIN decisions : decisions[i] # "allow"

\* No worker outlives its deadline, whoever holds the execution, and the
\* scheduler gets its answer.
ExecutionEnds ==
  /\ worker # "off" ~> worker = "ended"
  /\ (mode = "driver" /\ holder # "idle") ~> holder = "done"
=============================================================================
