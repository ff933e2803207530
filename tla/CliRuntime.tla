----------------------------- MODULE CliRuntime -----------------------------
(***************************************************************************)
(* Supervision of one child process that writes JSON lines: run_invocation *)
(* of codex_exec.rs and claude_cli.rs, which differ in their lines only.   *)
(* A stdout reader thread feeds a bounded channel, a stderr reader keeps a *)
(* bounded prefix, the calling thread writes the prompt, takes lines until *)
(* an absolute deadline, and finally joins both readers.                   *)
(*                                                                         *)
(* External: the child, a helper it starts in its process group, or a      *)
(* daemon that leaves the group.  Who holds the write ends of the pipes    *)
(* decides when a reader sees the end of its stream.                       *)
(***************************************************************************)
EXTENDS Naturals, Sequences, FiniteSets

CONSTANTS
  PipeCap,       \* lines the stdout pipe holds (64 KiB)
  ChannelCap,    \* lines the channel holds (256)
  MaxLines       \* bound: lines written to stdout in one invocation

ASSUME CapsAreNat == PipeCap \in Nat \ {0} /\ ChannelCap \in Nat \ {0} /\ MaxLines \in Nat

Process == {"child", "helper", "daemon"}
ProcessGroup == {"child", "helper"}

\* What a line can be for the client.  "quoted" is a message that no longer
\* fits the event log once its text is escaped; "delta" stands for all that is
\* not logged; an "error" is an error event, no JSON, or no UTF-8.
LineKind == {"session", "message", "quoted", "delta", "result", "error"}

VARIABLES
  sup,       \* where the calling thread is in run_invocation
  outcome,   \* its `outcome`: "none", "ok", "timeout", "error"
  alive,     \* processes that run
  exit,      \* exit status of the child: "none", "ok", "bad"
  outHeld,   \* processes that hold the write end of stdout
  errHeld,   \* ... of stderr
  errFull,   \* 16 KiB were written to stderr
  prompt,    \* "fits" into the stdin pipe, is too "large" for it, or "taken"
  stdout,    \* lines in the pipe
  channel,   \* lines in the channel
  written,   \* lines written so far
  said       \* messages among them

lines == <<stdout, channel, written, said>>
transport == <<alive, exit, outHeld, errHeld, errFull, prompt, lines>>
runVars == <<sup, outcome>>

CliTypeOK ==
  /\ sup \in {"off", "write", "loop", "emit", "wait", "join", "diagnose"}
  /\ outcome \in {"none", "ok", "timeout", "error"}
  /\ alive \subseteq Process /\ outHeld \subseteq alive /\ errHeld \subseteq alive
  /\ exit \in {"none", "ok", "bad"}
  /\ errFull \in BOOLEAN /\ prompt \in {"fits", "large", "taken"}
  /\ stdout \in Seq(LineKind \X (0 .. MaxLines)) /\ Len(stdout) <= PipeCap
  /\ channel \in Seq(LineKind \X (0 .. MaxLines)) /\ Len(channel) <= ChannelCap
  /\ written \in 0 .. MaxLines /\ said \in 0 .. written

Closed ==
  /\ alive = {} /\ exit = "none" /\ outHeld = {} /\ errHeld = {} /\ errFull = FALSE
  /\ prompt = "taken" /\ stdout = <<>> /\ channel = <<>> /\ written = 0 /\ said = 0

\* The client's ends of the pipes close, and whoever still holds another end is
\* on its own.
Close ==
  /\ alive' = {} /\ exit' = "none" /\ outHeld' = {} /\ errHeld' = {} /\ errFull' = FALSE
  /\ prompt' = "taken" /\ stdout' = <<>> /\ channel' = <<>> /\ written' = 0 /\ said' = 0

\* The reader of stdout ends with the stream.  It would also end when its
\* receiver is gone, but the receiver lives as long as run_invocation.
ReaderDone == stdout = <<>> /\ outHeld = {}

\* The reader of stderr ends after 16 KiB or with the stream.
StderrDone == errFull \/ errHeld = {}

-----------------------------------------------------------------------------
\* The child's side of the pipes.

\* Whoever holds stdout writes a line; a full pipe blocks it.
Write(k) ==
  /\ outHeld # {} /\ Len(stdout) < PipeCap /\ written < MaxLines
  /\ written' = written + 1
  /\ said' = IF k \in {"message", "quoted"} THEN said + 1 ELSE said
  /\ stdout' = Append(stdout, <<k, said'>>)
  /\ UNCHANGED <<alive, exit, outHeld, errHeld, errFull, prompt, channel>>

ReadPrompt ==
  /\ sup = "write" /\ "child" \in alive
  /\ prompt' = "taken"
  /\ UNCHANGED <<alive, exit, outHeld, errHeld, errFull, lines>>

\* It matters only to the join at the end.
FillStderr ==
  /\ sup = "diagnose" /\ errHeld # {}
  /\ errFull' = TRUE
  /\ UNCHANGED <<alive, exit, outHeld, errHeld, prompt, lines>>

\* The child starts another process (one at a time), which inherits stderr and
\* perhaps stdout; one that inherits neither is of no concern.
Fork(p) ==
  /\ alive = {"child"} /\ p # "child"
  /\ alive' = alive \cup {p}
  /\ outHeld' \in {outHeld, outHeld \cup {q \in {p} : "child" \in outHeld}}
  /\ errHeld' = errHeld \cup {p}
  /\ UNCHANGED <<exit, errFull, prompt, lines>>

CloseStdout ==
  /\ "child" \in outHeld
  /\ outHeld' = outHeld \ {"child"}
  /\ UNCHANGED <<alive, exit, errHeld, errFull, prompt, lines>>

\* The processes in ps end, and with them their ends of the pipes.
End(ps) ==
  /\ alive' = alive \ ps
  /\ outHeld' = outHeld \ ps
  /\ errHeld' = errHeld \ ps
  /\ UNCHANGED <<errFull, prompt, lines>>

Exit(p) ==
  /\ p \in alive
  /\ End({p})
  /\ IF p = "child" THEN exit' \in {"ok", "bad"} ELSE UNCHANGED exit

Environment ==
  /\ sup # "off"
  /\ \/ \E k \in LineKind : Write(k)
     \/ ReadPrompt
     \/ FillStderr
     \/ CloseStdout
     \/ \E p \in Process : Fork(p) \/ Exit(p)
  /\ UNCHANGED runVars

-----------------------------------------------------------------------------
\* The client's side.

\* The reader thread moves a line on; a full channel blocks it.
Forward ==
  /\ stdout # <<>> /\ Len(channel) < ChannelCap
  /\ channel' = Append(channel, Head(stdout))
  /\ stdout' = Tail(stdout)
  /\ UNCHANGED <<alive, exit, outHeld, errHeld, errFull, prompt, written, said, runVars>>

\* Spawn with all three pipes, in a process group of its own.
Spawn ==
  /\ sup' = "write" /\ outcome' = "none"
  /\ alive' = {"child"} /\ outHeld' = {"child"} /\ errHeld' = {"child"}
  /\ prompt' \in {"fits", "large"}
  /\ UNCHANGED <<exit, errFull, lines>>

\* terminate_group: SIGKILL to the group, then wait for the child.
TerminateGroup ==
  /\ End(ProcessGroup)
  /\ exit' = IF "child" \in alive THEN "bad" ELSE exit

\* Mutant: only the child is killed.
FailChild(o) ==
  /\ outcome' = o /\ sup' = "join"
  /\ End({"child"})
  /\ exit' = IF "child" \in alive THEN "bad" ELSE exit

\* `outcome` is an error: the group is terminated before the readers are joined.
Fail(o) ==
  /\ outcome' = o /\ sup' = "join"
  /\ TerminateGroup

\* write_all blocks, whatever the deadline, until the pipe took the prompt.
WritePrompt ==
  /\ sup = "write"
  /\ \/ /\ prompt = "taken" \/ (prompt = "fits" /\ "child" \in alive)
        /\ sup' = "loop" /\ prompt' = "taken"
        /\ UNCHANGED <<outcome, alive, exit, outHeld, errHeld, errFull, lines>>
     \/ "child" \notin alive /\ prompt # "taken" /\ Fail("error")

\* The deadline, which the loop looks at before it looks at the channel, may
\* have passed by any turn of the loop.
TimesOut == sup = "loop" /\ Fail("timeout")

\* Mutant: the end of the process counts, not the end of its output.
DisconnectedOnExit ==
  /\ sup = "loop" /\ ("child" \notin alive \/ ReaderDone)
  /\ sup' = "wait"
  /\ UNCHANGED <<transport, outcome>>

\* Every sender is gone and the channel is drained: wait for the child.
Disconnected ==
  /\ sup = "loop" /\ channel = <<>> /\ ReaderDone
  /\ sup' = "wait"
  /\ UNCHANGED <<transport, outcome>>

\* child.wait() has no deadline.  A session must have been reported.
Waited(session) ==
  /\ sup = "wait" /\ exit # "none"
  /\ IF exit = "ok" /\ session
     THEN /\ outcome' = "ok" /\ sup' = "join"
          /\ UNCHANGED transport
     ELSE Fail("error")

JoinReader ==
  /\ sup = "join" /\ ReaderDone
  /\ sup' = "diagnose"
  /\ UNCHANGED <<transport, outcome>>

-----------------------------------------------------------------------------
\* What can keep run_invocation from returning, deadline or not.

\* The child takes neither its prompt nor its leave.
PromptUnread == sup = "write" /\ prompt = "large" /\ "child" \in alive

\* The child has closed its output and goes on.
ExitAwaited == sup = "wait" /\ exit = "none"

\* The reader is blocked: the channel is full and nobody receives any more.
ReaderBlocked == sup = "join" /\ stdout # <<>> /\ Len(channel) = ChannelCap

\* Somebody the client did not kill holds a pipe open: a daemon, or, after a
\* successful exit, which kills nobody, anyone who inherited stderr.
PipeInherited ==
  \/ sup = "join" /\ "daemon" \in outHeld
  \/ sup = "diagnose" /\ (IF outcome = "ok" THEN errHeld # {} ELSE "daemon" \in errHeld)

Hangs == PromptUnread \/ ExitAwaited \/ ReaderBlocked \/ PipeInherited
=============================================================================
