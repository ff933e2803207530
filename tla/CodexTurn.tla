----------------------------- MODULE CodexTurn ------------------------------
(* The two clients of the Codex app-server: the resident Lead brain          *)
(* (codex_lead.rs) and the scheduler's team driver (codex_team_driver.rs).   *)
(* One behaviour has one client of either kind.                              *)
(*                                                                           *)
(* The client is one thread.  A step of it takes the next line it waits for  *)
(* and does everything up to its next blocking read or join.  The Lead uses  *)
(* no board; every call the driver makes on its board may fail.              *)
EXTENDS CodexAppServer, LeadReply, FiniteSetsExt

CONSTANTS
  Snapshots,   \* the agent messages a completed turn may hold, in their order:
               \* each of the phase finalAnswer, of another, or delivered async,
               \* and what it says
  MaxEvents,   \* config.max_events: the events one turn may take
  MaxRounds    \* bound: the rounds of the Lead's session

ASSUME EventsAssumption == MaxEvents \in Nat \ {0} /\ MaxRounds \in Nat \ {0}

\* A snapshot is a sequence of messages, and a follow-up holds one task.
ASSUME SnapshotsAssumption ==
  \A items \in Snapshots :
    /\ Len(items) \in Nat /\ DOMAIN items = 1 .. Len(items)
    /\ \A i \in DOMAIN items :
         /\ items[i].phase \in {"final", "visible", "async"}
         /\ items[i].says.action = "follow_up" => DOMAIN items[i].says.tasks = {1}

VARIABLES
  kind,        \* "lead" or "team"
  phase,       \* where the client thread is
  call,        \* the request it waits on, or Nothing
  turn,        \* the turn it pumps: the reply to its last `turn/start`
  events,      \* the events the pump may still take
  corrected,   \* the round has used its correction turn
  rounds,      \* rounds begun
  reply,       \* the turn whose text the round (or the task) ended on,
  message,     \* ... its messages and the one that was selected
  outcome,     \* "none", "ok" or "err", of the round or the task
  binding,     \* lifecycle_state of the task's external binding, or "none"
  unmarked     \* the driver could not mark the binding when its task ended

progress == <<kind, phase, call, turn, events, corrected, rounds, reply, message, outcome,
              binding, unmarked>>
vars == <<transport, server, progress>>

\* "expiring" and "closing" are the joins of `terminate`, from a deadline and
\* from `close`.
Waiting == {"calling", "pumping"}
Phases == Waiting \union {"idle", "failed", "expiring", "closing", "closed"}

TypeOK ==
  /\ TransportTypeOK
  /\ kind \in {"lead", "team"}
  /\ phase \in Phases
  /\ call \in [id : Nat, method : Methods \union {"none"}, turn : Turns \union {Foreign}]
  /\ turn \in Turns \union {Foreign} /\ reply \in Turns \union {Foreign}
  /\ message \in [items : Snapshots \union {<<>>}, at : Nat]
  /\ events \in 0 .. MaxEvents /\ rounds \in 0 .. MaxRounds
  /\ corrected \in BOOLEAN
  /\ outcome \in {"none", "ok", "err"}
  /\ binding \in {"none", "starting", "running", "completed", "failed"}
  /\ unmarked \in BOOLEAN

Init ==
  /\ TransportInit
  /\ kind \in {"lead", "team"}
  /\ phase = "idle" /\ call = Nothing /\ turn = Foreign /\ events = 0
  /\ corrected = FALSE /\ rounds = 0 /\ reply = Foreign
  /\ message = [items |-> <<>>, at |-> 0]
  /\ outcome = "none" /\ binding = "none" /\ unmarked = FALSE

-----------------------------------------------------------------------------
(* How a conversation goes on and how it ends.                             *)

\* The driver marks its binding, whose row on the board is `row`, with what
\* came of the task.  A row it cannot read it leaves alone; a board that cannot
\* be opened or written turns a finished task into a failed one.
Mark(row, lifecycle, result) ==
  \/ /\ binding' = IF row = "none" THEN "none" ELSE lifecycle
     /\ unmarked' = FALSE /\ outcome' = result
  \/ binding' = row /\ unmarked' = TRUE /\ outcome' \in {result, "err"}

\* Mutant of GiveUpWith: the driver returns the error with `?`, and the client
\* is only dropped.
GiveUpUnmarked(row) ==
  /\ outcome' = "err" /\ call' = Nothing
  /\ phase' = "closing" /\ Kill
  /\ binding' = row
  /\ UNCHANGED <<kind, turn, events, corrected, rounds, reply, message, unmarked>>

\* The client gives up.  The team driver marks its binding and closes the
\* client; so does the Lead while it has no thread yet; later the Lead only
\* returns the error, and the brain is dropped by whoever owns it.
GiveUpWith(row) ==
  /\ IF kind = "team"
       THEN Mark(row, "failed", "err") /\ phase' = "closing" /\ Kill
       ELSE /\ outcome' = "err"
            /\ IF call.method \in {"initialize", "thread/start"}
                 THEN phase' = "closing" /\ Kill
                 ELSE phase' = "failed" /\ UNCHANGED child
            /\ UNCHANGED <<binding, unmarked>>
  /\ call' = Nothing
  /\ UNCHANGED <<kind, turn, events, corrected, rounds, reply, message>>

GiveUp == GiveUpWith(binding)

\* A call on the driver's board fails: the task ends there.
BoardFails == kind = "team" /\ GiveUp /\ UNCHANGED <<nextId, inbox>>

\* Send a request and wait for its reply, or give up when it cannot be sent.
\* The `initialized` notification, which has no reply, goes with the first.
Send(method, about) ==
  /\ Writable
  /\ call' = Request(nextId, method, about)
  /\ nextId' = nextId + 1
  /\ inbox' = Append(inbox, call')
  /\ phase' = "calling"
  /\ UNCHANGED child

CannotSend == ~Writable /\ GiveUp /\ UNCHANGED <<nextId, inbox>>

\* The last visible message of the phase finalAnswer, or else the last visible
\* message; 0 stands for none.
SelectFinalAgentMessage(items) ==
  LET visible == {i \in DOMAIN items : items[i].phase # "async"}
      finals == {i \in visible : items[i].phase = "final"}
  IN Max((IF finals = {} THEN visible ELSE finals) \union {0})

\* The round ended well: the Lead keeps its client for the next round; the
\* driver marks its binding and closes.
Succeed(items) ==
  /\ reply' = call.turn
  /\ message' = [items |-> items, at |-> SelectFinalAgentMessage(items)]
  /\ IF kind = "team"
       THEN Mark(binding, "completed", "ok") /\ phase' = "closing" /\ Kill
       ELSE outcome' = "ok" /\ phase' = "idle" /\ UNCHANGED <<binding, unmarked, child>>
  /\ call' = Nothing
  /\ UNCHANGED <<kind, turn, events, corrected, rounds, nextId, inbox>>

-----------------------------------------------------------------------------
(* Requests.                                                               *)

\* `decide` with no thread yet, or `run_blocking`: start the process and
\* initialize it.  A process that cannot be started ends the matter, and so does
\* an attempt the driver does not find on its board.
Spawn ==
  /\ phase = "idle" /\ child = "none" /\ rounds < MaxRounds
  /\ rounds' = rounds + 1
  /\ \/ /\ child' = "up" /\ reader' = "reading"
        /\ call' = Request(nextId, "initialize", Foreign)
        /\ nextId' = nextId + 1
        /\ inbox' = <<call'>>
        /\ phase' = "calling" /\ UNCHANGED outcome
     \/ /\ phase' = "closed" /\ outcome' = "err"
        /\ UNCHANGED <<child, reader, call, nextId, inbox>>
  /\ UNCHANGED <<pipe, channel, pending, overflowed, owed, turns, open, lines,
                 kind, turn, events, corrected, reply, message, binding, unmarked>>

\* `decide` again: a turn on the resident thread.
NextRound ==
  /\ phase = "idle" /\ child # "none" /\ rounds < MaxRounds /\ Len(turns) < MaxTurns
  /\ \/ /\ Send("turn/start", Foreign)
        /\ outcome' = "none" /\ rounds' = rounds + 1 /\ corrected' = FALSE
        /\ UNCHANGED <<kind, turn, events, reply, message, binding, unmarked>>
     \/ CannotSend
  /\ UNCHANGED <<pipe, reader, channel, pending, overflowed, owed, turns, open, lines>>

\* The reply to each request decides what follows.
Initialized ==
  /\ call.method = "initialize"
  /\ \/ /\ Send("thread/start", Foreign)
        /\ UNCHANGED <<kind, turn, events, corrected, rounds, reply, message, outcome,
                       binding, unmarked>>
     \/ CannotSend

\* The driver writes its binding before it sends `turn/start`.
ThreadStarted ==
  /\ call.method = "thread/start"
  /\ \/ /\ Send("turn/start", Foreign)
        /\ binding' = IF kind = "team" THEN "starting" ELSE "none"
        /\ UNCHANGED <<kind, turn, events, corrected, rounds, reply, message, outcome, unmarked>>
     \/ ~Writable /\ kind = "lead" /\ GiveUp /\ UNCHANGED <<nextId, inbox>>
     \/ ~Writable /\ kind = "team" /\ GiveUpWith("starting") /\ UNCHANGED <<nextId, inbox>>
     \/ BoardFails

\* ... and once more before it pumps the turn.
TurnStarted(line) ==
  /\ call.method = "turn/start"
  /\ \/ /\ turn' = line.turn
        /\ binding' = IF kind = "team" THEN "running" ELSE "none"
        /\ events' = MaxEvents
        /\ phase' = "pumping" /\ call' = Nothing
        /\ UNCHANGED <<kind, corrected, rounds, reply, message, outcome, unmarked,
                       child, nextId, inbox>>
     \/ BoardFails

\* The driver then reads its artifacts; one that is no file fails the task.
ArtifactsMissing == kind = "team" /\ GiveUp

\* A reply the Lead rejects earns one correction turn; a second one is final.
Correct ==
  \/ /\ ~corrected /\ Len(turns) < MaxTurns
     /\ \/ /\ Send("turn/start", Foreign)
           /\ corrected' = TRUE
           /\ UNCHANGED <<kind, turn, events, rounds, reply, message, outcome,
                          binding, unmarked>>
        \/ CannotSend
  \/ corrected /\ GiveUp /\ UNCHANGED <<nextId, inbox>>

\* Only a completed turn with a visible message ends the round, and for the
\* Lead only a reply it can parse.
SnapshotRead(line) ==
  /\ call.method = "thread/read"
  /\ \/ /\ line.body \in {"answered", "ok"}
        /\ \E items \in Snapshots :
             LET at == SelectFinalAgentMessage(items) IN
             IF at = 0 THEN GiveUp /\ UNCHANGED <<nextId, inbox>>
             ELSE IF kind = "team" \/ ParseReply(items[at].says) THEN Succeed(items)
             ELSE Correct
     \/ line.body = "failed" /\ GiveUp /\ UNCHANGED <<nextId, inbox>>
     \/ ArtifactsMissing /\ UNCHANGED <<nextId, inbox>>

ReplyTo(line) ==
  IF line.kind = "ask" \/ line.body = "error"
    THEN GiveUp /\ UNCHANGED <<nextId, inbox>>
    ELSE Initialized \/ ThreadStarted \/ TurnStarted(line) \/ SnapshotRead(line)

\* The loop of `request`: one line of the channel.
ReceiveWhileCalling ==
  /\ phase = "calling" /\ ~Silent
  /\ channel' = Tail(channel)
  /\ LET line == Head(channel) IN
       \/ /\ Correlates(line, call)
          /\ ReplyTo(line)
          /\ UNCHANGED <<pending, overflowed>>
       \/ /\ ~Correlates(line, call) /\ line.kind \in {"ask", "note", "done"}
          /\ Keep(line)
          /\ UNCHANGED <<child, nextId, inbox, progress>>
       \/ /\ ~Correlates(line, call) /\ line.kind = "reply"
          /\ UNCHANGED <<pending, overflowed, child, nextId, inbox, progress>>
       \/ /\ line.kind = "junk"
          /\ GiveUp
          /\ UNCHANGED <<pending, overflowed, nextId, inbox>>
  /\ UNCHANGED <<pipe, reader, owed, turns, open, lines>>

-----------------------------------------------------------------------------
(* The event pump of a turn.                                               *)

\* Mutant of IsMine: any completion is the Lead's.
IsAnyones(line) == TRUE

\* The Lead goes on only with the completion of the turn it started; the team
\* driver goes on with any.
IsMine(line) == kind = "team" \/ line.turn = turn

\* Requests the client answers: both accept their own bridge's elicitation;
\* only the Lead refuses a tool call, the driver leaves it alone.
Answers(line) ==
  line.kind = "ask" /\ (line.body = "own" \/ (line.body = "tool" /\ kind = "lead"))

\* Mutant of Skips: nobody answers a tool call.
SkipsTools(line) ==
  \/ line.kind = "note"
  \/ line.kind = "done" /\ ~IsMine(line)
  \/ line.kind = "ask" /\ line.body = "tool"

Skips(line) ==
  \/ line.kind = "note"
  \/ line.kind = "done" /\ ~IsMine(line)
  \/ line.kind = "ask" /\ line.body = "tool" /\ kind = "team"

Refuses(line) == line.kind \in {"reply", "junk"} \/ line.body = "other"

Pumped ==
  /\ events' = events - 1
  /\ UNCHANGED <<kind, phase, call, turn, corrected, rounds, reply, message, outcome,
                 binding, unmarked>>

PumpEvent ==
  /\ phase = "pumping" /\ events > 0 /\ HasEvent
  /\ TakeEvent
  /\ LET line == Event IN
       \/ /\ line.kind = "done" /\ IsMine(line)
          /\ \/ /\ Send("thread/read", line.turn)
                /\ UNCHANGED <<kind, turn, events, corrected, rounds, reply, message, outcome,
                               binding, unmarked>>
             \/ CannotSend
       \/ /\ Answers(line)
          /\ \/ /\ Writable /\ inbox' = Append(inbox, Answer(line.id))
                /\ Pumped /\ UNCHANGED <<child, nextId>>
             \/ CannotSend
       \/ Skips(line) /\ Pumped /\ UNCHANGED <<child, nextId, inbox>>
       \/ Refuses(line) /\ GiveUp /\ UNCHANGED <<nextId, inbox>>
  /\ UNCHANGED <<pipe, reader, overflowed, owed, turns, open, lines>>

\* The pump has taken all the events it may.
PumpExhausted ==
  /\ phase = "pumping" /\ events = 0
  /\ GiveUp
  /\ UNCHANGED <<pipe, reader, channel, pending, overflowed, nextId, server>>

-----------------------------------------------------------------------------
(* Silence, and the end.                                                   *)

\* Mutant of NothingToRead: the pump reads its events without a deadline.
NothingToReadInRequest == phase = "calling" /\ Silent

NothingToRead ==
  \/ phase = "calling" /\ Silent
  \/ phase = "pumping" /\ events > 0 /\ ~HasEvent

\* The deadline of a read expires: the client is terminated there and then.
DeadlineExpires ==
  /\ NothingToRead /\ reader = "reading"
  /\ Kill /\ phase' = "expiring"
  /\ UNCHANGED <<pipe, reader, channel, pending, overflowed, nextId, server,
                 kind, call, turn, events, corrected, rounds, reply, message, outcome,
                 binding, unmarked>>

\* The reader has dropped its end: `Closed`.
Disconnected ==
  /\ NothingToRead /\ ReaderJoined
  /\ GiveUp
  /\ UNCHANGED <<pipe, reader, channel, pending, overflowed, nextId, server>>

\* The join of the deadline returns, and the read with its error.
Expired ==
  /\ phase = "expiring" /\ ReaderJoined
  /\ GiveUp
  /\ UNCHANGED <<pipe, reader, channel, pending, overflowed, nextId, server>>

\* The owner drops the Lead between two rounds or after a failed one.
DropLead ==
  /\ kind = "lead" /\ phase \in {"idle", "failed"} /\ child # "none"
  /\ Kill /\ phase' = "closing"
  /\ UNCHANGED <<pipe, reader, channel, pending, overflowed, nextId, server,
                 kind, call, turn, events, corrected, rounds, reply, message, outcome,
                 binding, unmarked>>

Closed ==
  /\ phase = "closing" /\ ReaderJoined
  /\ phase' = "closed"
  /\ UNCHANGED <<transport, server,
                 kind, call, turn, events, corrected, rounds, reply, message, outcome,
                 binding, unmarked>>

Converse == ReceiveWhileCalling \/ PumpEvent \/ PumpExhausted
End == DeadlineExpires \/ Disconnected \/ Expired \/ DropLead \/ Closed
Client == Spawn \/ NextRound \/ Converse \/ End

ReaderThread == Reader /\ UNCHANGED progress
AppServer == Server /\ UNCHANGED progress

Next == Client \/ ReaderThread \/ AppServer

\* The two threads of the client are scheduled, and a deadline expires; the
\* server owes nothing.
Fairness == WF_vars(Client) /\ WF_vars(ReaderThread)

Spec == Init /\ [][Next]_vars /\ Fairness

-----------------------------------------------------------------------------
(* Properties.                                                             *)

\* The lines on their way to the client, oldest first.
OnTheWay == pending \o channel \o pipe
Coming(line) == \E i \in DOMAIN OnTheWay : OnTheWay[i] = line

\* What the Lead loop needs of a decision (lead.rs:386-449): work for agents
\* that exist, or a result whose artifacts belong to the tasks it rests on.
IsDecision(d) ==
  \/ /\ d.action \in {"delegate", "follow_up"} /\ d.tasks # <<>>
     /\ \A i \in DOMAIN d.tasks : d.tasks[i].target \in Candidates \union {Anyone}
  \/ /\ d.action = "complete" /\ d.selected # <<>>
     /\ {d.artifacts[i].task : i \in DOMAIN d.artifacts} \subseteq Range(d.selected)

\* The Lead ends a round on the text of the turn that round started, whatever
\* other threads and earlier turns complete meanwhile (codex_lead.rs:494-503),
\* and on that turn's final message: nothing said in passing after it, and no
\* async delivery, stands in for it (codex_app_server.rs:536-590).  What it
\* hands to the loop is a decision, of the first reply or of the correction.
LeadReadsItsOwnTurn ==
  kind = "lead" =>
    /\ phase = "idle" /\ outcome = "ok" =>
         /\ reply = turn /\ turns[turn] = "answered"
         /\ LET said == message.items[message.at] IN
              /\ \/ said.phase = "final"
                 \/ /\ said.phase = "visible"
                    /\ \A i \in DOMAIN message.items : message.items[i].phase # "final"
              /\ IsDecision(said.says)
    /\ call.method = "thread/read" => call.turn = turn

\* A turn that completes while its own request, or another one, is outstanding
\* is not lost: the pump of a finished turn still has the completion before it,
\* unless the queue of kept lines overflowed (codex_app_server.rs:70-72).
CompletionIsKept ==
  phase = "pumping" /\ turns[turn] # "active" /\ ~overflowed => Coming(Completed(turn))

\* The Lead swallows no request of the server: one that has no answer is still
\* on its way to the Lead, or its answer to the server, or the Lead has given
\* up (codex_lead.rs:478-480).
LeadSwallowsNoRequest ==
  kind = "lead" /\ phase \in Waiting /\ ~overflowed =>
    \A id \in open :
      \/ \E what \in Asks : Coming(Ask(id, what))
      \/ \E i \in DOMAIN inbox : inbox[i] = Answer(id)

\* What arrives among the replies to other requests is kept for the pump
\* (codex_app_server.rs:420-435): completions and requests of the server.
NothingIsSwallowed == CompletionIsKept /\ LeadSwallowsNoRequest

\* The driver's binding tells how the task ended, and is final before the
\* process is given up (codex_team_driver.rs:222-237), whichever call failed:
\* the board's at 188 and 199 too.  Only a failure of the marking itself
\* (229-236) is excused: its row may stay as it was, and then tells no outcome,
\* above all not that a finished task failed.
BindingTellsTheOutcome ==
  kind = "team" /\ phase \in {"closing", "closed"} =>
    IF unmarked
      THEN binding \in {"none", "starting", "running"} /\ (outcome = "ok" => binding = "running")
      ELSE binding \in {"none", "completed", "failed"} /\ (binding = "completed" <=> outcome = "ok")

\* A closed client leaves no process and no reader thread behind
\* (codex_app_server.rs:378-401).
NothingOutlivesClose ==
  phase = "closed" => child # "up" /\ reader # "reading"

\* The reader is stuck in `send` and the client in the join of the reader.
Stuck ==
  phase \in {"expiring", "closing"} /\ Len(channel) = Capacity /\ pipe # <<>>

\* Every read, request and close ends, except against one thing: a backlog the
\* channel cannot hold when the client is terminated.
OnlyABacklogHangs ==
  phase \in Waiting \union {"failed", "expiring", "closing"} ~>
    (phase \in {"idle", "closed"} \/ Stuck)

\* What the comment of `pump_turn` says: a turn that does not end cannot hang
\* the Lead (codex_lead.rs:477-478).
TurnNeverHangsTheLead ==
  kind = "lead" /\ phase = "pumping" ~> phase \in {"idle", "closed"}
=============================================================================
