--------------------------- MODULE CodexAppServer ---------------------------
(* The stdio client of `codex app-server` (codex_app_server.rs) and, marked  *)
(* external, the app-server process at the other end of the pipes.           *)
(*                                                                           *)
(* A line the server writes waits in its stdout pipe, is moved by the reader *)
(* thread into a bounded channel, and is taken from there by the one client  *)
(* thread.  A line that is not the answer to the client's outstanding        *)
(* request is kept in a second bounded queue that drops its oldest line.     *)
(* The line the reader thread has read and not yet sent is left at the head  *)
(* of the pipe.                                                              *)
(*                                                                           *)
(* What the client does with a line is the business of CodexTurn.            *)
EXTENDS Integers, Sequences, FiniteSets

CONSTANTS
  Capacity,    \* EVENT_QUEUE_CAPACITY: of the channel and of the kept lines
  MaxLines,    \* bound: the lines the server writes that nobody asked for
  MaxTurns,    \* bound: the turns of the thread
  AskIds       \* the ids the server gives to its own requests

ASSUME CapacityAssumption == Capacity \in Nat \ {0}
ASSUME BoundsAssumption == MaxLines \in Nat /\ MaxTurns \in Nat \ {0}
ASSUME AskIdsAssumption == AskIds \subseteq Nat \ {0}

VARIABLES
  child,       \* "none", "up" or "gone"
  pipe,        \* the lines of its stdout nobody has taken
  reader,      \* the reader thread: "none", "reading" or "done"
  channel,     \* sync_channel(EVENT_QUEUE_CAPACITY)
  pending,     \* pending_events
  overflowed,  \* history: a kept line was dropped
  nextId,      \* next_id
  inbox,       \* the lines of the server's stdin it has not read
  owed,        \* the request the server has read and not answered, or Nothing
  turns,       \* the status of each turn of the thread, in the order started
  open,        \* the server's requests that have no answer
  lines        \* the lines nobody asked for so far

transport == <<child, pipe, reader, channel, pending, overflowed, nextId>>
server == <<inbox, owed, turns, open, lines>>

Methods == {"initialize", "thread/start", "turn/start", "thread/read"}

Foreign == 0   \* a turn of another thread
Turns == 1 .. MaxTurns
Status == {"active", "answered", "failed"}

Request(id, method, turn) == [id |-> id, method |-> method, turn |-> turn]
Answer(id) == [id |-> id, method |-> "answer", turn |-> Foreign]
Nothing == Request(0, "none", Foreign)

\* Lines of the server: the reply to a request, with the turn it names and the
\* status of that turn, or "error"; a request of its own; a notification.
Reply(id, turn, body) == [kind |-> "reply", id |-> id, turn |-> turn, body |-> body]
Ask(id, what) == [kind |-> "ask", id |-> id, turn |-> Foreign, body |-> what]
Note == [kind |-> "note", id |-> 0, turn |-> Foreign, body |-> "ok"]
Completed(turn) == [kind |-> "done", id |-> 0, turn |-> turn, body |-> "ok"]
Stray == Reply(0, Foreign, "ok")   \* a reply to no request
Malformed == [kind |-> "junk", id |-> 0, turn |-> Foreign, body |-> "ok"]

\* An elicitation of AgentMosaic's own MCP bridge, one of another MCP server,
\* and a call of a client-side tool.
Asks == {"own", "other", "tool"}

Line == [kind : {"reply", "ask", "note", "done", "junk"}, id : Nat,
         turn : Turns \union {Foreign}, body : Status \union Asks \union {"ok", "error"}]

TransportTypeOK ==
  /\ child \in {"none", "up", "gone"}
  /\ reader \in {"none", "reading", "done"}
  /\ pipe \in Seq(Line) /\ channel \in Seq(Line) /\ pending \in Seq(Line)
  /\ Len(channel) <= Capacity /\ Len(pending) <= Capacity
  /\ overflowed \in BOOLEAN /\ nextId \in Nat
  /\ inbox \in Seq([id : Nat, method : Methods \union {"answer"},
                    turn : Turns \union {Foreign}])
  /\ owed \in [id : Nat, method : Methods \union {"none"}, turn : Turns \union {Foreign}]
  /\ turns \in Seq(Status) /\ Len(turns) <= MaxTurns
  /\ open \subseteq AskIds /\ lines \in 0 .. MaxLines

TransportInit ==
  /\ child = "none" /\ reader = "none"
  /\ pipe = <<>> /\ channel = <<>> /\ pending = <<>>
  /\ overflowed = FALSE /\ nextId = 1
  /\ inbox = <<>> /\ owed = Nothing /\ turns = <<>> /\ open = {} /\ lines = 0

-----------------------------------------------------------------------------
(* The client's side of the pipes.                                         *)

\* A write fails only once the server is gone and its end of the pipe closed.
Writable == child = "up"

\* `recv_timeout` finds nothing: its deadline can expire, or, once the reader
\* has dropped its sender, the channel is disconnected.
Silent == channel = <<>>

\* A line is the answer to the request when its id is; whether it has a method
\* of its own is not looked at first.
Correlates(line, call) == line.kind \in {"reply", "ask"} /\ line.id = call.id

\* The line taken from the channel is kept for `next_event`, the oldest one
\* making room for it.
Keep(line) ==
  /\ pending' = Append(IF Len(pending) >= Capacity THEN Tail(pending) ELSE pending, line)
  /\ overflowed' = (overflowed \/ Len(pending) >= Capacity)

\* `next_event` takes the kept lines first.
HasEvent == pending # <<>> \/ channel # <<>>
Event == IF pending # <<>> THEN Head(pending) ELSE Head(channel)
TakeEvent ==
  IF pending # <<>> THEN pending' = Tail(pending) /\ UNCHANGED channel
                    ELSE channel' = Tail(channel) /\ UNCHANGED pending

\* `terminate` kills the process group and then joins the reader thread.
Kill == child' = "gone"

\* Mutant of ReaderJoined: `terminate` does not wait for the reader.
ReaderDetached == reader # "none"

ReaderJoined == reader = "done"

-----------------------------------------------------------------------------
(* The reader thread.                                                      *)

\* `send` blocks while the channel is full: the receiver outlives the reader,
\* because the client that owns it is the one that joins it.
ForwardLine ==
  /\ reader = "reading" /\ pipe # <<>> /\ Len(channel) < Capacity
  /\ channel' = Append(channel, Head(pipe))
  /\ pipe' = Tail(pipe)
  /\ UNCHANGED <<child, reader, pending, overflowed, nextId, server>>

\* End of file: the process is gone and what it wrote has been read.
ReaderEnds ==
  /\ reader = "reading" /\ child = "gone" /\ pipe = <<>>
  /\ reader' = "done"
  /\ UNCHANGED <<child, pipe, channel, pending, overflowed, nextId, server>>

Reader == ForwardLine \/ ReaderEnds

-----------------------------------------------------------------------------
(* External: the app-server.                                               *)

SaysOf(line) == pipe' = Append(pipe, line)

\* It reads its next line: an answer settles one of its requests; a request is
\* taken up, and `turn/start` starts the turn at once.
ServerReads ==
  /\ child = "up" /\ inbox # <<>> /\ owed = Nothing
  /\ inbox' = Tail(inbox)
  /\ \/ /\ Head(inbox).method = "answer"
        /\ open' = open \ {Head(inbox).id}
        /\ UNCHANGED <<owed, turns>>
     \/ /\ Head(inbox).method = "turn/start"
        /\ turns' = Append(turns, "active")
        /\ owed' = [Head(inbox) EXCEPT !.turn = Len(turns) + 1]
        /\ UNCHANGED open
     \/ /\ Head(inbox).method \in Methods \ {"turn/start"}
        /\ owed' = Head(inbox)
        /\ UNCHANGED <<turns, open>>
  /\ UNCHANGED <<transport, lines>>

\* It answers the request, or refuses it.  The snapshot a `thread/read`
\* returns shows the status of the turn the client is after.
ServerReplies ==
  /\ child = "up" /\ owed # Nothing
  /\ \E body \in {"ok", "error"} :
       SaysOf(Reply(owed.id, owed.turn,
                    IF owed.method = "thread/read" /\ body = "ok" /\ owed.turn # Foreign
                      THEN turns[owed.turn] ELSE body))
  /\ owed' = Nothing
  /\ UNCHANGED <<child, reader, channel, pending, overflowed, nextId, inbox, turns, open, lines>>

\* A turn ends, perhaps before the reply to the `turn/start` that began it,
\* but not while it waits for an answer.
ServerCompletes ==
  /\ child = "up" /\ open = {}
  /\ \E t \in DOMAIN turns, status \in {"answered", "failed"} :
       /\ turns[t] = "active"
       /\ turns' = [turns EXCEPT ![t] = status]
       /\ SaysOf(Completed(t))
  /\ UNCHANGED <<child, reader, channel, pending, overflowed, nextId, inbox, owed, open, lines>>

\* It says what nobody asked for: a notification, the end of a turn of another
\* thread, a reply to nothing, a line that is no JSON, or, in the middle of a
\* turn, a request.
ServerSays ==
  /\ child = "up" /\ lines < MaxLines
  /\ lines' = lines + 1
  /\ \/ /\ \E line \in {Note, Completed(Foreign), Stray, Malformed} : SaysOf(line)
        /\ UNCHANGED open
     \/ \E id \in AskIds \ open, what \in Asks :
          /\ \E t \in DOMAIN turns : turns[t] = "active"
          /\ SaysOf(Ask(id, what))
          /\ open' = open \union {id}
  /\ UNCHANGED <<child, reader, channel, pending, overflowed, nextId, inbox, owed, turns>>

\* It exits by itself.
ServerExits ==
  /\ child = "up"
  /\ Kill
  /\ UNCHANGED <<pipe, reader, channel, pending, overflowed, nextId, server>>

Server == ServerReads \/ ServerReplies \/ ServerCompletes \/ ServerSays \/ ServerExits
=============================================================================
