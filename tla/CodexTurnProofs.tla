-------------------------- MODULE CodexTurnProofs --------------------------
(***************************************************************************)
(* Proofs about CodexTurn and CodexAppServer, for a channel of any         *)
(* capacity, whatever the app-server says and asks, and for any number of  *)
(* turns and rounds.                                                       *)
(***************************************************************************)
EXTENDS CodexTurn, SequenceTheorems, WellFoundedInduction, TLAPS

-----------------------------------------------------------------------------
(* The inductive invariant.                                                *)

\* The lines on their way to the client, and the phases of a client that goes
\* on with its conversation.
Mail == Range(pending) \union Range(channel) \union Range(pipe)
Live == {"idle"} \union Waiting
UnderWay == {"none", "starting", "running"}

\* Processes: which the client has in each phase.  The driver's binding: what
\* the board holds while the task is under way, and how it ends.
Lived ==
  /\ child = "none" <=> reader = "none"
  /\ child = "none" => turns = <<>> /\ open = {}
  /\ phase \in {"calling", "pumping", "failed"} => child # "none"
  /\ phase \in {"expiring", "closing"} => child = "gone"
  /\ kind = "team" => /\ phase # "failed"
                      /\ phase = "idle" => child = "none" /\ binding = "none"
                      /\ phase \in Waiting \union {"expiring"} => binding \in UnderWay
                      /\ phase = "pumping" \/ call.method = "thread/read" => binding = "running"
  /\ phase = "calling" => call.method \in Methods /\ call.id > 0
  /\ NothingOutlivesClose
  /\ BindingTellsTheOutcome

\* Requests carry the numbers given out so far, and a snapshot is asked for of
\* a turn there is.
ReadsTurn(request) ==
  request.method = "thread/read" /\ request.turn # Foreign => request.turn \in DOMAIN turns
Numbered ==
  /\ ReadsTurn(owed) /\ \A i \in DOMAIN inbox : ReadsTurn(inbox[i])
  /\ nextId > 0 /\ owed.id < nextId /\ (phase = "calling" => call.id < nextId)
  /\ \A i \in DOMAIN inbox : inbox[i].method # "answer" => inbox[i].id < nextId
  /\ \A line \in Mail : line.kind = "reply" => line.id < nextId

\* The request the client waits on, wherever it is, and what its reply may be.
Asked ==
  phase = "calling" =>
    /\ \A i \in DOMAIN inbox :
         inbox[i].method # "answer" /\ inbox[i].id = call.id => inbox[i] = call
    /\ owed.id = call.id =>
         /\ owed.method = call.method
         /\ call.method = "thread/read" => owed.turn = call.turn
    /\ call.method \in {"initialize", "thread/start"} => turns = <<>>
    /\ call.method = "thread/read" /\ call.turn # Foreign =>
         /\ call.turn \in DOMAIN turns /\ turns[call.turn] # "active"
         /\ \A line \in Mail :
              line.kind = "reply" /\ line.id = call.id =>
                line.body \in {turns[call.turn], "error"}

\* Turns: one at most is about to start, and the one that was started last is
\* the one the reply names and the client pumps.
Starts == {i \in DOMAIN inbox : inbox[i].method = "turn/start"}
Begins(n) == Starts = {} /\ n = Len(turns) /\ turn < n
Begun ==
  /\ \A i, j \in Starts : i = j
  /\ Starts # {} => Len(turns) < MaxTurns
  /\ phase \in {"idle", "pumping"} => Starts = {}
  /\ phase = "calling" /\ call.method # "turn/start" => Starts = {}
  /\ turn \in 0 .. Len(turns)
  /\ phase = "pumping" => turn = Len(turns) /\ turn # Foreign
  /\ phase = "calling" /\ call.method = "turn/start" =>
       /\ owed.id = call.id => Begins(owed.turn)
       /\ \A line \in Mail : line.kind = "reply" /\ line.id = call.id => Begins(line.turn)
  /\ kind = "lead" /\ call.method = "thread/read" => call.turn = turn /\ turn # Foreign

\* Lines: a completion tells the truth, and the ones the pump is yet to see,
\* and the requests it is yet to answer, are on their way.
Truthful ==
  \A line \in Mail :
    line.kind = "done" /\ line.turn # Foreign =>
      line.turn \in DOMAIN turns /\ turns[line.turn] # "active"
Ahead(t) == turn < t \/ (phase = "pumping" /\ t = turn)
Kept ==
  phase \in Live /\ ~overflowed =>
    /\ \A t \in DOMAIN turns : turns[t] # "active" /\ Ahead(t) => Completed(t) \in Mail
    /\ kind = "lead" =>
         \A id \in open :
           \/ \E what \in Asks : Ask(id, what) \in Mail
           \/ Answer(id) \in Range(inbox)

IInv == TypeOK /\ Lived /\ Numbered /\ Asked /\ Begun /\ Truthful /\ Kept /\ LeadReadsItsOwnTurn

-----------------------------------------------------------------------------
(* Sequences and lines.                                                    *)

\* A queue that is added to at its end,
LEMMA Appended ==
  ASSUME NEW S, NEW q \in Seq(S), NEW x \in S
  PROVE  /\ Append(q, x) \in Seq(S)
         /\ Len(Append(q, x)) = Len(q) + 1 /\ Len(q) \in Nat
         /\ DOMAIN Append(q, x) = 1 .. Len(q) + 1 /\ DOMAIN q = 1 .. Len(q)
         /\ \A i \in DOMAIN Append(q, x) : Append(q, x)[i] = IF i = Len(q) + 1 THEN x ELSE q[i]
         /\ Range(Append(q, x)) = Range(q) \union {x}
<1>1. /\ Append(q, x) \in Seq(S)
      /\ Len(Append(q, x)) = Len(q) + 1 /\ Len(q) \in Nat
      /\ DOMAIN Append(q, x) = 1 .. Len(q) + 1 /\ DOMAIN q = 1 .. Len(q)
      /\ \A i \in DOMAIN Append(q, x) : Append(q, x)[i] = IF i = Len(q) + 1 THEN x ELSE q[i]
  OBVIOUS
<1>2. Range(Append(q, x)) = Range(q) \union {x}
  <2> DEFINE r == Append(q, x)
  <2>1. \A i \in DOMAIN q : i \in DOMAIN r /\ r[i] = q[i]
    BY <1>1
  <2>2. Len(q) + 1 \in DOMAIN r /\ r[Len(q) + 1] = x
    BY <1>1
  <2>3. \A i \in DOMAIN r : i = Len(q) + 1 \/ i \in DOMAIN q
    BY <1>1
  <2> HIDE DEF r
  <2>. QED
    BY <2>1, <2>2, <2>3 DEF Range
<1>. QED
  BY <1>1, <1>2

\* ... and one that is taken from at its head.
LEMMA Taken ==
  ASSUME NEW S, NEW q \in Seq(S), q # <<>>
  PROVE  /\ Head(q) \in S /\ Tail(q) \in Seq(S) /\ Head(q) = q[1]
         /\ Len(Tail(q)) = Len(q) - 1 /\ Len(q) \in Nat /\ Len(q) > 0
         /\ DOMAIN Tail(q) = 1 .. Len(q) - 1 /\ DOMAIN q = 1 .. Len(q)
         /\ \A i \in 1 .. Len(q) - 1 : Tail(q)[i] = q[i + 1]
         /\ Range(q) = Range(Tail(q)) \union {Head(q)}
<1>1. /\ Head(q) \in S /\ Tail(q) \in Seq(S) /\ Head(q) = q[1]
      /\ Len(Tail(q)) = Len(q) - 1 /\ Len(q) \in Nat /\ Len(q) > 0
      /\ DOMAIN Tail(q) = 1 .. Len(q) - 1 /\ DOMAIN q = 1 .. Len(q)
      /\ \A i \in 1 .. Len(q) - 1 : Tail(q)[i] = q[i + 1]
  OBVIOUS
<1>2. Range(q) = Range(Tail(q)) \union {Head(q)}
  <2>1. \A i \in DOMAIN q : q[i] \in Range(Tail(q)) \union {Head(q)}
    <3> TAKE i \in DOMAIN q
    <3>1. CASE i = 1
      BY <3>1, <1>1
    <3>2. CASE i # 1
      <4>1. i - 1 \in DOMAIN Tail(q) /\ Tail(q)[i - 1] = q[i]
        BY <3>2, <1>1
      <4>. QED
        BY <4>1 DEF Range
    <3>. QED
      BY <3>1, <3>2
  <2>2. \A i \in DOMAIN Tail(q) : i + 1 \in DOMAIN q /\ Tail(q)[i] = q[i + 1]
    BY <1>1
  <2>3. 1 \in DOMAIN q
    BY <1>1
  <2>4. Range(q) \subseteq Range(Tail(q)) \union {Head(q)}
    BY <2>1 DEF Range
  <2>5. Range(Tail(q)) \subseteq Range(q)
    BY <2>2 DEF Range
  <2>6. Head(q) \in Range(q)
    BY <2>3, <1>1 DEF Range
  <2>. QED
    BY <2>4, <2>5, <2>6
<1>. QED
  BY <1>1, <1>2

\* Of naturals with a bound, one is the greatest.
LEMMA GreatestBelow ==
  ASSUME NEW n \in Nat, NEW S \in SUBSET (0 .. n), S # {}
  PROVE  \E k \in S : \A j \in S : j <= k
<1> DEFINE R == OpToRel(<, Nat)
           gaps == {n - i : i \in S}
<1>1. gaps \in SUBSET Nat /\ gaps # {}
  <2>1. \A i \in S : i \in 0 .. n
    OBVIOUS
  <2>2. \A i \in 0 .. n : n - i \in Nat
    OBVIOUS
  <2>. QED
    BY <2>1, <2>2
<1>2. PICK g \in gaps : \A h \in gaps : ~ (<<h, g>> \in R)
  <2> HIDE DEF gaps, R
  <2>1. IsWellFoundedOn(R, Nat)
    BY NatLessThanWellFounded DEF R
  <2>. QED
    BY <1>1, <2>1, WFMin
<1>3. PICK k \in S : g = n - k
  OBVIOUS
<1>4. ASSUME NEW j \in S PROVE j <= k
  <2>1. ~ (n - j < n - k)
    BY <1>1, <1>2, <1>3 DEF OpToRel
  <2>. QED
    BY <2>1
<1>. QED
  BY <1>4

\* What the pipes hold when they are well typed.
ReadTyped ==
  /\ pipe \in Seq(Line) /\ channel \in Seq(Line) /\ pending \in Seq(Line)
  /\ Len(channel) <= Capacity /\ Len(pending) <= Capacity
  /\ overflowed \in BOOLEAN

\* The lines that a step of the client loses are none the pump needs.
Spared ==
  /\ Mail' \subseteq Mail
  /\ \A line \in Mail :
       line \in Mail' \/ line.kind = "reply" \/ (line.kind = "done" /\ line.turn <= turn)

\* The lines on their way are lines.
LEMMA MailType ==
  ASSUME ReadTyped
  PROVE  Mail \subseteq Line
BY RangeOfSeq DEF ReadTyped, Mail

-----------------------------------------------------------------------------
(* Steps of the client, by how they go on.                                 *)

\* The client gives up, with the row of its binding as the board holds it.
LEMMA GiveUpWithKeeps ==
  ASSUME IInv, NEW row, GiveUpWith(row), kind = "team" => row \in UnderWay,
         UNCHANGED <<nextId, reader, server>>, ReadTyped', Mail' \subseteq Mail,
         phase \in Waiting \union {"expiring"} \/ (phase = "idle" /\ child # "none")
  PROVE  IInv'
<1> USE DEF IInv, server
<1>0. /\ phase' \in {"failed", "closing"} /\ call' = Nothing /\ outcome' = "err"
      /\ UNCHANGED <<kind, turn, events, corrected, rounds, reply, message>>
      /\ IF kind = "team"
           THEN /\ phase' = "closing" /\ child' = "gone"
                /\ \/ binding' \in {"none", "failed"} /\ unmarked' = FALSE
                   \/ binding' \in UnderWay /\ unmarked' = TRUE
           ELSE /\ (phase' = "closing" /\ child' = "gone") \/ (phase' = "failed" /\ child' = child)
                /\ UNCHANGED <<binding, unmarked>>
  BY DEF GiveUpWith, Mark, Kill
<1>1. TypeOK'
  <2>1. /\ binding' \in {"none", "starting", "running", "completed", "failed"}
        /\ unmarked' \in BOOLEAN /\ phase' \in Phases /\ child' \in {"none", "up", "gone"}
    BY <1>0 DEF TypeOK, TransportTypeOK, Phases, UnderWay
  <2>2. TransportTypeOK'
    BY <1>0, <2>1 DEF TypeOK, TransportTypeOK, ReadTyped, GiveUpWith, Kill
  <2>. QED
    BY <1>0, <2>1, <2>2 DEF TypeOK, Nothing, Request, Foreign
<1>2. Lived'
  BY <1>0 DEF Lived, TypeOK, TransportTypeOK, Waiting, UnderWay, Nothing, Request,
              NothingOutlivesClose, BindingTellsTheOutcome
<1>3. phase' \in {"failed", "closing"} /\ call' = Nothing /\ call'.method = "none"
  BY <1>0 DEF Nothing, Request
<1>4. Numbered'
  BY <1>3 DEF Numbered, ReadsTurn
<1>5. Asked'
  BY <1>3 DEF Asked
<1>6. Begun'
  <2>1. Starts' = Starts /\ turn' = turn /\ kind' = kind
    BY <1>0 DEF Starts
  <2>. QED
    BY <2>1, <1>3 DEF Begun
<1>7. Truthful'
  BY DEF Truthful
<1>8. Kept'
  BY <1>3 DEF Kept, Live, Waiting
<1>9. LeadReadsItsOwnTurn'
  BY <1>3 DEF LeadReadsItsOwnTurn
<1>. QED
  BY <1>1, <1>2, <1>4, <1>5, <1>6, <1>7, <1>8, <1>9

\* ... which is the row it wrote last.
LEMMA GiveUpKeeps ==
  ASSUME IInv, GiveUp, UNCHANGED <<nextId, reader, server>>,
         ReadTyped', Mail' \subseteq Mail,
         phase \in Waiting \union {"expiring"} \/ (phase = "idle" /\ child # "none")
  PROVE  IInv'
<1>1. kind = "team" => binding \in UnderWay
  BY DEF IInv, Lived
<1>2. GiveUpWith(binding)
  BY DEF GiveUp
<1>. QED
  BY <1>1, <1>2, GiveUpWithKeeps

\* It sends a request, and waits for the reply.
LEMMA SendKeeps ==
  ASSUME IInv, NEW method \in Methods, NEW about \in Turns \union {Foreign}, Send(method, about),
         UNCHANGED <<kind, turn, reply, message, unmarked, reader, overflowed, owed, turns, open, lines>>,
         ReadTyped', Spared,
         corrected' \in BOOLEAN, events' \in 0 .. MaxEvents, rounds' \in 0 .. MaxRounds,
         outcome' \in {"none", "ok", "err"}, binding' \in {"none", "starting", "running", "completed", "failed"},
         kind = "team" => binding' \in UnderWay /\ (method = "thread/read" => binding' = "running"),
         phase \in Live, Starts = {},
         method = "turn/start" => Len(turns) < MaxTurns,
         method \in {"initialize", "thread/start"} => turns = <<>>,
         method = "thread/read" /\ about # Foreign => about \in DOMAIN turns /\ turns[about] # "active",
         method = "thread/read" /\ kind = "lead" => about = turn /\ turn # Foreign
  PROVE  IInv'
<1> USE DEF IInv
<1> DEFINE Post == [id : Nat, method : Methods \union {"answer"}, turn : Turns \union {Foreign}]
<1>1. /\ call' = Request(nextId, method, about) /\ phase' = "calling"
      /\ nextId' = nextId + 1 /\ nextId \in Nat /\ inbox \in Seq(Post)
      /\ call'.id = nextId /\ call'.method = method /\ call'.turn = about
      /\ call' \in Post /\ child' = child /\ child = "up"
  BY DEF Send, TypeOK, TransportTypeOK, Request, Writable
<1>2. inbox' = Append(inbox, call')
  BY DEF Send
<1>3. /\ inbox' \in Seq(Post) /\ Len(inbox) \in Nat
      /\ DOMAIN inbox' = 1 .. Len(inbox) + 1 /\ DOMAIN inbox = 1 .. Len(inbox)
      /\ \A i \in DOMAIN inbox' : inbox'[i] = IF i = Len(inbox) + 1 THEN call' ELSE inbox[i]
      /\ Range(inbox') = Range(inbox) \union {call'}
  <2> HIDE DEF Post
  <2>. QED
    BY <1>1, <1>2, Appended
<1> HIDE DEF Post
<1>4. TypeOK'
  <2>1. call' \in [id : Nat, method : Methods \union {"none"}, turn : Turns \union {Foreign}]
    BY <1>1 DEF Request
  <2>. QED
    <3>1. TransportTypeOK'
      <4>1. inbox' \in Seq([id : Nat, method : Methods \union {"answer"}, turn : Turns \union {Foreign}])
        BY <1>3 DEF Post
      <4>2. child' \in {"none", "up", "gone"} /\ nextId' \in Nat
        BY <1>1
      <4>. QED
        BY <4>1, <4>2, <1>1 DEF TypeOK, TransportTypeOK, ReadTyped
    <3>. QED
      BY <1>1, <2>1, <3>1 DEF TypeOK, Phases, Waiting
<1>5. Lived'
  BY <1>1 DEF Lived, Numbered, NothingOutlivesClose, BindingTellsTheOutcome, Live, Waiting
<1>6. Numbered'
  <2>1. \A i \in DOMAIN inbox' : inbox'[i].method # "answer" => inbox'[i].id < nextId'
    <3> TAKE i \in DOMAIN inbox'
    <3>1. CASE i = Len(inbox) + 1
      BY <3>1, <1>1, <1>3
    <3>2. CASE i # Len(inbox) + 1
      <4>1. i \in DOMAIN inbox /\ inbox'[i] = inbox[i]
        BY <3>2, <1>3
      <4>2. inbox[i] \in Post
        <5>1. i \in 1 .. Len(inbox)
          BY <4>1, <1>3
        <5>. QED
          BY <5>1, <1>1, ElementOfSeq
      <4>3. inbox[i].id \in Nat /\ (inbox[i].method # "answer" => inbox[i].id < nextId)
        BY <4>1, <4>2 DEF Numbered, Post
      <4>. QED
        BY <4>1, <4>3, <1>1
    <3>. QED
      BY <3>1, <3>2
  <2>2. \A line \in Mail' : line.kind = "reply" => line.id < nextId'
    <3>1. \A line \in Mail : line.id \in Nat
      BY MailType DEF TypeOK, TransportTypeOK, ReadTyped, Line
    <3>. QED
      BY <1>1, <3>1 DEF Numbered, Spared
  <2>3. nextId' > 0 /\ owed'.id < nextId' /\ call'.id < nextId'
    <3>1. nextId \in Nat /\ owed.id \in Nat
      BY DEF TypeOK, TransportTypeOK
    <3>. QED
      BY <1>1, <3>1 DEF Numbered
  <2>4. (\A i \in DOMAIN inbox : ReadsTurn(inbox[i]))'
    BY <1>1, <1>3 DEF Numbered, ReadsTurn
  <2>5. ReadsTurn(owed)'
    BY DEF Numbered, ReadsTurn
  <2>. QED
    BY <2>1, <2>2, <2>3, <2>4, <2>5 DEF Numbered
<1>7. Asked'
  <2>1. \A i \in DOMAIN inbox' :
          inbox'[i].method # "answer" /\ inbox'[i].id = call'.id => inbox'[i] = call'
    BY <1>1, <1>3 DEF Numbered
  <2>2. owed'.id # call'.id
    BY <1>1 DEF Numbered, TypeOK, TransportTypeOK
  <2>3. \A line \in Mail' : line.kind = "reply" => line.id # call'.id
    BY <1>1 DEF Numbered, Spared
  <2>. QED
    BY <1>1, <2>1, <2>2, <2>3 DEF Asked
<1>8. Begun'
  <2>1. /\ \A i \in Starts' : i = Len(inbox) + 1
        /\ method # "turn/start" => Starts' = {}
    <3>1. \A i \in DOMAIN inbox : inbox[i].method # "turn/start"
      BY DEF Starts
    <3>2. \A i \in DOMAIN inbox' :
            IF i = Len(inbox) + 1 THEN inbox'[i].method = method
                                  ELSE inbox'[i].method # "turn/start"
      BY <1>1, <1>3, <3>1
    <3>. QED
      BY <3>2 DEF Starts
  <2>2. owed'.id # call'.id
    BY <1>1 DEF Numbered, TypeOK, TransportTypeOK
  <2>3. \A line \in Mail' : line.kind = "reply" => line.id # call'.id
    BY <1>1 DEF Numbered, Spared
  <2>. QED
    BY <1>1, <2>1, <2>2, <2>3 DEF Begun
<1>9. Truthful'
  BY DEF Truthful, Spared
<1>10. Kept'
  <2> SUFFICES ASSUME ~overflowed
               PROVE  /\ \A t \in DOMAIN turns : turns[t] # "active" /\ turn < t => Completed(t) \in Mail'
                      /\ kind = "lead" =>
                           \A id \in open :
                             \/ \E what \in Asks : Ask(id, what) \in Mail'
                             \/ Answer(id) \in Range(inbox')
    BY <1>1 DEF Kept, Ahead
  <2>1. /\ \A t \in DOMAIN turns : turns[t] # "active" /\ turn < t => Completed(t) \in Mail
        /\ kind = "lead" =>
             \A id \in open :
               \/ \E what \in Asks : Ask(id, what) \in Mail
               \/ Answer(id) \in Range(inbox)
    BY DEF Kept, Ahead
  <2>2. ASSUME NEW t \in DOMAIN turns, turns[t] # "active", turn < t PROVE Completed(t) \in Mail'
    <3>1. /\ Completed(t).kind = "done" /\ Completed(t).turn = t
          /\ t \in Nat /\ turn \in Nat
      BY DEF Completed, TypeOK, TransportTypeOK, Turns, Foreign
    <3>. QED
      BY <2>1, <2>2, <3>1 DEF Spared
  <2>3. ASSUME NEW id \in open, NEW what \in Asks, Ask(id, what) \in Mail PROVE Ask(id, what) \in Mail'
    <3>1. Ask(id, what).kind = "ask"
      BY DEF Ask
    <3>. QED
      BY <2>3, <3>1 DEF Spared
  <2>. QED
    BY <2>1, <2>2, <2>3, <1>3
<1>11. LeadReadsItsOwnTurn'
  BY <1>1 DEF LeadReadsItsOwnTurn
<1>. QED
  BY <1>4, <1>5, <1>6, <1>7, <1>8, <1>9, <1>10, <1>11

\* The turn it asked for has begun, and it pumps the events of that one.
LEMMA TurnStartedKeeps ==
  ASSUME IInv, NEW line \in Mail, phase = "calling", call.method = "turn/start",
         line.kind = "reply", line.id = call.id, turn' = line.turn,
         binding' = IF kind = "team" THEN "running" ELSE "none",
         events' = MaxEvents, phase' = "pumping", call' = Nothing,
         UNCHANGED <<kind, corrected, rounds, reply, message, outcome, unmarked, child, nextId,
                     reader, server, overflowed>>,
         ReadTyped', Spared
  PROVE  IInv'
<1> USE DEF IInv, server
<1>1. Begins(line.turn)
  BY DEF Begun
<1>2. turn' = Len(turns) /\ turn < turn' /\ Starts = {} /\ turn \in Nat /\ turn' \in Turns
  BY <1>1 DEF Begins, TypeOK, TransportTypeOK, Turns, Foreign
<1>3. TypeOK'
  BY <1>2, EventsAssumption
     DEF TypeOK, TransportTypeOK, ReadTyped, Nothing, Request, Foreign, Phases, Waiting
<1>4. Lived'
  BY DEF Lived, UnderWay, NothingOutlivesClose, BindingTellsTheOutcome
<1>5. Numbered'
  BY DEF Numbered, ReadsTurn, Spared
<1>6. Asked'
  BY DEF Asked
<1>7. Begun'
  <2>1. Starts' = {} /\ call'.method = "none"
    BY <1>2 DEF Starts, Nothing, Request
  <2>. QED
    BY <1>2, <2>1 DEF Begun, Foreign, Turns
<1>8. Truthful'
  BY DEF Truthful, Spared
<1>9. Kept'
  <2> SUFFICES ASSUME ~overflowed
               PROVE  /\ \A t \in DOMAIN turns : turns[t] # "active" /\ turn < t => Completed(t) \in Mail'
                      /\ kind = "lead" =>
                           \A id \in open :
                             \/ \E what \in Asks : Ask(id, what) \in Mail'
                             \/ Answer(id) \in Range(inbox)
    BY <1>2 DEF Kept, Ahead, TypeOK, TransportTypeOK
  <2>1. /\ \A t \in DOMAIN turns : turns[t] # "active" /\ turn < t => Completed(t) \in Mail
        /\ kind = "lead" =>
             \A id \in open :
               \/ \E what \in Asks : Ask(id, what) \in Mail
               \/ Answer(id) \in Range(inbox)
    BY DEF Kept, Ahead, Live, Waiting
  <2>2. ASSUME NEW t \in DOMAIN turns, turns[t] # "active", turn < t PROVE Completed(t) \in Mail'
    <3>1. /\ Completed(t).kind = "done" /\ Completed(t).turn = t
          /\ t \in Nat /\ turn \in Nat
      BY DEF Completed, TypeOK, TransportTypeOK, Turns, Foreign
    <3>. QED
      BY <2>1, <2>2, <3>1 DEF Spared
  <2>3. ASSUME NEW id \in open, NEW what \in Asks, Ask(id, what) \in Mail PROVE Ask(id, what) \in Mail'
    <3>1. Ask(id, what).kind = "ask"
      BY DEF Ask
    <3>. QED
      BY <2>3, <3>1 DEF Spared
  <2>. QED
    BY <2>1, <2>2, <2>3
<1>10. LeadReadsItsOwnTurn'
  BY DEF LeadReadsItsOwnTurn, Nothing, Request
<1>. QED
  BY <1>3, <1>4, <1>5, <1>6, <1>7, <1>8, <1>9, <1>10

\* What SelectFinalAgentMessage selects, when it selects one.
LEMMA SelectsFinalMessage ==
  ASSUME NEW items \in Snapshots, SelectFinalAgentMessage(items) # 0
  PROVE  LET at == SelectFinalAgentMessage(items) IN
           /\ at \in DOMAIN items /\ at \in Nat
           /\ \/ items[at].phase = "final"
              \/ /\ items[at].phase = "visible"
                 /\ \A i \in DOMAIN items : items[i].phase # "final"
<1> DEFINE visible == {i \in DOMAIN items : items[i].phase # "async"}
           finals == {i \in visible : items[i].phase = "final"}
           S == (IF finals = {} THEN visible ELSE finals) \union {0}
           at == SelectFinalAgentMessage(items)
<1>1. at = Max(S)
  BY DEF SelectFinalAgentMessage
<1>2. /\ Len(items) \in Nat /\ DOMAIN items = 1 .. Len(items)
      /\ \A i \in DOMAIN items : items[i].phase \in {"final", "visible", "async"}
  BY SnapshotsAssumption
<1>3. \E k \in S : \A j \in S : j <= k
  <2>1. S \subseteq 0 .. Len(items) /\ 0 \in S
    BY <1>2
  <2> HIDE DEF S
  <2>. QED
    BY <2>1, <1>2, GreatestBelow
<1>4. at \in S
  <2> HIDE DEF S
  <2>1. \E k \in S : \A j \in S : k >= j
    BY <1>3
  <2>. QED
    BY <1>1, <2>1 DEF Max
<1>. QED
  BY <1>2, <1>4

\* What the Lead takes for a decision is one.
LEMMA ParsedIsDecision ==
  ASSUME NEW d, ParseReply(d), d.action = "follow_up" => DOMAIN d.tasks = {1}
  PROVE  IsDecision(d)
<1>1. d.action \in {"delegate", "follow_up", "complete"}
  BY DEF ParseReply
<1>2. CASE d.action = "delegate"
  <2>1. d.tasks # <<>>
    BY <1>2 DEF ParseReply
  <2>2. \A j \in DOMAIN d.tasks : TaskSpec(d.tasks[j])
    BY <1>2 DEF ParseReply
  <2>. QED
    BY <1>2, <2>1, <2>2 DEF IsDecision, TaskSpec
<1>3. CASE d.action = "follow_up"
  <2>1. TaskSpec(d.tasks[1])
    BY <1>3 DEF ParseReply
  <2>2. d.tasks # <<>>
    <3>1. DOMAIN << >> = {}
      OBVIOUS
    <3>. QED
      BY <1>3, <3>1
  <2>. QED
    BY <1>3, <2>1, <2>2 DEF IsDecision, TaskSpec
<1>4. CASE d.action = "complete"
  <2>1. TeamResult(d)
    BY <1>4 DEF ParseReply
  <2>2. d.selected # <<>>
    BY <2>1 DEF TeamResult
  <2>3. {d.artifacts[j].task : j \in DOMAIN d.artifacts} \subseteq Range(d.selected)
    BY <2>1 DEF TeamResult, SelectedArtifact
  <2>. QED
    BY <1>4, <2>2, <2>3 DEF IsDecision
<1>. QED
  BY <1>1, <1>2, <1>3, <1>4

\* The round, or the task, ends well.
LEMMA SucceedKeeps ==
  ASSUME IInv, NEW items \in Snapshots, Succeed(items), SelectFinalAgentMessage(items) # 0,
         kind = "team" \/ ParseReply(items[SelectFinalAgentMessage(items)].says),
         phase = "calling", call.method = "thread/read",
         kind = "lead" => turns[call.turn] = "answered",
         UNCHANGED <<reader, owed, turns, open, lines, overflowed>>, ReadTyped', Spared
  PROVE  IInv'
<1> USE DEF IInv
<1> DEFINE at == SelectFinalAgentMessage(items)
<1>1. /\ call' = Nothing /\ reply' = call.turn
      /\ message' = [items |-> items, at |-> at]
      /\ UNCHANGED <<kind, turn, events, corrected, rounds, nextId, inbox>>
      /\ IF kind = "team"
           THEN /\ phase' = "closing" /\ child' = "gone"
                /\ \/ binding' = "completed" /\ unmarked' = FALSE /\ outcome' = "ok"
                   \/ binding' = "running" /\ unmarked' = TRUE /\ outcome' \in {"ok", "err"}
           ELSE outcome' = "ok" /\ phase' = "idle" /\ UNCHANGED <<binding, unmarked, child>>
  <2>1. kind = "team" => binding = "running"
    BY DEF Lived
  <2>. QED
    BY <2>1 DEF Succeed, Mark, Kill
<1>2. at \in DOMAIN items /\ at \in Nat
  BY SelectsFinalMessage
<1>3. Starts = {} /\ Starts' = {}
  BY <1>1 DEF Begun, Starts
<1>4. TypeOK'
  <2>1. TransportTypeOK'
    BY <1>1 DEF TypeOK, TransportTypeOK, ReadTyped
  <2>2. message' \in [items : Snapshots \union {<<>>}, at : Nat]
    BY <1>1, <1>2
  <2>. QED
    BY <1>1, <2>1, <2>2 DEF TypeOK, Nothing, Request, Foreign, Phases, Waiting
<1>5. Lived'
  BY <1>1 DEF Lived, NothingOutlivesClose, BindingTellsTheOutcome, TypeOK, Waiting, Nothing, Request
<1>6. Numbered'
  BY <1>1 DEF Numbered, ReadsTurn, Spared
<1>7. Asked'
  BY <1>1 DEF Asked
<1>8. Begun'
  <2>1. call'.method = "none"
    BY <1>1 DEF Nothing, Request
  <2>. QED
    BY <1>1, <1>3, <2>1 DEF Begun
<1>9. Truthful'
  BY <1>1 DEF Truthful, Spared
<1>10. Kept'
  <2> SUFFICES ASSUME ~overflowed
               PROVE  /\ \A t \in DOMAIN turns : turns[t] # "active" /\ turn < t => Completed(t) \in Mail'
                      /\ kind = "lead" =>
                           \A id \in open :
                             \/ \E what \in Asks : Ask(id, what) \in Mail'
                             \/ Answer(id) \in Range(inbox)
    BY <1>1 DEF Kept, Ahead, TypeOK
  <2>1. /\ \A t \in DOMAIN turns : turns[t] # "active" /\ turn < t => Completed(t) \in Mail
        /\ kind = "lead" =>
             \A id \in open :
               \/ \E what \in Asks : Ask(id, what) \in Mail
               \/ Answer(id) \in Range(inbox)
    BY DEF Kept, Ahead, Live, Waiting
  <2>2. ASSUME NEW t \in DOMAIN turns, turns[t] # "active", turn < t PROVE Completed(t) \in Mail'
    <3>1. /\ Completed(t).kind = "done" /\ Completed(t).turn = t
          /\ t \in Nat /\ turn \in Nat
      BY DEF Completed, TypeOK, TransportTypeOK, Turns, Foreign
    <3>. QED
      BY <2>1, <2>2, <3>1 DEF Spared
  <2>3. ASSUME NEW id \in open, NEW what \in Asks, Ask(id, what) \in Mail PROVE Ask(id, what) \in Mail'
    <3>1. Ask(id, what).kind = "ask"
      BY DEF Ask
    <3>. QED
      BY <2>3, <3>1 DEF Spared
  <2>. QED
    BY <2>1, <2>2, <2>3
<1>11. LeadReadsItsOwnTurn'
  <2> SUFFICES ASSUME kind = "lead"
               PROVE  /\ reply' = turn' /\ turns'[turn'] = "answered"
                      /\ LET said == message'.items[message'.at] IN
                           /\ \/ said.phase = "final"
                              \/ /\ said.phase = "visible"
                                 /\ \A i \in DOMAIN message'.items : message'.items[i].phase # "final"
                           /\ IsDecision(said.says)
    <3>1. call'.method = "none"
      BY <1>1 DEF Nothing, Request
    <3>. QED
      BY <1>1, <3>1 DEF LeadReadsItsOwnTurn
  <2>1. call.turn = turn
    BY DEF Begun
  <2>2. IsDecision(items[at].says)
    BY <1>2, SnapshotsAssumption, ParsedIsDecision
  <2>3. message'.items = items /\ message'.at = at
    BY <1>1
  <2>. QED
    BY <1>1, <2>1, <2>2, <2>3, SelectsFinalMessage
<1>. QED
  BY <1>4, <1>5, <1>6, <1>7, <1>8, <1>9, <1>10, <1>11

\* It reads on, losing nothing the pump needs unless the kept lines overflow.
LEMMA ListenKeeps ==
  ASSUME IInv, UNCHANGED <<progress, child, reader, nextId, server>>,
         ReadTyped', Mail' \subseteq Mail, overflowed' \/ (~overflowed /\ Spared), phase = "calling"
  PROVE  IInv'
<1> USE DEF IInv, progress, server
<1>1. TypeOK'
  BY DEF TypeOK, TransportTypeOK, ReadTyped
<1>2. Lived'
  BY DEF Lived, NothingOutlivesClose, BindingTellsTheOutcome
<1>3. Numbered'
  BY DEF Numbered, ReadsTurn
<1>4. Asked'
  BY DEF Asked
<1>5. Begun'
  <2>1. Starts' = Starts
    BY DEF Starts
  <2>. QED
    BY <2>1 DEF Begun, Begins
<1>6. Truthful'
  BY DEF Truthful
<1>7. Kept'
  <2> SUFFICES ASSUME ~overflowed'
               PROVE  /\ \A t \in DOMAIN turns : turns[t] # "active" /\ turn < t => Completed(t) \in Mail'
                      /\ kind = "lead" =>
                           \A id \in open :
                             \/ \E what \in Asks : Ask(id, what) \in Mail'
                             \/ Answer(id) \in Range(inbox)
    BY DEF Kept, Ahead
  <2>1. /\ \A t \in DOMAIN turns : turns[t] # "active" /\ turn < t => Completed(t) \in Mail
        /\ kind = "lead" =>
             \A id \in open :
               \/ \E what \in Asks : Ask(id, what) \in Mail
               \/ Answer(id) \in Range(inbox)
    BY DEF Kept, Ahead, Live, Waiting
  <2>2. ASSUME NEW t \in DOMAIN turns, turns[t] # "active", turn < t PROVE Completed(t) \in Mail'
    <3>1. /\ Completed(t).kind = "done" /\ Completed(t).turn = t
          /\ t \in Nat /\ turn \in Nat
      BY DEF Completed, TypeOK, TransportTypeOK, Turns, Foreign
    <3>. QED
      BY <2>1, <2>2, <3>1 DEF Spared
  <2>3. ASSUME NEW id \in open, NEW what \in Asks, Ask(id, what) \in Mail PROVE Ask(id, what) \in Mail'
    <3>1. Ask(id, what).kind = "ask"
      BY DEF Ask
    <3>. QED
      BY <2>3, <3>1 DEF Spared
  <2>. QED
    BY <2>1, <2>2, <2>3
<1>8. LeadReadsItsOwnTurn'
  BY DEF LeadReadsItsOwnTurn
<1>. QED
  BY <1>1, <1>2, <1>3, <1>4, <1>5, <1>6, <1>7, <1>8

\* It takes an event and goes on pumping: one that asks for nothing, or a
\* request that it answers, or, the driver, leaves alone.
LEMMA PumpedKeeps ==
  ASSUME IInv, NEW line \in Mail, phase = "pumping", Pumped,
         UNCHANGED <<child, reader, nextId, owed, turns, open, lines, overflowed>>,
         ReadTyped', Mail' \subseteq Mail, Mail \subseteq Mail' \union {line},
         \/ /\ inbox' = inbox
            /\ \/ line.kind = "note"
               \/ line.kind = "done" /\ kind = "lead" /\ line.turn # turn
               \/ line.kind = "ask" /\ kind = "team"
         \/ line.kind = "ask" /\ inbox' = Append(inbox, Answer(line.id)),
         events > 0
  PROVE  IInv'
<1> USE DEF IInv
<1> DEFINE Post == [id : Nat, method : Methods \union {"answer"}, turn : Turns \union {Foreign}]
<1>1. /\ UNCHANGED <<kind, phase, call, turn, corrected, rounds, reply, message, outcome,
                     binding, unmarked>>
      /\ events' = events - 1
  BY DEF Pumped
<1>2. inbox \in Seq(Post) /\ line \in Line /\ events \in 0 .. MaxEvents
  BY MailType DEF TypeOK, TransportTypeOK, ReadTyped
<1>4. /\ inbox' \in Seq(Post) /\ Range(inbox) \subseteq Range(inbox')
      /\ \A i \in DOMAIN inbox' : inbox'[i].method # "answer" => i \in DOMAIN inbox /\ inbox'[i] = inbox[i]
      /\ \A i \in DOMAIN inbox : i \in DOMAIN inbox' /\ inbox'[i] = inbox[i]
      /\ inbox' = Append(inbox, Answer(line.id)) => Answer(line.id) \in Range(inbox')
  <2>1. CASE inbox' = inbox
    BY <2>1, <1>2
  <2>2. CASE inbox' = Append(inbox, Answer(line.id))
    <3>1. Answer(line.id) \in Post /\ Answer(line.id).method = "answer"
      BY <1>2 DEF Answer, Line
    <3> HIDE DEF Post
    <3>2. /\ inbox' \in Seq(Post) /\ Len(inbox) \in Nat
          /\ DOMAIN inbox' = 1 .. Len(inbox) + 1 /\ DOMAIN inbox = 1 .. Len(inbox)
          /\ \A i \in DOMAIN inbox' : inbox'[i] = IF i = Len(inbox) + 1 THEN Answer(line.id) ELSE inbox[i]
          /\ Range(inbox') = Range(inbox) \union {Answer(line.id)}
      BY <1>2, <2>2, <3>1, Appended
    <3>. QED
      BY <3>1, <3>2
  <2>. QED
    BY <2>1, <2>2
<1>5. Starts = {} /\ Starts' = {}
  BY <1>4 DEF Begun, Starts
<1>6. TypeOK'
  <2>1. TransportTypeOK'
    BY <1>4 DEF TypeOK, TransportTypeOK, ReadTyped
  <2>2. events' \in 0 .. MaxEvents
    BY <1>1, <1>2, EventsAssumption
  <2>. QED
    BY <1>1, <2>1, <2>2 DEF TypeOK
<1>7. Lived'
  BY <1>1 DEF Lived, NothingOutlivesClose, BindingTellsTheOutcome
<1>8. Numbered'
  BY <1>1, <1>4 DEF Numbered, ReadsTurn
<1>9. Asked'
  BY <1>1 DEF Asked
<1>10. Begun'
  BY <1>1, <1>5 DEF Begun
<1>11. Truthful'
  BY DEF Truthful
<1>12. Kept'
  <2> SUFFICES ASSUME ~overflowed
               PROVE  /\ \A t \in DOMAIN turns :
                           turns[t] # "active" /\ turn <= t => Completed(t) \in Mail'
                      /\ kind = "lead" =>
                           \A id \in open :
                             \/ \E what \in Asks : Ask(id, what) \in Mail'
                             \/ Answer(id) \in Range(inbox')
    BY <1>1 DEF Kept, Ahead, TypeOK, TransportTypeOK, Turns, Foreign
  <2>1. /\ \A t \in DOMAIN turns : turns[t] # "active" /\ Ahead(t) => Completed(t) \in Mail
        /\ kind = "lead" =>
             \A id \in open :
               \/ \E what \in Asks : Ask(id, what) \in Mail
               \/ Answer(id) \in Range(inbox)
    BY DEF Kept, Live, Waiting
  <2>2. ASSUME NEW t \in DOMAIN turns, turns[t] # "active", turn <= t PROVE Completed(t) \in Mail'
    <3>1. t = turn
      BY <2>2 DEF Begun, TypeOK, TransportTypeOK
    <3>2. Completed(t) \in Mail
      BY <2>1, <2>2, <3>1 DEF Ahead
    <3>3. Completed(t) # line
      BY <3>1 DEF Completed
    <3>. QED
      BY <3>2, <3>3
  <2>3. ASSUME kind = "lead", NEW id \in open
        PROVE  \/ \E what \in Asks : Ask(id, what) \in Mail'
               \/ Answer(id) \in Range(inbox')
    <3>1. CASE \E what \in Asks : Ask(id, what) \in Mail
      <4>1. PICK what \in Asks : Ask(id, what) \in Mail
        BY <3>1
      <4>2. CASE Ask(id, what) = line
        <5>1. line.id = id /\ line.kind = "ask"
          BY <4>2 DEF Ask
        <5>2. inbox' = Append(inbox, Answer(id))
          BY <5>1, <2>3
        <5>3. Answer(id) \in Range(inbox')
          BY <5>1, <5>2, <1>4
        <5>. QED
          BY <5>3
      <4>. QED
        BY <4>1, <4>2
    <3>2. CASE Answer(id) \in Range(inbox)
      BY <3>2, <1>4
    <3>. QED
      BY <2>1, <2>3, <3>1, <3>2
  <2>. QED
    BY <2>2, <2>3
<1>13. LeadReadsItsOwnTurn'
  BY <1>1 DEF LeadReadsItsOwnTurn
<1>. QED
  BY <1>6, <1>7, <1>8, <1>9, <1>10, <1>11, <1>12, <1>13

\* It is terminated, or has been: a step that stops the conversation.
LEMMA StopKeeps ==
  ASSUME IInv, DeadlineExpires \/ DropLead \/ Closed
  PROVE  IInv'
<1> USE DEF IInv, DeadlineExpires, DropLead, Closed, NothingToRead, Kill, ReaderJoined, transport, server
<1>1. /\ phase' \in {"expiring", "closing", "closed"}
      /\ UNCHANGED <<pipe, reader, channel, pending, overflowed, nextId, inbox, owed, turns, open, lines,
                     kind, call, turn, events, corrected, rounds, reply, message, outcome,
                     binding, unmarked>>
      /\ child' \in {child, "gone"}
  OBVIOUS
<1>2. TypeOK'
  BY <1>1 DEF TypeOK, TransportTypeOK, Phases
<1>3. Lived'
  BY DEF Lived, Waiting, NothingOutlivesClose, BindingTellsTheOutcome
<1>4. Mail' = Mail /\ Starts' = Starts
  BY <1>1 DEF Mail, Starts
<1>5. Numbered'
  BY <1>1, <1>4 DEF Numbered, ReadsTurn
<1>6. Asked'
  BY <1>1 DEF Asked
<1>7. Begun'
  BY <1>1, <1>4 DEF Begun
<1>8. Truthful'
  BY <1>1, <1>4 DEF Truthful
<1>9. Kept'
  BY <1>1 DEF Kept, Live, Waiting
<1>10. LeadReadsItsOwnTurn'
  BY <1>1 DEF LeadReadsItsOwnTurn
<1>. QED
  BY <1>2, <1>3, <1>5, <1>6, <1>7, <1>8, <1>9, <1>10

\* The first request of a client, or a process that cannot be started.
LEMMA SpawnKeeps ==
  ASSUME IInv, Spawn
  PROVE  IInv'
<1> USE DEF IInv
<1> DEFINE Post == [id : Nat, method : Methods \union {"answer"}, turn : Turns \union {Foreign}]
<1>1. /\ phase = "idle" /\ child = "none" /\ turns = <<>> /\ open = {} /\ reader = "none"
      /\ UNCHANGED <<pipe, channel, pending, overflowed, owed, turns, open, lines,
                     kind, turn, events, corrected, reply, message, binding, unmarked>>
      /\ kind = "team" => binding = "none"
      /\ nextId \in Nat /\ nextId > 0 /\ rounds' \in 0 .. MaxRounds /\ Mail' = Mail
  <2>1. /\ UNCHANGED <<pipe, channel, pending, overflowed, owed, turns, open, lines,
                       kind, turn, events, corrected, reply, message, binding, unmarked>>
        /\ phase = "idle" /\ child = "none" /\ rounds < MaxRounds /\ rounds' = rounds + 1
    BY DEF Spawn
  <2>2. nextId \in Nat /\ nextId > 0 /\ rounds' \in 0 .. MaxRounds
    BY <2>1, EventsAssumption DEF Numbered, TypeOK, TransportTypeOK
  <2>. QED
    BY <2>1, <2>2 DEF Lived, Mail
<1>2. CASE /\ child' = "up" /\ reader' = "reading"
           /\ call' = Request(nextId, "initialize", Foreign) /\ nextId' = nextId + 1
           /\ inbox' = <<call'>> /\ phase' = "calling" /\ UNCHANGED outcome
  <2>1. call'.id = nextId /\ call'.method = "initialize" /\ call'.turn = Foreign /\ call' \in Post
    BY <1>1, <1>2 DEF Request, Methods
  <2>2. /\ inbox' \in Seq(Post) /\ DOMAIN inbox' = {1} /\ inbox'[1] = call'
    BY <1>2, <2>1
  <2>3. TypeOK'
    <3>1. TransportTypeOK'
      BY <1>1, <1>2, <2>2 DEF TypeOK, TransportTypeOK
    <3>2. call' \in [id : Nat, method : Methods \union {"none"}, turn : Turns \union {Foreign}]
      BY <1>1, <1>2 DEF Request, Methods
    <3>. QED
      BY <1>1, <1>2, <3>1, <3>2 DEF TypeOK, Phases, Waiting
  <2>4. Lived'
    BY <1>1, <1>2, <2>1 DEF Lived, UnderWay, NothingOutlivesClose, BindingTellsTheOutcome, Methods
  <2>5. Numbered'
    <3>1. \A line \in Mail : line.kind = "reply" => line.id < nextId + 1
      BY <1>1, MailType DEF Numbered, TypeOK, TransportTypeOK, ReadTyped, Line
    <3>2. owed.id < nextId + 1
      BY <1>1 DEF Numbered, TypeOK, TransportTypeOK
    <3>. QED
      BY <1>1, <1>2, <2>1, <2>2, <3>1, <3>2 DEF Numbered, ReadsTurn
  <2>6. Asked'
    <3>1. owed'.id # call'.id
      BY <1>1, <2>1 DEF Numbered, TypeOK, TransportTypeOK
    <3>. QED
      BY <1>1, <1>2, <2>1, <2>2, <3>1 DEF Asked
  <2>7. Begun'
    <3>1. Starts' = {}
      BY <2>1, <2>2 DEF Starts
    <3>. QED
      BY <1>1, <1>2, <2>1, <3>1 DEF Begun
  <2>8. Truthful'
    BY <1>1 DEF Truthful
  <2>9. Kept'
    BY <1>1 DEF Kept
  <2>10. LeadReadsItsOwnTurn'
    BY <1>2, <2>1 DEF LeadReadsItsOwnTurn
  <2>. QED
    BY <2>3, <2>4, <2>5, <2>6, <2>7, <2>8, <2>9, <2>10
<1>3. CASE /\ phase' = "closed" /\ outcome' = "err"
           /\ UNCHANGED <<child, reader, call, nextId, inbox>>
  <2>1. TypeOK'
    BY <1>1, <1>3 DEF TypeOK, TransportTypeOK, Phases
  <2>2. Lived'
    BY <1>1, <1>3 DEF Lived, Waiting, NothingOutlivesClose, BindingTellsTheOutcome
  <2>3. Numbered'
    BY <1>1, <1>3 DEF Numbered, ReadsTurn
  <2>4. Asked'
    BY <1>3 DEF Asked
  <2>5. Begun'
    <3>1. Starts' = Starts
      BY <1>3 DEF Starts
    <3>. QED
      BY <1>1, <1>3, <3>1 DEF Begun
  <2>6. Truthful'
    BY <1>1 DEF Truthful
  <2>7. Kept'
    BY <1>3 DEF Kept, Live, Waiting
  <2>8. LeadReadsItsOwnTurn'
    BY <1>1, <1>3 DEF LeadReadsItsOwnTurn
  <2>. QED
    BY <2>1, <2>2, <2>3, <2>4, <2>5, <2>6, <2>7, <2>8
<1>. QED
  BY <1>2, <1>3 DEF Spawn

-----------------------------------------------------------------------------
(* Steps of the reader thread and of the app-server.                       *)

\* The reader thread moves lines and ends with the process.
LEMMA ReaderKeeps ==
  ASSUME IInv, ReaderThread
  PROVE  IInv'
<1> USE DEF IInv
<1>1. UNCHANGED <<child, pending, overflowed, nextId, inbox, owed, turns, open, lines>> /\ UNCHANGED progress
  BY DEF ReaderThread, Reader, ForwardLine, ReaderEnds, server
<1>2. ReadTyped' /\ Mail' = Mail
  <2>1. CASE ForwardLine
    <3>1. /\ pipe # <<>> /\ Len(channel) < Capacity
          /\ channel' = Append(channel, Head(pipe)) /\ pipe' = Tail(pipe)
          /\ pipe \in Seq(Line) /\ channel \in Seq(Line)
      BY <2>1 DEF ForwardLine, TypeOK, TransportTypeOK
    <3>2. /\ Head(pipe) \in Line /\ pipe' \in Seq(Line)
          /\ Range(pipe) = Range(pipe') \union {Head(pipe)}
      BY <3>1, Taken
    <3>3. /\ channel' \in Seq(Line) /\ Len(channel') = Len(channel) + 1 /\ Len(channel) \in Nat
          /\ Range(channel') = Range(channel) \union {Head(pipe)}
      BY <3>1, <3>2, Appended
    <3>4. Len(channel') <= Capacity
      BY <3>1, <3>3, CapacityAssumption
    <3>. QED
      BY <1>1, <3>2, <3>3, <3>4 DEF ReadTyped, Mail, TypeOK, TransportTypeOK
  <2>2. CASE ReaderEnds
    BY <1>1, <2>2 DEF ReaderEnds, ReadTyped, Mail, TypeOK, TransportTypeOK
  <2>. QED
    BY <2>1, <2>2 DEF ReaderThread, Reader
<1>3. /\ reader' \in {"none", "reading", "done"}
      /\ reader = "none" <=> reader' = "none"
      /\ reader # "reading" => reader' = reader
  BY DEF ReaderThread, Reader, ForwardLine, ReaderEnds, TypeOK, TransportTypeOK
<1> USE DEF progress
<1>4. TypeOK'
  BY <1>1, <1>2, <1>3 DEF TypeOK, TransportTypeOK, ReadTyped
<1>5. Lived'
  BY <1>1, <1>3 DEF Lived, NothingOutlivesClose, BindingTellsTheOutcome
<1>6. Numbered'
  BY <1>1, <1>2 DEF Numbered, ReadsTurn
<1>7. Asked'
  BY <1>1, <1>2 DEF Asked
<1>8. Begun'
  <2>1. Starts' = Starts
    BY <1>1 DEF Starts
  <2>. QED
    BY <1>1, <1>2, <2>1 DEF Begun, Begins
<1>9. Truthful'
  BY <1>1, <1>2 DEF Truthful
<1>10. Kept'
  BY <1>1, <1>2 DEF Kept, Ahead, Live, Waiting
<1>11. LeadReadsItsOwnTurn'
  BY <1>1 DEF LeadReadsItsOwnTurn
<1>. QED
  BY <1>4, <1>5, <1>6, <1>7, <1>8, <1>9, <1>10, <1>11

\* A line of the server joins the others.
LEMMA Said ==
  ASSUME TypeOK, NEW line \in Line, SaysOf(line), UNCHANGED <<channel, pending, overflowed>>
  PROVE  ReadTyped' /\ Mail' = Mail \union {line}
<1>1. pipe \in Seq(Line) /\ pipe' = Append(pipe, line)
  BY DEF TypeOK, TransportTypeOK, SaysOf
<1>2. pipe' \in Seq(Line) /\ Range(pipe') = Range(pipe) \union {line}
  BY <1>1, Appended
<1>. QED
  BY <1>2 DEF Mail, ReadTyped, TypeOK, TransportTypeOK

\* It reads an answer of the client, or a request.
LEMMA ServerReadsKeeps ==
  ASSUME IInv, ServerReads, UNCHANGED progress
  PROVE  IInv'
<1> USE DEF IInv, progress
<1> DEFINE Post == [id : Nat, method : Methods \union {"answer"}, turn : Turns \union {Foreign}]
           h == Head(inbox)
<1>1. /\ inbox # <<>> /\ inbox' = Tail(inbox) /\ inbox \in Seq(Post) /\ owed = Nothing
      /\ child = "up" /\ UNCHANGED <<transport, lines>>
  BY DEF ServerReads, TypeOK, TransportTypeOK
<1>2. /\ h \in Post /\ inbox' \in Seq(Post) /\ h = inbox[1]
      /\ DOMAIN inbox' = 1 .. Len(inbox) - 1 /\ DOMAIN inbox = 1 .. Len(inbox)
      /\ Len(inbox) \in Nat /\ Len(inbox) > 0
      /\ \A i \in 1 .. Len(inbox) - 1 : inbox'[i] = inbox[i + 1]
      /\ Range(inbox) = Range(inbox') \union {h}
  <2> HIDE DEF Post
  <2>. QED
    BY <1>1, Taken
<1>3. 1 \in DOMAIN inbox /\ \A i \in DOMAIN inbox' : i + 1 \in DOMAIN inbox /\ inbox'[i] = inbox[i + 1]
  BY <1>2
<1>4. \A i \in DOMAIN inbox' : \E j \in DOMAIN inbox : inbox'[i] = inbox[j]
  BY <1>3
<1>5. /\ \A i \in Starts' : i + 1 \in Starts
      /\ h.method = "turn/start" => 1 \in Starts
      /\ \A i \in Starts' : i \in Nat /\ i # 0
  BY <1>2, <1>3 DEF Starts
<1>6. /\ \A i, j \in Starts' : i = j
      /\ Starts = {} => Starts' = {}
      /\ h.method = "turn/start" => Starts # {} /\ Starts' = {}
  <2>1. \A i, j \in Starts' : i = j
    <3> TAKE i, j \in Starts'
    <3>1. i + 1 = j + 1
      BY <1>5 DEF Begun
    <3>. QED
      BY <1>5, <3>1
  <2>2. ASSUME NEW i \in Starts', h.method = "turn/start" PROVE FALSE
    <3>1. i + 1 = 1
      BY <1>5, <2>2 DEF Begun
    <3>. QED
      BY <1>5, <3>1
  <2>. QED
    BY <1>5, <2>1, <2>2
<1>7. /\ ReadTyped' /\ Mail' = Mail
      /\ UNCHANGED <<child, pipe, reader, channel, pending, overflowed, nextId>>
  BY <1>1 DEF transport, ReadTyped, Mail, TypeOK, TransportTypeOK
<1>8. LeadReadsItsOwnTurn /\ Begun /\ (phase = "idle" => Starts = {})
  BY DEF Begun
<1> HIDE DEF Post, h
<1>9. CASE h.method = "answer" /\ open' = open \ {h.id} /\ UNCHANGED <<owed, turns>>
  <2>1. TypeOK'
    BY <1>2, <1>7, <1>9, <1>1 DEF TypeOK, TransportTypeOK, ReadTyped, Post
  <2>2. Lived'
    BY <1>7, <1>9 DEF Lived, NothingOutlivesClose, BindingTellsTheOutcome
  <2>3. Numbered'
    BY <1>4, <1>7, <1>9 DEF Numbered, ReadsTurn
  <2>4. Asked'
    BY <1>4, <1>7, <1>9 DEF Asked
  <2>5. Begun'
    BY <1>6, <1>7, <1>9 DEF Begun, Begins
  <2>6. Truthful'
    BY <1>7, <1>9 DEF Truthful
  <2>7. Kept'
    <3>1. \A id \in open' : id \in open /\ (Answer(id) \in Range(inbox) => Answer(id) \in Range(inbox'))
      <4> TAKE id \in open'
      <4>1. Answer(id) # h
        BY <1>9 DEF Answer
      <4>. QED
        BY <1>2, <1>9, <4>1
    <3>. QED
      BY <1>7, <1>9, <3>1 DEF Kept, Ahead, Live, Waiting
  <2>8. LeadReadsItsOwnTurn'
    BY <1>9 DEF LeadReadsItsOwnTurn
  <2>. QED
    BY <2>1, <2>2, <2>3, <2>4, <2>5, <2>6, <2>7, <2>8
<1>10. CASE /\ h.method = "turn/start" /\ turns' = Append(turns, "active")
            /\ owed' = [h EXCEPT !.turn = Len(turns) + 1] /\ UNCHANGED open
  <2>1. /\ turns \in Seq(Status) /\ Len(turns) < MaxTurns /\ "active" \in Status
    BY <1>6, <1>10 DEF Begun, TypeOK, TransportTypeOK, Status
  <2>2. /\ turns' \in Seq(Status) /\ Len(turns') = Len(turns) + 1 /\ Len(turns) \in Nat
        /\ DOMAIN turns = 1 .. Len(turns) /\ DOMAIN turns' = 1 .. Len(turns) + 1
        /\ \A t \in DOMAIN turns' : turns'[t] = IF t = Len(turns) + 1 THEN "active" ELSE turns[t]
    BY <1>10, <2>1, Appended
  <2>3. /\ owed'.id = h.id /\ owed'.method = h.method /\ owed'.turn = Len(turns) + 1
        /\ owed' \in [id : Nat, method : Methods \union {"none"}, turn : Turns \union {Foreign}]
    <3>1. Len(turns) + 1 \in Turns
      BY <2>1, <2>2, BoundsAssumption DEF Turns
    <3>2. h \in Post /\ "turn/start" \in Methods
      BY <1>2 DEF Methods
    <3>. QED
      BY <1>10, <3>1, <3>2 DEF Post
  <2>4. \A t \in DOMAIN turns : t \in DOMAIN turns' /\ turns'[t] = turns[t]
    BY <2>2
  <2>5. TypeOK'
    <3>1. turns' \in Seq(Status) /\ Len(turns') <= MaxTurns
      BY <2>1, <2>2, BoundsAssumption
    <3>2. owed' \in [id : Nat, method : Methods \union {"none"}, turn : Turns \union {Foreign}]
      BY <2>3
    <3>3. inbox' \in Seq(Post)
      BY <1>2
    <3>4. TransportTypeOK'
      BY <1>1, <1>7, <1>10, <3>1, <3>2, <3>3 DEF TypeOK, TransportTypeOK, ReadTyped, Post
    <3>. QED
      BY <3>4 DEF TypeOK
  <2>6. Lived'
    BY <1>1, <1>7, <1>10 DEF Lived, NothingOutlivesClose, BindingTellsTheOutcome
  <2>7. Numbered'
    <3>1. h.id < nextId
      BY <1>2, <1>3, <1>10 DEF Numbered
    <3>2. ReadsTurn(owed)'
      BY <1>10, <2>3 DEF ReadsTurn
    <3>3. (\A i \in DOMAIN inbox : ReadsTurn(inbox[i]))'
      BY <1>4, <2>4 DEF Numbered, ReadsTurn
    <3>4. \A i \in DOMAIN inbox' : inbox'[i].method # "answer" => inbox'[i].id < nextId
      BY <1>4 DEF Numbered
    <3>. QED
      BY <1>7, <2>3, <3>1, <3>2, <3>3, <3>4 DEF Numbered
  <2>8. /\ phase = "calling" => call.method = "turn/start" /\ \A line \in Mail : line.kind = "reply" => line.id # call.id
        /\ phase \notin {"idle", "pumping"}
    BY <1>6, <1>10 DEF Begun, Begins
  <2>9. Asked'
    <3>1. owed'.id = call.id => owed'.method = call.method \/ phase # "calling"
      BY <1>2, <1>3, <1>10, <2>3, <2>8 DEF Asked
    <3>. QED
      BY <1>4, <1>7, <2>8, <3>1 DEF Asked
  <2>10. Begun'
    <3>1. Starts' = {} /\ turn \in 0 .. Len(turns)
      BY <1>6, <1>10 DEF Begun
    <3>2. turn \in 0 .. Len(turns') /\ turn < Len(turns')
      BY <2>2, <3>1
    <3>3. Begins(owed.turn)'
      BY <2>2, <2>3, <3>1, <3>2 DEF Begins
    <3>. QED
      BY <1>7, <1>8, <2>8, <3>1, <3>2, <3>3 DEF Begun
  <2>11. Truthful'
    BY <1>7, <2>4 DEF Truthful
  <2>12. Kept'
    <3> SUFFICES ASSUME phase \in Live, ~overflowed
                 PROVE  /\ \A t \in DOMAIN turns' : turns'[t] # "active" /\ turn < t => Completed(t) \in Mail
                        /\ kind = "lead" =>
                             \A id \in open :
                               \/ \E what \in Asks : Ask(id, what) \in Mail
                               \/ Answer(id) \in Range(inbox')
      BY <1>7, <1>10, <2>8 DEF Kept, Ahead, Live
    <3>1. \A t \in DOMAIN turns' : turns'[t] # "active" => t \in DOMAIN turns /\ turns'[t] = turns[t]
      BY <2>2
    <3>2. \A id \in open : Answer(id) # h
      BY <1>10 DEF Answer
    <3>. QED
      BY <1>2, <3>1, <3>2 DEF Kept, Ahead
  <2>13. LeadReadsItsOwnTurn'
    BY <1>8, <2>8 DEF LeadReadsItsOwnTurn
  <2>. QED
    BY <2>5, <2>6, <2>7, <2>9, <2>10, <2>11, <2>12, <2>13
<1>11. CASE h.method \in Methods \ {"turn/start"} /\ owed' = h /\ UNCHANGED <<turns, open>>
  <2>1. h.method \notin {"answer", "turn/start"}
    BY <1>11 DEF Methods
  <2>2. TypeOK'
    <3>1. owed' \in [id : Nat, method : Methods \union {"none"}, turn : Turns \union {Foreign}]
      BY <1>2, <1>11 DEF Post, Methods
    <3>. QED
      BY <1>2, <1>7, <1>11, <1>1, <3>1 DEF TypeOK, TransportTypeOK, ReadTyped, Post
  <2>3. Lived'
    BY <1>7, <1>11 DEF Lived, NothingOutlivesClose, BindingTellsTheOutcome
  <2>4. Numbered'
    BY <1>2, <1>3, <1>4, <1>7, <1>11, <2>1 DEF Numbered, ReadsTurn
  <2>5. phase = "calling" /\ h.id = call.id => h = call
    BY <1>2, <1>3, <2>1 DEF Asked
  <2>6. Asked'
    BY <1>4, <1>7, <1>11, <2>5 DEF Asked
  <2>7. Begun'
    BY <1>6, <1>7, <1>11, <2>1, <2>5 DEF Begun, Begins
  <2>8. Truthful'
    BY <1>7, <1>11 DEF Truthful
  <2>9. Kept'
    <3>1. \A id \in open : Answer(id) # h
      BY <2>1 DEF Answer
    <3>. QED
      BY <1>2, <1>7, <1>11, <3>1 DEF Kept, Ahead, Live, Waiting
  <2>10. LeadReadsItsOwnTurn'
    BY <1>11 DEF LeadReadsItsOwnTurn
  <2>. QED
    BY <2>2, <2>3, <2>4, <2>6, <2>7, <2>8, <2>9, <2>10
<1>. QED
  BY <1>9, <1>10, <1>11 DEF ServerReads, h

\* It answers the request it has read, or refuses it.
LEMMA ServerRepliesKeeps ==
  ASSUME IInv, ServerReplies, UNCHANGED progress
  PROVE  IInv'
<1> USE DEF IInv, progress
<1>1. /\ owed # Nothing /\ owed' = Nothing
      /\ UNCHANGED <<child, reader, channel, pending, overflowed, nextId, inbox, turns, open, lines>>
      /\ owed \in [id : Nat, method : Methods \union {"none"}, turn : Turns \union {Foreign}]
  BY DEF ServerReplies, TypeOK, TransportTypeOK
<1>2. PICK body \in {"ok", "error"} :
        SaysOf(Reply(owed.id, owed.turn,
                     IF owed.method = "thread/read" /\ body = "ok" /\ owed.turn # Foreign
                       THEN turns[owed.turn] ELSE body))
  BY DEF ServerReplies
<1> DEFINE status == IF owed.method = "thread/read" /\ body = "ok" /\ owed.turn # Foreign
                       THEN turns[owed.turn] ELSE body
           line == Reply(owed.id, owed.turn, status)
<1>3. /\ line.kind = "reply" /\ line.id = owed.id /\ line.turn = owed.turn /\ line.body = status
      /\ line = Reply(owed.id, owed.turn, status)
  BY DEF Reply
<1>4. status \in Status \union {"ok", "error"}
  <2>1. CASE owed.method = "thread/read" /\ body = "ok" /\ owed.turn # Foreign
    <3>1. owed.turn \in DOMAIN turns /\ turns \in Seq(Status)
      BY <2>1 DEF Numbered, ReadsTurn, TypeOK, TransportTypeOK
    <3>. QED
      BY <2>1, <3>1
  <2>2. CASE ~ (owed.method = "thread/read" /\ body = "ok" /\ owed.turn # Foreign)
    BY <2>2
  <2>. QED
    BY <2>1, <2>2
<1>5. SaysOf(line)
  BY <1>2
<1>6. status \in {turns[owed.turn], "error"} \/ owed.method # "thread/read" \/ owed.turn = Foreign
  OBVIOUS
<1> HIDE DEF status, line
<1>7. ReadTyped' /\ Mail' = Mail \union {line}
  <2>1. line \in Line
    BY <1>1, <1>3, <1>4 DEF Line, Reply
  <2>. QED
    BY <1>1, <1>5, <2>1, Said
<1>8. Nothing.id = 0 /\ Nothing.method = "none"
  BY DEF Nothing, Request
<1>9. TypeOK'
  <2>1. owed' \in [id : Nat, method : Methods \union {"none"}, turn : Turns \union {Foreign}]
    BY <1>1 DEF Nothing, Request, Foreign
  <2>. QED
    BY <1>1, <1>7, <2>1 DEF TypeOK, TransportTypeOK, ReadTyped
<1>10. Lived'
  BY <1>1 DEF Lived, NothingOutlivesClose, BindingTellsTheOutcome
<1>11. Numbered'
  <2>1. \A other \in Mail' : other.kind = "reply" => other.id < nextId
    BY <1>3, <1>7 DEF Numbered
  <2>. QED
    BY <1>1, <1>8, <2>1 DEF Numbered, ReadsTurn
<1>12. phase = "calling" => owed'.id # call.id
  BY <1>1, <1>8 DEF Lived, TypeOK
<1>13. Asked'
  <2> SUFFICES ASSUME phase = "calling", call.method = "thread/read", call.turn # Foreign
               PROVE  \A other \in Mail' :
                        other.kind = "reply" /\ other.id = call.id =>
                          other.body \in {turns[call.turn], "error"}
    BY <1>1, <1>12 DEF Asked
  <2>1. line.id = call.id => line.body \in {turns[call.turn], "error"}
    BY <1>3, <1>6 DEF Asked
  <2>. QED
    BY <1>7, <2>1 DEF Asked
<1>14. Begun'
  <2>1. Starts' = Starts
    BY <1>1 DEF Starts
  <2>2. ASSUME phase = "calling", call.method = "turn/start"
        PROVE  \A other \in Mail' : other.kind = "reply" /\ other.id = call.id => Begins(other.turn)
    BY <1>3, <1>7, <2>2 DEF Begun
  <2>. QED
    BY <1>1, <1>12, <2>1, <2>2 DEF Begun, Begins
<1>15. Truthful'
  BY <1>1, <1>3, <1>7 DEF Truthful
<1>16. Kept'
  BY <1>1, <1>7 DEF Kept, Ahead, Live, Waiting
<1>17. LeadReadsItsOwnTurn'
  BY <1>1 DEF LeadReadsItsOwnTurn
<1>. QED
  BY <1>9, <1>10, <1>11, <1>13, <1>14, <1>15, <1>16, <1>17

\* A turn of the thread ends.
LEMMA ServerCompletesKeeps ==
  ASSUME IInv, ServerCompletes, UNCHANGED progress
  PROVE  IInv'
<1> USE DEF IInv, progress
<1>1. /\ UNCHANGED <<child, reader, channel, pending, overflowed, nextId, inbox, owed, open, lines>>
      /\ child = "up" /\ turns \in Seq(Status) /\ Len(turns) <= MaxTurns
  BY DEF ServerCompletes, TypeOK, TransportTypeOK
<1>2. PICK t \in DOMAIN turns, status \in {"answered", "failed"} :
        turns[t] = "active" /\ turns' = [turns EXCEPT ![t] = status] /\ SaysOf(Completed(t))
  BY DEF ServerCompletes
<1>3. /\ Completed(t).kind = "done" /\ Completed(t).turn = t /\ t \in Turns /\ t # Foreign
      /\ Completed(t) \in Line
  BY <1>1, <1>2, BoundsAssumption DEF Completed, Line, Turns, Foreign
<1>4. ReadTyped' /\ Mail' = Mail \union {Completed(t)}
  BY <1>1, <1>2, <1>3, Said
<1>5. /\ turns' \in Seq(Status) /\ Len(turns') = Len(turns) /\ DOMAIN turns' = DOMAIN turns
      /\ turns'[t] = status /\ \A u \in DOMAIN turns : turns[u] # "active" => u # t /\ turns'[u] = turns[u]
  BY <1>1, <1>2 DEF Status
<1>6. TypeOK'
  BY <1>1, <1>4, <1>5 DEF TypeOK, TransportTypeOK, ReadTyped
<1>7. Lived'
  BY <1>1 DEF Lived, NothingOutlivesClose, BindingTellsTheOutcome
<1>8. Numbered'
  BY <1>1, <1>3, <1>4, <1>5 DEF Numbered, ReadsTurn
<1>9. Asked'
  <2>1. DOMAIN turns = {} => FALSE
    BY <1>2
  <2>2. turns # <<>>
    BY <2>1
  <2>. QED
    BY <1>1, <1>3, <1>4, <1>5, <2>2 DEF Asked
<1>10. Begun'
  <2>1. Starts' = Starts
    BY <1>1 DEF Starts
  <2>. QED
    BY <1>1, <1>3, <1>4, <1>5, <2>1 DEF Begun, Begins
<1>11. Truthful'
  BY <1>2, <1>3, <1>4, <1>5 DEF Truthful
<1>12. Kept'
  <2>1. \A u \in DOMAIN turns : u # t => turns'[u] = turns[u]
    BY <1>1, <1>2
  <2>. QED
    BY <1>1, <1>4, <1>5, <2>1 DEF Kept, Ahead, Live, Waiting
<1>13. LeadReadsItsOwnTurn'
  <2>1. turn \in 0 .. Len(turns)
    BY DEF Begun
  <2>2. ASSUME turns[turn] = "answered" PROVE turns'[turn] = "answered"
    <3>1. turn # t
      BY <1>2, <2>2
    <3>. QED
      BY <1>1, <1>2, <2>2, <3>1
  <2>. QED
    BY <2>2 DEF LeadReadsItsOwnTurn
<1>. QED
  BY <1>6, <1>7, <1>8, <1>9, <1>10, <1>11, <1>12, <1>13

\* It says what nobody asked for, or asks for something itself.
LEMMA ServerSaysKeeps ==
  ASSUME IInv, ServerSays, UNCHANGED progress
  PROVE  IInv'
<1> USE DEF IInv, progress
<1>1. /\ UNCHANGED <<child, reader, channel, pending, overflowed, nextId, inbox, owed, turns>>
      /\ child = "up" /\ lines < MaxLines /\ lines' = lines + 1 /\ lines' \in 0 .. MaxLines
  <2>1. /\ UNCHANGED <<child, reader, channel, pending, overflowed, nextId, inbox, owed, turns>>
        /\ child = "up" /\ lines < MaxLines /\ lines' = lines + 1
    BY DEF ServerSays
  <2>. QED
    BY <2>1, BoundsAssumption DEF TypeOK, TransportTypeOK
<1>2. \E line \in Line :
        /\ SaysOf(line)
        /\ \/ /\ line.kind # "ask" /\ (line.kind = "reply" => line.id = 0)
              /\ (line.kind = "done" => line.turn = Foreign) /\ open' = open
           \/ \E id \in AskIds, what \in Asks : line = Ask(id, what) /\ open' = open \union {id}
  <2>1. CASE UNCHANGED open /\ \E line \in {Note, Completed(Foreign), Stray, Malformed} : SaysOf(line)
    <3>1. PICK line \in {Note, Completed(Foreign), Stray, Malformed} : SaysOf(line)
      BY <2>1
    <3>2. /\ line \in Line /\ line.kind # "ask" /\ (line.kind = "reply" => line.id = 0)
          /\ line.kind = "done" => line.turn = Foreign
      BY DEF Note, Completed, Stray, Malformed, Reply, Line, Foreign
    <3>. QED
      BY <2>1, <3>1, <3>2
  <2>2. CASE \E id \in AskIds \ open, what \in Asks :
               SaysOf(Ask(id, what)) /\ open' = open \union {id}
    <3>1. PICK id \in AskIds \ open, what \in Asks :
            SaysOf(Ask(id, what)) /\ open' = open \union {id}
      BY <2>2
    <3>2. Ask(id, what) \in Line
      BY AskIdsAssumption DEF Ask, Line, Foreign
    <3>. QED
      BY <3>1, <3>2
  <2>. QED
    BY <2>1, <2>2 DEF ServerSays
<1>3. PICK line \in Line :
        /\ SaysOf(line)
        /\ \/ /\ line.kind # "ask" /\ (line.kind = "reply" => line.id = 0)
              /\ (line.kind = "done" => line.turn = Foreign) /\ open' = open
           \/ \E id \in AskIds, what \in Asks : line = Ask(id, what) /\ open' = open \union {id}
  BY <1>2
<1>4. /\ line.kind = "reply" => line.id = 0
      /\ line.kind = "done" => line.turn = Foreign
      /\ open' \subseteq AskIds /\ open \subseteq AskIds
      /\ open' = open \/ \E id \in AskIds, what \in Asks : line = Ask(id, what) /\ open' = open \union {id}
  BY <1>3 DEF Ask, TypeOK, TransportTypeOK
<1>5. ReadTyped' /\ Mail' = Mail \union {line}
  BY <1>1, <1>3, Said
<1>6. TypeOK'
  BY <1>1, <1>4, <1>5 DEF TypeOK, TransportTypeOK, ReadTyped
<1>7. Lived'
  BY <1>1 DEF Lived, NothingOutlivesClose, BindingTellsTheOutcome
<1>8. Numbered'
  BY <1>1, <1>4, <1>5 DEF Numbered, ReadsTurn
<1>9. phase = "calling" => line.kind # "reply" \/ line.id # call.id
  BY <1>4 DEF Lived, TypeOK
<1>10. Asked'
  BY <1>1, <1>5, <1>9 DEF Asked
<1>11. Begun'
  <2>1. Starts' = Starts
    BY <1>1 DEF Starts
  <2>. QED
    BY <1>1, <1>5, <1>9, <2>1 DEF Begun, Begins
<1>12. Truthful'
  BY <1>1, <1>4, <1>5 DEF Truthful
<1>13. Kept'
  BY <1>1, <1>4, <1>5 DEF Kept, Ahead, Live, Waiting
<1>14. LeadReadsItsOwnTurn'
  BY <1>1 DEF LeadReadsItsOwnTurn
<1>. QED
  BY <1>6, <1>7, <1>8, <1>10, <1>11, <1>12, <1>13, <1>14

\* It exits.
LEMMA ServerExitsKeeps ==
  ASSUME IInv, ServerExits, UNCHANGED progress
  PROVE  IInv'
<1> USE DEF IInv, progress
<1>1. /\ UNCHANGED <<pipe, reader, channel, pending, overflowed, nextId, inbox, owed, turns, open, lines>>
      /\ child = "up" /\ child' = "gone"
  BY DEF ServerExits, Kill, server
<1>2. TypeOK'
  BY <1>1 DEF TypeOK, TransportTypeOK
<1>3. Lived'
  BY <1>1 DEF Lived, NothingOutlivesClose, BindingTellsTheOutcome
<1>4. Mail' = Mail /\ Starts' = Starts
  BY <1>1 DEF Mail, Starts
<1>5. Numbered'
  BY <1>1, <1>4 DEF Numbered, ReadsTurn
<1>6. Asked'
  BY <1>1, <1>4 DEF Asked
<1>7. Begun'
  BY <1>1, <1>4 DEF Begun, Begins
<1>8. Truthful'
  BY <1>1, <1>4 DEF Truthful
<1>9. Kept'
  BY <1>1, <1>4 DEF Kept, Ahead, Live, Waiting
<1>10. LeadReadsItsOwnTurn'
  BY <1>1 DEF LeadReadsItsOwnTurn
<1>. QED
  BY <1>2, <1>3, <1>5, <1>6, <1>7, <1>8, <1>9, <1>10

-----------------------------------------------------------------------------
(* The actions of the client.                                              *)

\* What stays well typed when the lines are left alone.
LEMMA LinesAlone ==
  ASSUME TypeOK, UNCHANGED <<pipe, channel, pending, overflowed>>
  PROVE  ReadTyped' /\ Mail' = Mail /\ Spared
BY DEF TypeOK, TransportTypeOK, ReadTyped, Mail, Spared

\* A round on the resident thread.
LEMMA NextRoundKeeps ==
  ASSUME IInv, NextRound
  PROVE  IInv'
<1> USE DEF IInv
<1>1. /\ phase = "idle" /\ child # "none" /\ rounds < MaxRounds /\ Len(turns) < MaxTurns
      /\ UNCHANGED <<pipe, reader, channel, pending, overflowed, owed, turns, open, lines>>
  BY DEF NextRound
<1>2. ReadTyped' /\ Mail' = Mail /\ Spared
  BY <1>1, LinesAlone
<1>3. Starts = {} /\ phase \in Live
  BY <1>1 DEF Begun, Live
<1>4. CASE /\ Send("turn/start", Foreign)
           /\ outcome' = "none" /\ rounds' = rounds + 1 /\ corrected' = FALSE
           /\ UNCHANGED <<kind, turn, events, reply, message, binding, unmarked>>
  <2>1. /\ rounds' \in 0 .. MaxRounds /\ events' \in 0 .. MaxEvents
        /\ binding' \in {"none", "starting", "running", "completed", "failed"}
        /\ kind = "lead"
    BY <1>1, <1>4, EventsAssumption DEF TypeOK, Lived
  <2>2. "turn/start" \in Methods /\ Foreign \in Turns \union {Foreign}
    BY DEF Methods
  <2>. QED
    BY <1>1, <1>2, <1>3, <1>4, <2>1, <2>2, SendKeeps
<1>5. CASE CannotSend
  <2>1. GiveUp /\ UNCHANGED <<nextId, reader, server>>
    BY <1>1, <1>5 DEF CannotSend, server
  <2>. QED
    BY <1>1, <1>2, <2>1, GiveUpKeeps
<1>. QED
  BY <1>4, <1>5 DEF NextRound

\* Taking the next line of the channel.
LEMMA Received ==
  ASSUME TypeOK, channel # <<>>, channel' = Tail(channel), UNCHANGED <<pipe, pending>>,
         overflowed' = overflowed
  PROVE  /\ Head(channel) \in Mail /\ Head(channel) \in Line /\ ReadTyped'
         /\ Mail' \subseteq Mail /\ Mail \subseteq Mail' \union {Head(channel)}
<1>1. channel \in Seq(Line) /\ Len(channel) <= Capacity
  BY DEF TypeOK, TransportTypeOK
<1>2. /\ Head(channel) \in Line /\ channel' \in Seq(Line)
      /\ Len(channel') = Len(channel) - 1 /\ Len(channel) \in Nat
      /\ Range(channel) = Range(channel') \union {Head(channel)}
  BY <1>1, Taken
<1>. QED
  BY <1>1, <1>2, CapacityAssumption DEF TypeOK, TransportTypeOK, ReadTyped, Mail

\* Keeping it for the pump: the oldest kept line may go.
LEMMA KeptLine ==
  ASSUME TypeOK, channel # <<>>, channel' = Tail(channel), UNCHANGED pipe, Keep(Head(channel))
  PROVE  /\ ReadTyped' /\ Mail' \subseteq Mail
         /\ overflowed' \/ (~overflowed /\ Mail' = Mail)
<1> DEFINE line == Head(channel)
           rest == IF Len(pending) >= Capacity THEN Tail(pending) ELSE pending
<1>1. /\ channel \in Seq(Line) /\ Len(channel) <= Capacity /\ Capacity \in Nat /\ Capacity > 0
      /\ pending \in Seq(Line) /\ Len(pending) <= Capacity /\ Len(pending) \in Nat
      /\ pipe' \in Seq(Line) /\ overflowed \in BOOLEAN
  BY CapacityAssumption DEF TypeOK, TransportTypeOK
<1>2. /\ line \in Line /\ channel' \in Seq(Line)
      /\ Len(channel') = Len(channel) - 1 /\ Len(channel) \in Nat
      /\ Range(channel) = Range(channel') \union {line}
  BY <1>1, Taken
<1>3. /\ rest \in Seq(Line) /\ Range(rest) \subseteq Range(pending) /\ Len(rest) < Capacity
      /\ Len(rest) \in Nat /\ (Len(pending) >= Capacity \/ rest = pending)
  <2>1. CASE Len(pending) >= Capacity
    <3>1. pending # <<>>
      BY <1>1, <2>1
    <3>2. /\ Tail(pending) \in Seq(Line) /\ Len(Tail(pending)) = Len(pending) - 1
          /\ Range(pending) = Range(Tail(pending)) \union {Head(pending)}
      BY <1>1, <3>1, Taken
    <3>3. rest = Tail(pending)
      BY <2>1
    <3> HIDE DEF rest
    <3>4. Len(rest) < Capacity /\ Len(rest) \in Nat
      BY <1>1, <2>1, <3>2, <3>3
    <3>. QED
      BY <2>1, <3>2, <3>3, <3>4
  <2>2. CASE ~ (Len(pending) >= Capacity)
    BY <1>1, <2>2
  <2>. QED
    BY <2>1, <2>2
<1>4. /\ pending' = Append(rest, line)
      /\ overflowed' = (overflowed \/ Len(pending) >= Capacity)
  BY DEF Keep
<1> HIDE DEF rest, line
<1>5. /\ pending' \in Seq(Line) /\ Len(pending') = Len(rest) + 1
      /\ Range(pending') = Range(rest) \union {line}
  BY <1>2, <1>3, <1>4, Appended
<1>6. Len(channel') <= Capacity /\ Len(pending') <= Capacity /\ overflowed' \in BOOLEAN
  BY <1>1, <1>2, <1>3, <1>4, <1>5
<1>7. ReadTyped'
  BY <1>1, <1>2, <1>5, <1>6 DEF ReadTyped
<1>8. Mail' \subseteq Mail /\ (rest = pending => Mail' = Mail)
  BY <1>2, <1>3, <1>5 DEF Mail
<1>. QED
  BY <1>1, <1>3, <1>4, <1>7, <1>8

\* The reply to the request decides what follows.
LEMMA ReplyKeeps ==
  ASSUME IInv, phase = "calling", NEW line \in Mail, Correlates(line, call), ReplyTo(line),
         UNCHANGED <<pipe, reader, owed, turns, open, lines, pending, overflowed>>,
         ReadTyped', Mail' \subseteq Mail, Mail \subseteq Mail' \union {line}
  PROVE  IInv'
<1> USE DEF IInv
<1>1. (GiveUp /\ UNCHANGED <<nextId, inbox>>) => IInv'
  <2> SUFFICES ASSUME GiveUp, UNCHANGED <<nextId, inbox>>
               PROVE  IInv'
    OBVIOUS
  <2>1. UNCHANGED <<nextId, reader, server>>
    BY DEF server
  <2>. QED
    BY <2>1, GiveUpKeeps DEF Waiting
<1>2. CASE line.kind = "ask" \/ line.body = "error"
  BY <1>1, <1>2 DEF ReplyTo
<1>3. CASE ~ (line.kind = "ask" \/ line.body = "error")
  <2>1. /\ line.kind = "reply" /\ line.id = call.id /\ line.body # "error"
        /\ Initialized \/ ThreadStarted \/ TurnStarted(line) \/ SnapshotRead(line)
    BY <1>3 DEF Correlates, ReplyTo
  <2>2. Spared /\ phase \in Live
    BY <2>1 DEF Spared, Live, Waiting
  <2>3. CannotSend => IInv'
    BY <1>1 DEF CannotSend
  <2>4. /\ corrected \in BOOLEAN /\ events \in 0 .. MaxEvents /\ rounds \in 0 .. MaxRounds
        /\ outcome \in {"none", "ok", "err"}
        /\ binding \in {"none", "starting", "running", "completed", "failed"}
        /\ kind = "team" => binding \in UnderWay
    BY DEF TypeOK, Lived, Waiting
  <2>5. /\ {"thread/start", "turn/start"} \subseteq Methods /\ Foreign \in Turns \union {Foreign}
    BY DEF Methods
  <2>6. CASE Initialized
    <3>1. Starts = {} /\ turns = <<>>
      BY <2>6 DEF Initialized, Begun, Asked
    <3>2. CASE /\ Send("thread/start", Foreign)
               /\ UNCHANGED <<kind, turn, events, corrected, rounds, reply, message, outcome,
                              binding, unmarked>>
      BY <2>2, <2>4, <2>5, <3>1, <3>2, SendKeeps
    <3>. QED
      BY <2>3, <2>6, <3>2 DEF Initialized
  <2>7. CASE ThreadStarted
    <3>1. Starts = {} /\ turns = <<>>
      BY <2>7 DEF ThreadStarted, Begun, Asked
    <3>2. CASE /\ Send("turn/start", Foreign)
               /\ binding' = IF kind = "team" THEN "starting" ELSE "none"
               /\ UNCHANGED <<kind, turn, events, corrected, rounds, reply, message, outcome, unmarked>>
      <4>1. Len(turns) < MaxTurns
        BY <3>1, BoundsAssumption
      <4>2. /\ binding' \in {"none", "starting", "running", "completed", "failed"}
            /\ binding' \in UnderWay
        BY <3>2 DEF UnderWay
      <4>. QED
        BY <2>2, <2>4, <2>5, <3>1, <3>2, <4>1, <4>2, SendKeeps
    <3>3. CASE GiveUpWith("starting") /\ UNCHANGED <<nextId, inbox>>
      <4>1. "starting" \in UnderWay /\ UNCHANGED <<nextId, reader, server>>
        BY <3>3 DEF UnderWay, server
      <4>. QED
        BY <3>3, <4>1, GiveUpWithKeeps DEF Waiting
    <3>. QED
      BY <1>1, <2>7, <3>2, <3>3 DEF ThreadStarted, BoardFails
  <2>8. CASE TurnStarted(line)
    <3>1. CASE /\ turn' = line.turn /\ binding' = IF kind = "team" THEN "running" ELSE "none"
               /\ events' = MaxEvents /\ phase' = "pumping" /\ call' = Nothing
               /\ UNCHANGED <<kind, corrected, rounds, reply, message, outcome, unmarked,
                              child, nextId, inbox>>
      <4>1. UNCHANGED server /\ call.method = "turn/start"
        BY <2>8, <3>1 DEF TurnStarted, server
      <4>. QED
        BY <2>1, <2>2, <3>1, <4>1, TurnStartedKeeps
    <3>. QED
      BY <1>1, <2>8, <3>1 DEF TurnStarted, BoardFails
  <2>9. CASE SnapshotRead(line)
    <3>1. call.method = "thread/read" /\ Starts = {}
      BY <2>9 DEF SnapshotRead, Begun
    <3>2. CASE /\ line.body \in {"answered", "ok"}
               /\ \E items \in Snapshots :
                    LET at == SelectFinalAgentMessage(items) IN
                    IF at = 0 THEN GiveUp /\ UNCHANGED <<nextId, inbox>>
                    ELSE IF kind = "team" \/ ParseReply(items[at].says) THEN Succeed(items)
                    ELSE Correct
      <4>1. PICK items \in Snapshots :
                    LET at == SelectFinalAgentMessage(items) IN
                    IF at = 0 THEN GiveUp /\ UNCHANGED <<nextId, inbox>>
                    ELSE IF kind = "team" \/ ParseReply(items[at].says) THEN Succeed(items)
                    ELSE Correct
        BY <3>2
      <4>2. kind = "lead" => turns[call.turn] = "answered"
        <5> SUFFICES ASSUME kind = "lead" PROVE turns[call.turn] = "answered"
          OBVIOUS
        <5>1. call.turn = turn /\ turn # Foreign
          BY <3>1 DEF Begun
        <5>2. /\ call.turn \in DOMAIN turns /\ line.body \in {turns[call.turn], "error"}
              /\ turns \in Seq(Status)
          BY <2>1, <3>1, <5>1 DEF Asked, TypeOK, TransportTypeOK
        <5>3. turns[call.turn] \in Status
          BY <5>2
        <5>. QED
          BY <3>2, <5>2, <5>3 DEF Status
      <4>3. CASE SelectFinalAgentMessage(items) = 0
        BY <1>1, <4>1, <4>3
      <4>4. CASE /\ SelectFinalAgentMessage(items) # 0
                 /\ kind = "team" \/ ParseReply(items[SelectFinalAgentMessage(items)].says)
        <5>1. Succeed(items)
          BY <4>1, <4>4
        <5>. QED
          BY <2>2, <3>1, <4>2, <4>4, <5>1, SucceedKeeps
      <4>5. CASE Correct
        <5>1. CASE /\ Len(turns) < MaxTurns /\ Send("turn/start", Foreign) /\ corrected' = TRUE
                   /\ UNCHANGED <<kind, turn, events, rounds, reply, message, outcome,
                                  binding, unmarked>>
          BY <2>2, <2>4, <2>5, <3>1, <5>1, SendKeeps
        <5>. QED
          BY <1>1, <2>3, <4>5, <5>1 DEF Correct
      <4>. QED
        BY <4>1, <4>3, <4>4, <4>5
    <3>. QED
      BY <1>1, <2>9, <3>2 DEF SnapshotRead, ArtifactsMissing
  <2>. QED
    BY <2>1, <2>6, <2>7, <2>8, <2>9
<1>. QED
  BY <1>2, <1>3

\* One line of the loop of `request`.
LEMMA ReceiveKeeps ==
  ASSUME IInv, ReceiveWhileCalling
  PROVE  IInv'
<1> USE DEF IInv
<1> DEFINE line == Head(channel)
<1>1. /\ phase = "calling" /\ channel # <<>> /\ channel' = Tail(channel)
      /\ UNCHANGED <<pipe, reader, owed, turns, open, lines>>
  BY DEF ReceiveWhileCalling, Silent
<1>2. UNCHANGED <<pending, overflowed>> =>
        /\ line \in Mail /\ line \in Line /\ ReadTyped'
        /\ Mail' \subseteq Mail /\ Mail \subseteq Mail' \union {line}
  BY <1>1, Received
<1>3. CASE Correlates(line, call) /\ ReplyTo(line) /\ UNCHANGED <<pending, overflowed>>
  BY <1>1, <1>2, <1>3, ReplyKeeps
<1>4. CASE /\ ~Correlates(line, call) /\ Keep(line)
           /\ UNCHANGED <<child, nextId, inbox, progress>>
  <2>1. /\ ReadTyped' /\ Mail' \subseteq Mail
        /\ overflowed' \/ (~overflowed /\ Mail' = Mail)
    BY <1>1, <1>4, KeptLine
  <2>2. UNCHANGED <<progress, child, reader, nextId, server>>
    BY <1>1, <1>4 DEF server
  <2>3. overflowed' \/ (~overflowed /\ Spared)
    BY <2>1 DEF Spared
  <2>. QED
    BY <1>1, <2>1, <2>2, <2>3, ListenKeeps
<1>5. CASE /\ ~Correlates(line, call) /\ line.kind = "reply"
           /\ UNCHANGED <<pending, overflowed, child, nextId, inbox, progress>>
  <2>1. Spared /\ overflowed \in BOOLEAN
    BY <1>2, <1>5 DEF Spared, TypeOK, TransportTypeOK
  <2>2. UNCHANGED <<progress, child, reader, nextId, server>>
    BY <1>1, <1>5 DEF server
  <2>. QED
    BY <1>1, <1>2, <1>5, <2>1, <2>2, ListenKeeps
<1>6. CASE line.kind = "junk" /\ GiveUp /\ UNCHANGED <<pending, overflowed, nextId, inbox>>
  <2>1. UNCHANGED <<nextId, reader, server>>
    BY <1>1, <1>6 DEF server
  <2>. QED
    BY <1>1, <1>2, <1>6, <2>1, GiveUpKeeps DEF Waiting
<1>. QED
  BY <1>3, <1>4, <1>5, <1>6 DEF ReceiveWhileCalling

\* Taking the next event.
LEMMA EventTaken ==
  ASSUME TypeOK, HasEvent, TakeEvent, UNCHANGED <<pipe, overflowed>>
  PROVE  /\ Event \in Mail /\ Event \in Line /\ ReadTyped'
         /\ Mail' \subseteq Mail /\ Mail \subseteq Mail' \union {Event}
<1>1. CASE pending # <<>>
  <2>1. pending \in Seq(Line) /\ Len(pending) <= Capacity
    BY DEF TypeOK, TransportTypeOK
  <2>2. Event = Head(pending) /\ pending' = Tail(pending) /\ UNCHANGED channel
    BY <1>1 DEF Event, TakeEvent
  <2>3. /\ Head(pending) \in Line /\ pending' \in Seq(Line)
        /\ Len(pending') = Len(pending) - 1 /\ Len(pending) \in Nat
        /\ Range(pending) = Range(pending') \union {Head(pending)}
    BY <1>1, <2>1, <2>2, Taken
  <2>. QED
    BY <2>1, <2>2, <2>3, CapacityAssumption DEF TypeOK, TransportTypeOK, ReadTyped, Mail
<1>2. CASE pending = <<>>
  <2>1. channel # <<>> /\ Event = Head(channel) /\ channel' = Tail(channel) /\ UNCHANGED pending
    BY <1>2 DEF HasEvent, Event, TakeEvent
  <2>. QED
    BY <2>1, Received
<1>. QED
  BY <1>1, <1>2

\* One event of the pump.
LEMMA PumpEventKeeps ==
  ASSUME IInv, PumpEvent
  PROVE  IInv'
<1> USE DEF IInv
<1> DEFINE line == Event
<1>1. /\ phase = "pumping" /\ events > 0 /\ HasEvent /\ TakeEvent
      /\ UNCHANGED <<pipe, reader, overflowed, owed, turns, open, lines>>
  BY DEF PumpEvent
<1>2. /\ line \in Mail /\ line \in Line /\ ReadTyped'
      /\ Mail' \subseteq Mail /\ Mail \subseteq Mail' \union {line}
  BY <1>1, EventTaken
<1> HIDE DEF line
<1>3. (GiveUp /\ UNCHANGED <<nextId, inbox>>) => IInv'
  <2> SUFFICES ASSUME GiveUp, UNCHANGED <<nextId, inbox>>
               PROVE  IInv'
    OBVIOUS
  <2>1. UNCHANGED <<nextId, reader, server>>
    BY <1>1 DEF server
  <2>. QED
    BY <1>1, <1>2, <2>1, GiveUpKeeps DEF Waiting
<1>4. CannotSend => IInv'
  BY <1>3 DEF CannotSend
<1>5. CASE /\ line.kind = "done" /\ IsMine(line) /\ Send("thread/read", line.turn)
           /\ UNCHANGED <<kind, turn, events, corrected, rounds, reply, message, outcome,
                          binding, unmarked>>
  <2>1. line.turn \in Turns \union {Foreign} /\ "thread/read" \in Methods
    BY <1>2 DEF Line, Methods
  <2>2. line.turn # Foreign => line.turn \in DOMAIN turns /\ turns[line.turn] # "active"
    BY <1>2, <1>5 DEF Truthful
  <2>3. Starts = {} /\ turn = Len(turns) /\ turn # Foreign
    BY <1>1 DEF Begun
  <2>4. line.turn <= turn
    <3>1. turns \in Seq(Status) /\ Len(turns) \in Nat
      BY DEF TypeOK, TransportTypeOK
    <3>. QED
      BY <2>2, <2>3, <3>1 DEF Foreign
  <2>5. Spared
    BY <1>2, <1>5, <2>4 DEF Spared
  <2>6. kind = "lead" => line.turn = turn
    BY <1>5 DEF IsMine
  <2>7. /\ corrected' \in BOOLEAN /\ events' \in 0 .. MaxEvents /\ rounds' \in 0 .. MaxRounds
        /\ outcome' \in {"none", "ok", "err"}
        /\ binding' \in {"none", "starting", "running", "completed", "failed"}
        /\ kind = "team" => binding' \in UnderWay /\ binding' = "running"
        /\ phase \in Live
    BY <1>1, <1>5 DEF TypeOK, Lived, Live, Waiting
  <2>. QED
    BY <1>1, <1>2, <1>5, <2>1, <2>2, <2>3, <2>5, <2>6, <2>7, SendKeeps
<1>6. CASE /\ Answers(line) /\ inbox' = Append(inbox, Answer(line.id))
           /\ Pumped /\ UNCHANGED <<child, nextId>>
  <2>1. line.kind = "ask"
    BY <1>6 DEF Answers
  <2>. QED
    BY <1>1, <1>2, <1>6, <2>1, PumpedKeeps
<1>7. CASE Skips(line) /\ Pumped /\ UNCHANGED <<child, nextId, inbox>>
  <2>1. \/ line.kind = "note"
        \/ line.kind = "done" /\ kind = "lead" /\ line.turn # turn
        \/ line.kind = "ask" /\ kind = "team"
    BY <1>7 DEF Skips, IsMine, TypeOK
  <2>. QED
    BY <1>1, <1>2, <1>7, <2>1, PumpedKeeps
<1>. QED
  BY <1>3, <1>4, <1>5, <1>6, <1>7 DEF PumpEvent, line

\* The pump has taken its events, or a read ends without a line.
LEMMA NoLineKeeps ==
  ASSUME IInv, PumpExhausted \/ Disconnected \/ Expired
  PROVE  IInv'
<1>1. /\ GiveUp /\ phase \in Waiting \union {"expiring"}
      /\ UNCHANGED <<pipe, reader, channel, pending, overflowed, nextId, server>>
  BY DEF PumpExhausted, Disconnected, Expired, NothingToRead, Waiting
<1>2. ReadTyped' /\ Mail' = Mail
  BY <1>1, LinesAlone DEF IInv
<1>. QED
  BY <1>1, <1>2, GiveUpKeeps

-----------------------------------------------------------------------------
(* Theorems.                                                               *)

\* The invariant holds at the start,
LEMMA InitInvariant ==
  ASSUME Init
  PROVE  IInv
<1> USE DEF Init, TransportInit
<1>1. Nothing.id = 0 /\ Nothing.method = "none"
  BY DEF Nothing, Request
<1>2. Mail = {} /\ Starts = {} /\ DOMAIN inbox = {} /\ Len(turns) = 0 /\ DOMAIN turns = {}
  BY DEF Mail, Starts, Range
<1>3. TypeOK
  <2>1. /\ call \in [id : Nat, method : Methods \union {"none"}, turn : Turns \union {Foreign}]
        /\ owed \in [id : Nat, method : Methods \union {"none"}, turn : Turns \union {Foreign}]
    BY DEF Nothing, Request, Foreign
  <2>2. TransportTypeOK
    <3>1. /\ pipe \in Seq(Line) /\ channel \in Seq(Line) /\ pending \in Seq(Line)
          /\ turns \in Seq(Status)
          /\ inbox \in Seq([id : Nat, method : Methods \union {"answer"}, turn : Turns \union {Foreign}])
      BY EmptySeq
    <3>2. Len(channel) <= Capacity /\ Len(pending) <= Capacity /\ Len(turns) <= MaxTurns
      BY CapacityAssumption, BoundsAssumption
    <3>3. lines \in 0 .. MaxLines
      BY BoundsAssumption
    <3>. QED
      BY <2>1, <3>1, <3>2, <3>3 DEF TransportTypeOK
  <2>3. message \in [items : Snapshots \union {<<>>}, at : Nat]
    OBVIOUS
  <2>4. events \in 0 .. MaxEvents /\ rounds \in 0 .. MaxRounds
    BY EventsAssumption
  <2>. QED
    BY <2>1, <2>2, <2>3, <2>4 DEF TypeOK, Phases, Foreign
<1>4. Lived
  BY <1>1 DEF Lived, Waiting, NothingOutlivesClose, BindingTellsTheOutcome
<1>5. Numbered
  BY <1>1, <1>2 DEF Numbered, ReadsTurn
<1>6. Asked
  BY DEF Asked
<1>7. Begun
  BY <1>1, <1>2 DEF Begun, Foreign
<1>8. Truthful /\ Kept
  BY <1>2 DEF Truthful, Kept
<1>9. LeadReadsItsOwnTurn
  BY <1>1 DEF LeadReadsItsOwnTurn
<1>. QED
  BY <1>3, <1>4, <1>5, <1>6, <1>7, <1>8, <1>9 DEF IInv

\* ... and every step keeps it.
LEMMA NextInvariant ==
  ASSUME IInv, [Next]_vars
  PROVE  IInv'
<1>1. CASE Client
  <2>1. CASE Spawn
    BY <2>1, SpawnKeeps
  <2>2. CASE NextRound
    BY <2>2, NextRoundKeeps
  <2>3. CASE Converse
    BY <2>3, ReceiveKeeps, PumpEventKeeps, NoLineKeeps DEF Converse
  <2>4. CASE End
    BY <2>4, StopKeeps, NoLineKeeps DEF End
  <2>. QED
    BY <1>1, <2>1, <2>2, <2>3, <2>4 DEF Client
<1>2. CASE ReaderThread
  BY <1>2, ReaderKeeps
<1>3. CASE AppServer
  <2>1. UNCHANGED progress /\ Server
    BY <1>3 DEF AppServer
  <2>. QED
    BY <2>1, ServerReadsKeeps, ServerRepliesKeeps, ServerCompletesKeeps, ServerSaysKeeps,
       ServerExitsKeeps DEF Server
<1>4. CASE UNCHANGED vars
  <2>1. UNCHANGED <<child, pipe, reader, channel, pending, overflowed, nextId,
                    inbox, owed, turns, open, lines, kind, phase, call, turn, events,
                    corrected, rounds, reply, message, outcome, binding, unmarked>>
    BY <1>4 DEF vars, transport, server, progress
  <2>2. Mail' = Mail /\ Starts' = Starts
    BY <2>1 DEF Mail, Starts
  <2>3. TypeOK'
    BY <2>1 DEF IInv, TypeOK, TransportTypeOK
  <2>4. Lived' /\ Numbered'
    BY <2>1, <2>2 DEF IInv, Lived, Numbered, ReadsTurn, NothingOutlivesClose, BindingTellsTheOutcome
  <2>5. Asked' /\ Begun'
    BY <2>1, <2>2 DEF IInv, Asked, Begun, Begins
  <2>6. Truthful' /\ Kept'
    BY <2>1, <2>2 DEF IInv, Truthful, Kept, Ahead, Live, Waiting
  <2>7. LeadReadsItsOwnTurn'
    BY <2>1 DEF IInv, LeadReadsItsOwnTurn
  <2>. QED
    BY <2>3, <2>4, <2>5, <2>6, <2>7 DEF IInv
<1>. QED
  BY <1>1, <1>2, <1>3, <1>4 DEF Next

\* The types and the invariant, in every reachable state.
THEOREM CodexInvariant == Spec => [](TypeOK /\ IInv)
<1>1. IInv => TypeOK
  BY DEF IInv
<1>2. Init => IInv
  BY InitInvariant
<1>3. IInv /\ [Next]_vars => IInv'
  BY NextInvariant
<1>. QED
  BY <1>1, <1>2, <1>3, PTL DEF Spec

\* What is on its way to the client, in one sequence or as a set of lines.
LEMMA ComingIsMail ==
  ASSUME TypeOK, NEW line \in Mail
  PROVE  Coming(line)
<1>1. pending \in Seq(Line) /\ channel \in Seq(Line) /\ pipe \in Seq(Line)
  BY DEF TypeOK, TransportTypeOK
<1>2. pending \o channel \in Seq(Line)
  BY <1>1
<1>3. Range(pending \o channel) = Range(pending) \union Range(channel)
  BY <1>1, RangeConcatenation
<1>4. Range(OnTheWay) = Range(pending \o channel) \union Range(pipe)
  <2> DEFINE front == pending \o channel
  <2>1. OnTheWay = front \o pipe
    BY DEF OnTheWay
  <2>2. front \in Seq(Line)
    BY <1>2
  <2> HIDE DEF front
  <2>3. Range(front \o pipe) = Range(front) \union Range(pipe)
    BY <1>1, <2>2, RangeConcatenation
  <2>4. Range(OnTheWay) = Range(front) \union Range(pipe)
    BY <2>1, <2>3
  <2>. QED
    BY <2>4 DEF front
<1>5. line \in Range(OnTheWay)
  BY <1>3, <1>4 DEF Mail
<1>. QED
  BY <1>5 DEF Coming, Range

\* The Lead ends a round on the final message of the turn that round started,
\* whatever the server completes meanwhile, and what it hands to the loop is a
\* decision (codex_lead.rs:494-503, codex_app_server.rs:536-590).
THEOREM LeadReadsOwn == Spec => []LeadReadsItsOwnTurn
<1>1. IInv => LeadReadsItsOwnTurn
  BY DEF IInv
<1>. QED
  BY <1>1, CodexInvariant, PTL

\* What arrives among the replies to other requests is kept for the pump: no
\* completion of the turn and no request of the server is lost, unless the
\* queue of kept lines has overflowed (codex_app_server.rs:420-435).
THEOREM SwallowsNothing == Spec => []NothingIsSwallowed
<1>1. IInv => NothingIsSwallowed
  <2> SUFFICES ASSUME IInv PROVE NothingIsSwallowed
    OBVIOUS
  <2> USE DEF IInv
  <2>1. CompletionIsKept
    <3> SUFFICES ASSUME phase = "pumping", turns[turn] # "active", ~overflowed
                 PROVE  Coming(Completed(turn))
      BY DEF CompletionIsKept
    <3>1. turn \in DOMAIN turns
      <4>1. turns \in Seq(Status) /\ turn = Len(turns) /\ turn # 0 /\ Len(turns) \in Nat
        BY DEF Begun, Foreign, TypeOK, TransportTypeOK
      <4>. QED
        BY <4>1
    <3>2. Completed(turn) \in Mail
      BY <3>1 DEF Kept, Ahead, Live, Waiting
    <3>. QED
      BY <3>2, ComingIsMail
  <2>2. LeadSwallowsNoRequest
    <3> SUFFICES ASSUME kind = "lead", phase \in Waiting, ~overflowed, NEW id \in open
                 PROVE  \/ \E what \in Asks : Coming(Ask(id, what))
                        \/ \E i \in DOMAIN inbox : inbox[i] = Answer(id)
      BY DEF LeadSwallowsNoRequest
    <3>1. (\E what \in Asks : Ask(id, what) \in Mail) \/ Answer(id) \in Range(inbox)
      BY DEF Kept, Live
    <3>2. Answer(id) \in Range(inbox) => \E i \in DOMAIN inbox : inbox[i] = Answer(id)
      BY DEF Range
    <3>. QED
      BY <3>1, <3>2, ComingIsMail
  <2>. QED
    BY <2>1, <2>2 DEF NothingIsSwallowed
<1>. QED
  BY <1>1, CodexInvariant, PTL

\* The driver's binding tells how the task ended and is final before the
\* process is given up, whichever call of the task failed, its board's too;
\* only when the marking itself fails (codex_team_driver.rs:229-236) does the
\* row stay as it was, and then it tells no outcome.
THEOREM BindingTells == Spec => []BindingTellsTheOutcome
<1>1. IInv => BindingTellsTheOutcome
  BY DEF IInv, Lived
<1>. QED
  BY <1>1, CodexInvariant, PTL

\* A closed client leaves no process and no reader thread behind
\* (codex_app_server.rs:378-401).
THEOREM NothingOutlives == Spec => []NothingOutlivesClose
<1>1. IInv => NothingOutlivesClose
  BY DEF IInv, Lived
<1>. QED
  BY <1>1, CodexInvariant, PTL
=============================================================================
