--------------------------- MODULE RuntimeEvents ---------------------------
(***************************************************************************)
(* Normalized observations of an external runtime (team/runtime_event.rs)  *)
(* and their way through the dispatcher (runtime/runtime_event.rs): cut to *)
(* size, shown to a live observer, and written to the journal if durable.  *)
(*                                                                         *)
(* A text is [len, cost]: its bytes, and the bytes JSON needs for each.    *)
(* An event is [kind, text, items]: items are what it lists, the steps of  *)
(* a plan or the options of a permission.                                  *)
(***************************************************************************)
EXTENDS Naturals, Sequences, SequencesExt

CONSTANTS
  MaxText,      \* MAX_ASSISTANT_MESSAGE_BYTES and its like
  MaxItems,     \* MAX_PLAN_ITEMS, MAX_PERMISSION_OPTIONS
  MaxPayload,   \* MAX_DURABLE_RUNTIME_PAYLOAD_BYTES
  Envelope      \* JSON bytes of a record around its event

ASSUME EventAssumption == {MaxText, MaxItems, MaxPayload, Envelope} \subseteq Nat

Text == [len : Nat, cost : Nat]

LiveOnly == {"assistant_message_delta", "tool_call_updated", "command_started"}
Durable(e) == e.kind \notin LiveOnly

\* Cut at a character boundary, with a marker that counts.
Truncate(x) == IF x.len <= MaxText THEN x ELSE [x EXCEPT !.len = MaxText]

Json(x) == x.len * x.cost
Size(e) ==
  LET upto[n \in 0 .. Len(e.items)] ==
        IF n = 0 THEN Json(e.text) ELSE upto[n - 1] + Json(e.items[n])
  IN upto[Len(e.items)]

\* Mutant: an item is dropped before the size is looked at.
DropFirst(e, room) ==
  LET keep == {n \in 0 .. Len(e.items) :
                 /\ n = 0 \/ n < Len(e.items)
                 /\ Size([e EXCEPT !.items = SubSeq(@, 1, n)]) <= room}
  IN [e EXCEPT !.items =
        IF keep = {} THEN <<>> ELSE SubSeq(@, 1, CHOOSE n \in keep : \A k \in keep : k <= n)]

\* Only what is listed gives way, from its tail.
DropTail(e, room) ==
  LET keep == {n \in 0 .. Len(e.items) : Size([e EXCEPT !.items = SubSeq(@, 1, n)]) <= room}
  IN [e EXCEPT !.items =
        IF keep = {} THEN <<>> ELSE SubSeq(@, 1, CHOOSE n \in keep : \A k \in keep : k <= n)]

\* The fields are bounded one by one, then the event as a whole.
BoundedFields(e) ==
  [e EXCEPT !.text = Truncate(@),
            !.items = [i \in 1 .. (IF Len(@) < MaxItems THEN Len(@) ELSE MaxItems) |->
                         Truncate(@[i])]]
BoundedEvent(e) == DropTail(BoundedFields(e), MaxPayload)

\* A record is bounded again with its envelope.
Bounded(e) ==
  DropTail(BoundedEvent(e), IF Envelope < MaxPayload THEN MaxPayload - Envelope ELSE 0)

\* The journal bounds what the dispatcher has bounded, and refuses what still
\* does not fit.
Stored(e) == Bounded(Bounded(e))
TooLarge(e) == Size(Stored(e)) + Envelope > MaxPayload
=============================================================================
