-------------------------- MODULE BoardStoreProofs --------------------------
(***************************************************************************)
(* Proofs about BoardStore, for every set of connections, attempts and     *)
(* request ids, any query limit and any bounds.                            *)
(***************************************************************************)
EXTENDS BoardStore, WellFoundedInduction, FiniteSetTheorems, SequenceTheorems, TLAPS

-----------------------------------------------------------------------------
(* The rows of an attempt.                                                 *)

\* Those of them up to one of the journal.
RowsUpTo(k, i) == {j \in RowsOf(k) : j <= i}

\* A row is well typed.
LEMMA RowType ==
  ASSUME StoreTypeOK, NEW i \in DOMAIN journal
  PROVE  /\ i \in 1 .. Len(journal) /\ Len(journal) \in Nat
         /\ journal[i].attempt \in Attempt /\ journal[i].sequence \in Nat /\ journal[i].at \in Nat
<1>1. journal \in Seq([attempt : Attempt, sequence : Nat, at : Nat])
  BY DEF StoreTypeOK
<1>2. i \in 1 .. Len(journal) /\ Len(journal) \in Nat
  BY <1>1
<1>3. journal[i] \in [attempt : Attempt, sequence : Nat, at : Nat]
  BY <1>1, <1>2, ElementOfSeq
<1>. QED
  BY <1>2, <1>3

\* They can be counted.
LEMMA RowsAreFinite ==
  ASSUME StoreTypeOK, NEW k, NEW i
  PROVE  /\ IsFiniteSet(RowsOf(k)) /\ Cardinality(RowsOf(k)) \in Nat
         /\ IsFiniteSet(RowsUpTo(k, i)) /\ Cardinality(RowsUpTo(k, i)) \in Nat
<1>1. IsFiniteSet(1 .. Len(journal)) /\ DOMAIN journal = 1 .. Len(journal)
  BY FS_Interval DEF StoreTypeOK
<1>2. RowsOf(k) \in SUBSET (1 .. Len(journal)) /\ RowsUpTo(k, i) \in SUBSET (1 .. Len(journal))
  BY <1>1 DEF RowsOf, RowsUpTo
<1>3. IsFiniteSet(RowsOf(k)) /\ IsFiniteSet(RowsUpTo(k, i))
  BY <1>1, <1>2, FS_Subset
<1>. QED
  BY <1>3, FS_CardinalityType

\* Two events of an attempt are numbered as they lie, and none beyond their
\* number.
LEMMA SequencesRise ==
  ASSUME StoreTypeOK, EventsAreSequenced, NEW k, NEW i \in RowsOf(k)
  PROVE  /\ i \in 1 .. Len(journal) /\ journal[i].sequence \in Nat
         /\ journal[i].sequence <= Cardinality(RowsOf(k))
         /\ \A j \in RowsOf(k) : i < j => journal[i].sequence < journal[j].sequence
<1>1. ASSUME NEW j \in RowsOf(k)
      PROVE  /\ j \in 1 .. Len(journal) /\ journal[j].sequence \in Nat
             /\ journal[j].sequence = Cardinality(RowsUpTo(k, j))
  <2>1. j \in DOMAIN journal /\ journal[j].attempt = k
    BY DEF RowsOf
  <2>2. j \in 1 .. Len(journal) /\ journal[j].sequence \in Nat
    BY <2>1, RowType
  <2>3. journal[j].sequence = Cardinality({h \in RowsOf(k) : h <= j})
    BY <2>1 DEF EventsAreSequenced
  <2>. QED
    BY <2>2, <2>3 DEF RowsUpTo
<1>2. journal[i].sequence <= Cardinality(RowsOf(k))
  <2>1. RowsUpTo(k, i) \in SUBSET RowsOf(k)
    BY DEF RowsUpTo
  <2>. QED
    BY <1>1, <2>1, RowsAreFinite, FS_Subset
<1>3. ASSUME NEW j \in RowsOf(k), i < j PROVE journal[i].sequence < journal[j].sequence
  <2>. RowsOf(k) \in SUBSET Nat /\ i \in Nat /\ j \in Nat
    BY <1>1
  <2>1. RowsUpTo(k, i) \in SUBSET RowsUpTo(k, j)
    BY <1>3 DEF RowsUpTo
  <2>2. j \in RowsUpTo(k, j) /\ j \notin RowsUpTo(k, i)
    BY <1>3 DEF RowsUpTo
  <2>3. /\ Cardinality(RowsUpTo(k, i)) <= Cardinality(RowsUpTo(k, j))
        /\ Cardinality(RowsUpTo(k, i)) # Cardinality(RowsUpTo(k, j))
    BY <2>1, <2>2, RowsAreFinite, FS_Subset
  <2>4. Cardinality(RowsUpTo(k, i)) \in Nat /\ Cardinality(RowsUpTo(k, j)) \in Nat
    BY RowsAreFinite
  <2>. QED
    BY <1>1, <2>3, <2>4
<1>. QED
  BY <1>1, <1>2, <1>3

\* Of positive naturals with a bound, one is the greatest.
LEMMA GreatestBelow ==
  ASSUME NEW n \in Nat, NEW S, S # {}, \A i \in S : i \in 1 .. n
  PROVE  \E k \in S : \A j \in S : j <= k
<1> DEFINE R == OpToRel(<, Nat)
           gaps == {n - i : i \in S}
<1>1. gaps \in SUBSET Nat /\ gaps # {}
  OBVIOUS
<1>2. PICK g \in gaps : \A h \in gaps : ~ (<<h, g>> \in R)
  <2> HIDE DEF gaps, R
  <2>1. IsWellFoundedOn(R, Nat)
    BY NatLessThanWellFounded DEF R
  <2>. QED
    BY <1>1, <2>1, WFMin
<1>3. PICK k \in S : g = n - k
  OBVIOUS
<1>4. ASSUME NEW j \in S PROVE j <= k
  <2>1. ~ (n - j < n - k)
    BY <1>1, <1>2, <1>3 DEF OpToRel
  <2>. QED
    BY <2>1
<1>. QED
  BY <1>4

\* A poll's new cursor is the sequence of a row that it has seen, and no row it
\* has seen is above it; the cursor stays if there is none above it.
LEMMA HighestIs ==
  ASSUME StoreTypeOK, EventsAreSequenced, NEW k \in Attempt
  PROVE  /\ Above(k) = {} => Highest(k) = cursor[k]
         /\ Above(k) # {} => \E i \in Above(k) : Highest(k) = journal[i].sequence
         /\ \A i \in Above(k) : journal[i].sequence <= Highest(k)
<1>1. Above(k) = {} => Highest(k) = cursor[k]
  BY DEF Highest
<1>2. ASSUME Above(k) # {}
      PROVE  /\ \E i \in Above(k) : Highest(k) = journal[i].sequence
             /\ \A i \in Above(k) : journal[i].sequence <= Highest(k)
  <2>1. \A i \in Above(k) : i \in RowsOf(k)
    BY DEF Above
  <2>2. \A i \in Above(k) : i \in 1 .. Len(journal)
    BY <2>1, SequencesRise
  <2>3. Len(journal) \in Nat
    BY DEF StoreTypeOK
  <2>4. PICK g \in Above(k) : \A i \in Above(k) : i <= g
    BY <1>2, <2>2, <2>3, GreatestBelow
  <2>5. ASSUME NEW i \in Above(k) PROVE journal[i].sequence <= journal[g].sequence
    <3>1. i \in RowsOf(k) /\ g \in RowsOf(k) /\ i <= g
      BY <2>1, <2>4
    <3>2. /\ journal[i].sequence \in Nat /\ i \in Nat /\ g \in Nat
          /\ i < g => journal[i].sequence < journal[g].sequence
      BY <3>1, SequencesRise
    <3>3. journal[g].sequence \in Nat
      BY <3>1, SequencesRise
    <3>. QED
      BY <3>1, <3>2, <3>3
  <2>6. \E s \in {journal[i].sequence : i \in Above(k)} :
          \A i \in Above(k) : journal[i].sequence <= s
    BY <2>5
  <2>. QED
    BY <1>2, <2>6 DEF Highest
<1>. QED
  BY <1>1, <1>2

-----------------------------------------------------------------------------
(* Types.                                                                  *)

\* The types are kept, whoever takes a step.
LEMMA TypeStep ==
  ASSUME StoreTypeOK, EventsAreSequenced, [Next]_vars
  PROVE  StoreTypeOK'
<1> USE StoreAssumption
<1>1. ASSUME NEW c \in Conn, StartJob(c) PROVE StoreTypeOK'
  <2>1. job' \in [Conn -> Job]
    BY <1>1 DEF StoreTypeOK, StartJob
  <2>2. key' \in [Conn -> Attempt]
    BY <1>1 DEF StoreTypeOK, StartJob
  <2>3. call' \in [Conn -> Call]
    <3>1. call' = call \/ \E n \in Call : call' = [call EXCEPT ![c] = n]
      BY <1>1 DEF StartJob
    <3>. QED
      BY <3>1 DEF StoreTypeOK
  <2>. QED
    BY <1>1, <2>1, <2>2, <2>3 DEF StoreTypeOK, StartJob, Goto, tables, observer
<1>2. ASSUME NEW c \in Conn, Open(c) PROVE StoreTypeOK'
  <2>1. /\ lock' \in [Conn -> {"none", "shared", "reserved", "pending"}]
        /\ pc' \in [Conn -> {"idle", "open", "migrate", "upgrade", "migrated", "begin", "append",
                             "check", "replace", "commit"}]
    BY <1>2 DEF StoreTypeOK, Open, Opened, Entry, Goto
  <2>2. stamp' \in [Conn -> Nat]
    BY <1>2 DEF StoreTypeOK, Open, Opened
  <2>. QED
    BY <1>2, <2>1, <2>2 DEF StoreTypeOK, Open, tables, counters, observer
<1>3. ASSUME NEW c \in Conn, MigrateReads(c) \/ CheckRoot(c) PROVE StoreTypeOK'
  BY <1>3 DEF StoreTypeOK, MigrateReads, CheckRoot, Read, Goto, tables, counters, observer
<1>4. ASSUME NEW c \in Conn, MigrateWrites(c) \/ ReplaceRefs(c) PROVE StoreTypeOK'
  BY <1>4 DEF StoreTypeOK, MigrateWrites, ReplaceRefs, Upgrade, Goto, End, tables, counters, observer
<1>5. ASSUME NEW c \in Conn, MigrateCommits(c) PROVE StoreTypeOK'
  <2>1. artifacts' \in Seq(Owner)
    BY <1>5 DEF StoreTypeOK, MigrateCommits, Rebuild, Owner
  <2>. QED
    BY <1>5, <2>1 DEF StoreTypeOK, MigrateCommits, Opened, Entry, Goto, counters, observer
<1>6. ASSUME NEW c \in Conn, Begin(c) PROVE StoreTypeOK'
  <2>1. Cardinality(RowsOf(key[c])) \in Nat
    BY RowsAreFinite
  <2>2. next' \in [Conn -> Nat]
    BY <1>6, <2>1 DEF StoreTypeOK, Begin, ReadNext
  <2>. QED
    BY <1>6, <2>2 DEF StoreTypeOK, Begin, Goto, tables, counters, observer
<1>7. ASSUME NEW c \in Conn, AppendEvent(c) PROVE StoreTypeOK'
  BY <1>7 DEF StoreTypeOK, AppendEvent, Goto, End, tables, counters, observer
<1>8. ASSUME NEW c \in Conn, Pend(c) PROVE StoreTypeOK'
  BY <1>8 DEF StoreTypeOK, Pend, tables, local, counters, observer
<1>9. ASSUME NEW c \in Conn, Commit(c) PROVE StoreTypeOK'
  <2>1. requests' \in Seq([attempt : Attempt, call : Call])
    <3>1. [attempt |-> key[c], call |-> call[c]] \in [attempt : Attempt, call : Call]
      BY DEF StoreTypeOK
    <3>2. /\ requests \in Seq([attempt : Attempt, call : Call])
          /\ Append(requests, [attempt |-> key[c], call |-> call[c]])
               \in Seq([attempt : Attempt, call : Call])
      BY <3>1, AppendProperties DEF StoreTypeOK
    <3>3. \/ requests' = requests
          \/ requests' = Append(requests, [attempt |-> key[c], call |-> call[c]])
      BY <1>9 DEF Commit, RecordRequest
    <3>. QED
      BY <3>2, <3>3
  <2>2. journal' \in Seq([attempt : Attempt, sequence : Nat, at : Nat]) /\ unseen' \in Nat
    <3>1. [attempt |-> key[c], sequence |-> next[c], at |-> stamp[c]]
            \in [attempt : Attempt, sequence : Nat, at : Nat]
      BY DEF StoreTypeOK
    <3>2. /\ journal \in Seq([attempt : Attempt, sequence : Nat, at : Nat])
          /\ Append(journal, [attempt |-> key[c], sequence |-> next[c], at |-> stamp[c]])
               \in Seq([attempt : Attempt, sequence : Nat, at : Nat])
      BY <3>1, AppendProperties DEF StoreTypeOK
    <3>3. /\ \/ journal' = journal
             \/ journal' =
                  Append(journal, [attempt |-> key[c], sequence |-> next[c], at |-> stamp[c]])
          /\ unseen' = unseen \/ unseen' = unseen + 1
      BY <1>9 DEF Commit
    <3>4. unseen' \in Nat
      BY <3>3 DEF StoreTypeOK
    <3>. QED
      BY <3>2, <3>3, <3>4
  <2>3. artifacts' \in Seq(Owner) /\ attempts' \subseteq Attempt
    <3>1. artifacts \in Seq(Owner) /\ Append(artifacts, "task") \in Seq(Owner)
      BY AppendProperties DEF StoreTypeOK, Owner
    <3>2. artifacts' = artifacts \/ artifacts' = Append(artifacts, "task")
      BY <1>9 DEF Commit
    <3>3. attempts' \subseteq Attempt
      BY <1>9 DEF StoreTypeOK, Commit
    <3>. QED
      BY <3>1, <3>2, <3>3
  <2>4. /\ lock' \in [Conn -> {"none", "shared", "reserved", "pending"}]
        /\ pc' \in [Conn -> {"idle", "open", "migrate", "upgrade", "migrated", "begin", "append",
                             "check", "replace", "commit"}]
        /\ answer' \in [Conn -> {"none", "ok", "duplicate", "waited", "refused", "missing"}]
    BY <1>9 DEF StoreTypeOK, Commit, RecordRequest, Goto, End
  <2>. QED
    BY <1>9, <2>1, <2>2, <2>3, <2>4 DEF StoreTypeOK, Commit, counters
<1>10. ASSUME NEW c \in Conn, GiveUp(c) \/ Kill(c) PROVE StoreTypeOK'
  BY <1>10 DEF StoreTypeOK, GiveUp, Kill, Goto, End, tables, counters, observer
<1>11. CASE Poll
  <2>1. ASSUME NEW k \in Attempt PROVE Highest(k) \in Nat
    <3>1. Above(k) = {} => Highest(k) \in Nat
      BY HighestIs DEF StoreTypeOK
    <3>2. Above(k) # {} => Highest(k) \in Nat
      <4>1. \A i \in Above(k) : i \in DOMAIN journal
        BY DEF Above, Latest
      <4>. QED
        BY <4>1, HighestIs, RowType
    <3>. QED
      BY <3>1, <3>2
  <2>2. ASSUME NEW k \in Attempt PROVE {journal[i].sequence : i \in Prints(k)} \subseteq Nat
    BY RowType DEF Prints, Above, Latest
  <2>3. cursor' \in [Attempt -> Nat]
    BY <1>11, <2>1 DEF Poll
  <2>4. printed' \in [Attempt -> SUBSET Nat]
    BY <1>11, <2>2 DEF Poll, StoreTypeOK
  <2>. QED
    BY <1>11, <2>3, <2>4 DEF StoreTypeOK, Poll, tables, local, counters
<1>12. CASE Tick
  BY <1>12 DEF StoreTypeOK, Tick, tables, local, observer
<1>13. CASE UNCHANGED vars
  BY <1>13 DEF StoreTypeOK, vars, tables, local, counters, observer
<1>. QED
  BY <1>1, <1>2, <1>3, <1>4, <1>5, <1>6, <1>7, <1>8, <1>9, <1>10, <1>11, <1>12, <1>13 DEF Next, Work

-----------------------------------------------------------------------------
(* Locks.                                                                  *)

\* Reserved, whether or not the readers have left.
Writing(c) == lock[c] \in {"reserved", "pending"}

\* The place of a connection tells its lock, and the statement its job is at.
InPlace(c) ==
  /\ lock[c] = "shared" <=> pc[c] \in {"upgrade", "replace"}
  /\ Writing(c) <=> pc[c] \in {"append", "migrated", "commit"}
  /\ pc[c] \in {"check", "replace"} => job[c] = "refs"
  /\ pc[c] = "append" => job[c] = "event"

\* One connection writes at a time.
Locked ==
  /\ \A c, d \in Conn : Writing(c) /\ Writing(d) => c = d
  /\ \A c \in Conn : InPlace(c)

\* A step of one connection that reserves only when it may keeps the others out.
LEMMA OneMoves ==
  ASSUME Locked, NEW c \in Conn,
         \A d \in Conn : d # c => lock'[d] = lock[d] /\ pc'[d] = pc[d] /\ job'[d] = job[d],
         InPlace(c)', Writing(c)' => Writing(c) \/ Reservable(c)
  PROVE  Locked'
<1>1. ASSUME NEW d \in Conn PROVE InPlace(d)'
  BY DEF Locked, InPlace, Writing
<1>2. ASSUME NEW d \in Conn, d # c, Writing(c)', Writing(d)' PROVE FALSE
  BY <1>2 DEF Locked, Writing, Reservable, Others
<1>3. ASSUME NEW d \in Conn, NEW e \in Conn, d # c, e # c, Writing(d)', Writing(e)' PROVE d = e
  BY <1>3 DEF Locked, Writing
<1>. QED
  BY <1>1, <1>2, <1>3 DEF Locked

\* Every step is of that kind.
LEMMA LockStep ==
  ASSUME StoreTypeOK, Locked, [Next]_vars
  PROVE  Locked'
<1>1. ASSUME NEW c \in Conn, StartJob(c) \/ Work(c) \/ GiveUp(c) \/ Kill(c) PROVE Locked'
  <2>1. \A d \in Conn : d # c => lock'[d] = lock[d] /\ pc'[d] = pc[d]
    BY <1>1 DEF StoreTypeOK, StartJob, Work, Open, Opened, MigrateReads, MigrateWrites, MigrateCommits,
         Begin, AppendEvent, CheckRoot, ReplaceRefs, Pend, Commit, RecordRequest, GiveUp, Kill,
         Read, Upgrade, Goto, End, local
  <2>2. \A d \in Conn : d # c => job'[d] = job[d]
    BY <1>1 DEF StoreTypeOK, StartJob, Work, Open, MigrateReads, MigrateWrites, MigrateCommits,
         Begin, AppendEvent, CheckRoot, ReplaceRefs, Pend, Commit, GiveUp, Kill, Read, Upgrade, local
  <2>3. InPlace(c) /\ job[c] \in Job
    BY DEF Locked, StoreTypeOK
  <2>4. InPlace(c)'
    BY <1>1, <2>3 DEF StoreTypeOK, InPlace, Writing, Job,
         StartJob, Work, Open, Opened, Entry, MigrateReads, MigrateWrites, MigrateCommits,
         Begin, AppendEvent, CheckRoot, ReplaceRefs, Pend, Commit, RecordRequest, GiveUp, Kill,
         Read, Upgrade, Goto, End, local
  <2>5. Writing(c)' => Writing(c) \/ Reservable(c)
    BY <1>1, <2>3 DEF StoreTypeOK, InPlace, Writing,
         StartJob, Work, Open, Opened, MigrateReads, MigrateWrites, MigrateCommits,
         Begin, AppendEvent, CheckRoot, ReplaceRefs, Pend, Commit, RecordRequest, GiveUp, Kill,
         Read, Upgrade, Goto, End, local
  <2>. QED
    BY <2>1, <2>2, <2>4, <2>5, OneMoves
<1>2. CASE Tick \/ Poll \/ UNCHANGED vars
  BY <1>2 DEF Locked, InPlace, Writing, Tick, Poll, vars, local
<1>. QED
  BY <1>1, <1>2 DEF Next

-----------------------------------------------------------------------------
(* The journal.                                                            *)

\* The sequence that a writer has read is the next one of its attempt until it
\* commits, and then its attempt is on the board.
Numbered ==
  \A c \in Conn : job[c] = "event" =>
    /\ pc[c] \in {"append", "commit"} => next[c] = Cardinality(RowsOf(key[c])) + 1
    /\ pc[c] = "commit" => key[c] \in attempts

\* What a row at the end of the journal changes.
LEMMA RowAppended ==
  ASSUME StoreTypeOK, NEW row, journal' = Append(journal, row), NEW k
  PROVE  /\ DOMAIN journal = 1 .. Len(journal) /\ Len(journal) \in Nat
         /\ DOMAIN journal' = 1 .. Len(journal) + 1 /\ Len(journal') = Len(journal) + 1
         /\ \A i \in 1 .. Len(journal) : journal'[i] = journal[i]
         /\ journal'[Len(journal) + 1] = row
         /\ RowsOf(k)' = IF row.attempt = k THEN RowsOf(k) \cup {Len(journal) + 1} ELSE RowsOf(k)
<1>1. /\ DOMAIN journal = 1 .. Len(journal) /\ Len(journal) \in Nat
      /\ journal \in Seq([attempt : Attempt, sequence : Nat, at : Nat])
  BY DEF StoreTypeOK
<1>2. /\ DOMAIN journal' = 1 .. Len(journal) + 1 /\ Len(journal') = Len(journal) + 1
      /\ \A i \in 1 .. Len(journal) : journal'[i] = journal[i]
      /\ journal'[Len(journal) + 1] = row
  BY <1>1
<1>3. \A i : i \in RowsOf(k)' <=>
        \/ i \in RowsOf(k)
        \/ row.attempt = k /\ i = Len(journal) + 1
  BY <1>1, <1>2 DEF RowsOf
<1>. QED
  BY <1>1, <1>2, <1>3

\* A row numbered one above those of its attempt continues them.
LEMMA AppendSequenced ==
  ASSUME StoreTypeOK, EventsAreSequenced, NEW row, journal' = Append(journal, row),
         row.attempt \in attempts', attempts \subseteq attempts',
         row.sequence = Cardinality(RowsOf(row.attempt)) + 1
  PROVE  EventsAreSequenced'
<1>. PICK n : n = Len(journal)
  OBVIOUS
<1>1. /\ DOMAIN journal = 1 .. n /\ n \in Nat /\ DOMAIN journal' = 1 .. n + 1
      /\ \A i \in 1 .. n : journal'[i] = journal[i]
      /\ journal'[n + 1] = row
  BY RowAppended
<1>2. \A k : RowsOf(k)' = IF row.attempt = k THEN RowsOf(k) \cup {n + 1} ELSE RowsOf(k)
  BY RowAppended
<1>3. \A k : RowsOf(k) \subseteq 1 .. n
  BY <1>1 DEF RowsOf
<1>4. ASSUME NEW i \in 1 .. n, NEW k, journal'[i].attempt = k
      PROVE  k \in attempts' /\ journal'[i].sequence = Cardinality(RowsUpTo(k, i)')
  <2>1. k \in attempts /\ journal[i].sequence = Cardinality(RowsUpTo(k, i))
    BY <1>1, <1>4 DEF EventsAreSequenced, RowsUpTo
  <2>2. ~ (n + 1 <= i)
    BY <1>1
  <2>3. RowsUpTo(k, i)' = RowsUpTo(k, i)
    BY <1>2, <2>2 DEF RowsUpTo
  <2>. QED
    BY <1>1, <2>1, <2>3
<1>5. ASSUME NEW k, row.attempt = k
      PROVE  Cardinality(RowsUpTo(k, n + 1)') = row.sequence
  <2>1. {j \in RowsOf(k)' : j <= n + 1} = RowsOf(k) \cup {n + 1}
    BY <1>1, <1>2, <1>3, <1>5
  <2>2. RowsUpTo(k, n + 1)' = RowsOf(k) \cup {n + 1}
    BY <2>1 DEF RowsUpTo
  <2>3. n + 1 \notin RowsOf(k)
    BY <1>1, <1>3
  <2>. QED
    BY <1>5, <2>2, <2>3, RowsAreFinite, FS_AddElement
<1>6. ASSUME NEW i \in DOMAIN journal', NEW k, journal'[i].attempt = k
      PROVE  k \in attempts' /\ journal'[i].sequence = Cardinality(RowsUpTo(k, i)')
  <2>1. i \in 1 .. n \/ i = n + 1
    BY <1>1, <1>6
  <2>. QED
    BY <1>1, <1>4, <1>5, <1>6, <2>1
<1>7. ASSUME NEW i \in DOMAIN journal'
      PROVE  /\ journal'[i].attempt \in attempts'
             /\ journal'[i].sequence =
                  Cardinality({j \in {h \in DOMAIN journal' :
                                         journal'[h].attempt = journal'[i].attempt} : j <= i})
  <2>1. PICK k : k = journal'[i].attempt
    OBVIOUS
  <2>2. k \in attempts' /\ journal'[i].sequence = Cardinality(RowsUpTo(k, i)')
    BY <1>6, <2>1
  <2>3. RowsUpTo(k, i)' = {j \in {h \in DOMAIN journal' : journal'[h].attempt = k} : j <= i}
    BY DEF RowsUpTo, RowsOf
  <2>. QED
    BY <2>1, <2>2, <2>3
<1>. QED
  BY <1>7 DEF EventsAreSequenced, RowsOf

\* Only the commit of an event changes the journal.
LEMMA JournalStep ==
  ASSUME StoreTypeOK, Locked, EventsAreSequenced, Numbered, [Next]_vars
  PROVE  EventsAreSequenced' /\ Numbered'
<1>1. ASSUME journal' = journal, attempts' = attempts,
             \A c \in Conn : job'[c] = "event" =>
               /\ pc'[c] \in {"append", "commit"} =>
                    \/ next'[c] = Cardinality(RowsOf(key'[c])) + 1
                    \/ /\ pc[c] \in {"append", "commit"} /\ job[c] = "event"
                       /\ next'[c] = next[c] /\ key'[c] = key[c]
               /\ pc'[c] = "commit" =>
                    \/ key'[c] \in attempts
                    \/ pc[c] = "commit" /\ job[c] = "event" /\ key'[c] = key[c]
      PROVE  EventsAreSequenced' /\ Numbered'
  <2>1. \A k : RowsOf(k)' = RowsOf(k)
    BY <1>1 DEF RowsOf
  <2>2. EventsAreSequenced'
    BY <1>1, <2>1 DEF EventsAreSequenced
  <2>3. Numbered'
    BY <1>1, <2>1 DEF Numbered
  <2>. QED
    BY <2>2, <2>3
<1>2. ASSUME NEW c \in Conn, StartJob(c) \/ Open(c) \/ MigrateReads(c) \/ MigrateWrites(c)
                               \/ MigrateCommits(c) \/ CheckRoot(c) \/ ReplaceRefs(c)
      PROVE  EventsAreSequenced' /\ Numbered'
  <2>1. journal' = journal /\ attempts' = attempts
    BY <1>2 DEF StartJob, Open, MigrateReads, MigrateWrites, MigrateCommits, CheckRoot, ReplaceRefs,
         Read, Upgrade, tables
  <2>2. \A d \in Conn : d # c => /\ pc'[d] = pc[d] /\ job'[d] = job[d]
                                 /\ key'[d] = key[d] /\ next'[d] = next[d]
    BY <1>2 DEF StoreTypeOK, StartJob, Open, Opened, MigrateReads, MigrateWrites, MigrateCommits,
         CheckRoot, ReplaceRefs, Read, Upgrade, Goto, End
  <2>3. pc'[c] \in {"append", "commit"} => job'[c] # "event"
    BY <1>2 DEF StoreTypeOK, Locked, InPlace, StartJob, Open, Opened, Entry, MigrateReads,
         MigrateWrites, MigrateCommits, CheckRoot, ReplaceRefs, Read, Upgrade, Goto, End
  <2>. QED
    BY <1>1, <2>1, <2>2, <2>3
<1>3. ASSUME NEW c \in Conn, Begin(c) \/ AppendEvent(c) \/ Pend(c) \/ GiveUp(c) \/ Kill(c)
      PROVE  EventsAreSequenced' /\ Numbered'
  <2>1. journal' = journal /\ attempts' = attempts /\ key' = key /\ job' = job
    BY <1>3 DEF Begin, AppendEvent, Pend, GiveUp, Kill, tables, local
  <2>2. \A d \in Conn : d # c => pc'[d] = pc[d] /\ next'[d] = next[d]
    BY <1>3 DEF StoreTypeOK, Begin, ReadNext, AppendEvent, Pend, GiveUp, Kill, Goto, End, local
  <2>3. CASE Begin(c)
    <3>1. pc'[c] = IF job[c] = "event" THEN "append" ELSE "commit"
      BY <2>3 DEF StoreTypeOK, Begin, Goto
    <3>2. job[c] = "event" => next'[c] = Cardinality(RowsOf(key[c])) + 1
      BY <2>3 DEF StoreTypeOK, Begin, ReadNext
    <3>. QED
      BY <1>1, <2>1, <2>2, <3>1, <3>2
  <2>4. CASE AppendEvent(c)
    <3>1. pc[c] = "append" /\ next' = next /\ pc'[c] \in {"commit", "idle"}
      BY <2>4 DEF StoreTypeOK, AppendEvent, Goto, End
    <3>2. pc'[c] = "commit" => key[c] \in attempts
      BY <2>4 DEF StoreTypeOK, AppendEvent, Goto, End
    <3>. QED
      BY <1>1, <2>1, <2>2, <3>1, <3>2
  <2>5. CASE Pend(c) \/ GiveUp(c) \/ Kill(c)
    <3>1. next' = next /\ pc'[c] \in {pc[c], "idle"}
      BY <2>5 DEF StoreTypeOK, Pend, GiveUp, Kill, Goto, End, local
    <3>. QED
      BY <1>1, <2>1, <2>2, <3>1
  <2>. QED
    BY <1>3, <2>3, <2>4, <2>5
<1>4. ASSUME NEW c \in Conn, Commit(c) PROVE EventsAreSequenced' /\ Numbered'
  <2>1. \A d \in Conn : pc'[d] \notin {"append", "commit"}
    <3>1. Writing(c) /\ pc'[c] = "idle"
      BY <1>4 DEF StoreTypeOK, Commit, Commits, Writing, RecordRequest, Goto, End
    <3>2. \A d \in Conn : d # c => pc'[d] = pc[d]
      BY <1>4 DEF StoreTypeOK, Commit, RecordRequest, Goto, End
    <3>. QED
      BY <3>1, <3>2 DEF Locked, InPlace
  <2>2. Numbered'
    BY <2>1 DEF Numbered
  <2>3. EventsAreSequenced'
    <3>1. CASE job[c] = "event"
      <4>1. PICK row : row = [attempt |-> key[c], sequence |-> next[c], at |-> stamp[c]]
        OBVIOUS
      <4>2. journal' = Append(journal, row) /\ attempts' = attempts
        BY <1>4, <3>1, <4>1 DEF Commit
      <4>3. row.attempt \in attempts /\ row.sequence = Cardinality(RowsOf(row.attempt)) + 1
        BY <1>4, <3>1, <4>1 DEF Numbered, Commit
      <4>. QED
        BY <4>2, <4>3, AppendSequenced
    <3>2. CASE job[c] # "event"
      <4>1. journal' = journal
        BY <1>4, <3>2 DEF Commit
      <4>2. attempts \subseteq attempts'
        BY <1>4 DEF StoreTypeOK, Commit
      <4>3. \A k : RowsOf(k)' = RowsOf(k)
        BY <4>1 DEF RowsOf
      <4>. QED
        BY <4>1, <4>2, <4>3 DEF EventsAreSequenced
    <3>. QED
      BY <3>1, <3>2
  <2>. QED
    BY <2>2, <2>3
<1>5. CASE Tick \/ Poll \/ UNCHANGED vars
  BY <1>1, <1>5 DEF Tick, Poll, vars, tables, local
<1>. QED
  BY <1>2, <1>3, <1>4, <1>5 DEF Next, Work

-----------------------------------------------------------------------------
(* Requests and the schema.                                                *)

\* A request is recorded when it is not there, and its answer given to whoever
\* keeps its id until the next job.
LEMMA RequestStep ==
  ASSUME StoreTypeOK, RequestsAreRecordedOnce, [Next]_vars
  PROVE  RequestsAreRecordedOnce'
<1>1. ASSUME requests' = requests,
             \A d \in Conn : answer'[d] \in {"ok", "duplicate"} =>
               \/ answer'[d] = answer[d] /\ job'[d] = job[d] /\ call'[d] = call[d]
               \/ job'[d] # "request"
      PROVE  RequestsAreRecordedOnce'
  BY <1>1 DEF RequestsAreRecordedOnce, Recorded
<1>2. ASSUME NEW c \in Conn, StartJob(c) PROVE RequestsAreRecordedOnce'
  <2>1. requests' = requests /\ answer'[c] = "none"
    BY <1>2 DEF StoreTypeOK, StartJob, tables
  <2>2. \A d \in Conn : d # c => answer'[d] = answer[d] /\ job'[d] = job[d] /\ call'[d] = call[d]
    BY <1>2 DEF StoreTypeOK, StartJob
  <2>. QED
    BY <1>1, <2>1, <2>2
<1>3. ASSUME NEW c \in Conn, \/ Open(c) \/ MigrateReads(c) \/ MigrateWrites(c) \/ MigrateCommits(c)
                             \/ Begin(c) \/ AppendEvent(c) \/ CheckRoot(c) \/ ReplaceRefs(c)
                             \/ Pend(c) \/ GiveUp(c) \/ Kill(c)
      PROVE  RequestsAreRecordedOnce'
  <2>1. requests' = requests /\ job' = job /\ call' = call
    BY <1>3 DEF Open, MigrateReads, MigrateWrites, MigrateCommits, Begin, AppendEvent, CheckRoot,
         ReplaceRefs, Pend, GiveUp, Kill, Read, Upgrade, tables, local
  <2>2. \A d \in Conn : answer'[d] = answer[d] \/ answer'[d] \notin {"ok", "duplicate"}
    BY <1>3 DEF StoreTypeOK, Open, MigrateReads, MigrateWrites, MigrateCommits, Begin, AppendEvent,
         CheckRoot, ReplaceRefs, Pend, GiveUp, Kill, Read, Upgrade, End
  <2>. QED
    BY <1>1, <2>1, <2>2
<1>4. ASSUME NEW c \in Conn, Commit(c) PROVE RequestsAreRecordedOnce'
  <2>1. /\ job' = job /\ call' = call
        /\ \A d \in Conn : d # c => answer'[d] = answer[d]
    BY <1>4 DEF StoreTypeOK, Commit, RecordRequest, End
  <2>2. CASE requests' = requests
    <3>1. job[c] = "request" => Recorded(call[c])
      <4>1. SUFFICES ASSUME job[c] = "request", ~ Recorded(call[c]) PROVE FALSE
        OBVIOUS
      <4>2. requests' = Append(requests, [attempt |-> key[c], call |-> call[c]])
        BY <1>4, <4>1 DEF Commit, RecordRequest
      <4>. QED
        BY <2>2, <4>2, AppendProperties DEF StoreTypeOK
    <3>. QED
      BY <2>1, <2>2, <3>1 DEF RequestsAreRecordedOnce, Recorded
  <2>3. CASE requests' # requests
    <3>1. PICK row : row = [attempt |-> key[c], call |-> call[c]]
      OBVIOUS
    <3>2. /\ ~ Recorded(row.call) /\ row.call = call[c]
          /\ requests' = Append(requests, row)
      BY <1>4, <2>3, <3>1 DEF Commit, RecordRequest
    <3>3. /\ DOMAIN requests = 1 .. Len(requests) /\ Len(requests) \in Nat
          /\ DOMAIN requests' = 1 .. Len(requests) + 1
          /\ \A i \in 1 .. Len(requests) : requests'[i] = requests[i]
          /\ requests'[Len(requests) + 1] = row
      BY <3>2 DEF StoreTypeOK
    <3>4. \A i, j \in DOMAIN requests' : requests'[i].call = requests'[j].call => i = j
      BY <3>2, <3>3 DEF RequestsAreRecordedOnce, Recorded
    <3>5. \A d \in Conn : job'[d] = "request" /\ answer'[d] \in {"ok", "duplicate"}
                            => Recorded(call[d]) \/ call[d] = row.call
      BY <2>1, <3>2 DEF RequestsAreRecordedOnce
    <3>6. \A d \in Conn : Recorded(call[d]) \/ call[d] = row.call => Recorded(call[d])'
      BY <2>1, <3>3 DEF Recorded
    <3>. QED
      BY <3>4, <3>5, <3>6 DEF RequestsAreRecordedOnce
  <2>. QED
    BY <2>2, <2>3
<1>5. CASE Tick \/ Poll \/ UNCHANGED vars
  BY <1>1, <1>5 DEF Tick, Poll, vars, tables, local
<1>. QED
  BY <1>2, <1>3, <1>4, <1>5 DEF Next, Work

\* The version stands for the columns, without them there are session rows
\* only, and a job starts on a migrated board.
Migrated ==
  /\ version = "current" => columns
  /\ ~columns => \A i \in DOMAIN artifacts : artifacts[i] = "session"
  /\ \A c \in Conn : pc[c] \in {"begin", "append", "check", "replace", "commit"} =>
                       version = "current"

Kept == /\ \A i \in DOMAIN artifacts : i \in DOMAIN artifacts' /\ artifacts'[i] = artifacts[i]
        /\ version' = "current" => columns'
        /\ version = "current" => version' = "current"

\* A table that is rebuilt holds session rows only.
LEMMA SchemaStep ==
  ASSUME StoreTypeOK, Migrated, [Next]_vars
  PROVE  Migrated' /\ Kept
<1>1. ASSUME NEW c \in Conn,
             \/ StartJob(c) \/ Open(c) \/ MigrateReads(c) \/ MigrateWrites(c) \/ Begin(c)
             \/ AppendEvent(c) \/ CheckRoot(c) \/ ReplaceRefs(c) \/ Pend(c) \/ GiveUp(c) \/ Kill(c)
      PROVE  Migrated' /\ Kept
  <2>1. version' = version /\ columns' = columns /\ artifacts' = artifacts
    BY <1>1 DEF StartJob, Open, MigrateReads, MigrateWrites, Begin, AppendEvent, CheckRoot,
         ReplaceRefs, Pend, GiveUp, Kill, Read, Upgrade, tables
  <2>2. \A d \in Conn : d # c => pc'[d] = pc[d]
    BY <1>1 DEF StoreTypeOK, StartJob, Open, Opened, MigrateReads, MigrateWrites, Begin,
         AppendEvent, CheckRoot, ReplaceRefs, Pend, GiveUp, Kill, Read, Upgrade, Goto, End, local
  <2>3. pc'[c] \in {"begin", "append", "check", "replace", "commit"} =>
          version = "current" \/ pc[c] \in {"begin", "append", "check", "replace", "commit"}
    BY <1>1 DEF StoreTypeOK, StartJob, Open, Opened, MigrateReads, MigrateWrites, Begin,
         AppendEvent, CheckRoot, ReplaceRefs, Pend, GiveUp, Kill, Read, Upgrade, Goto, End, local
  <2>. QED
    BY <2>1, <2>2, <2>3 DEF Migrated, Kept
<1>2. ASSUME NEW c \in Conn, MigrateCommits(c) PROVE Migrated' /\ Kept
  <2>1. version' = "current" /\ columns' = TRUE /\ artifacts' = Rebuild(artifacts)
    BY <1>2 DEF MigrateCommits
  <2>2. DOMAIN artifacts' = DOMAIN artifacts /\ \A i \in DOMAIN artifacts : artifacts'[i] = artifacts[i]
    BY <2>1 DEF Migrated, Rebuild
  <2>. QED
    BY <2>1, <2>2 DEF Migrated, Kept
<1>3. ASSUME NEW c \in Conn, Commit(c) PROVE Migrated' /\ Kept
  <2>1. version' = version /\ columns' = columns /\ version = "current" /\ columns
    BY <1>3 DEF Migrated, Commit
  <2>2. artifacts' = artifacts \/ artifacts' = Append(artifacts, "task")
    BY <1>3 DEF Commit
  <2>3. \A i \in DOMAIN artifacts : i \in DOMAIN artifacts' /\ artifacts'[i] = artifacts[i]
    <3>1. artifacts \in Seq(Owner)
      BY DEF StoreTypeOK
    <3>. QED
      BY <2>2, <3>1, AppendProperties
  <2>. QED
    BY <2>1, <2>3 DEF Migrated, Kept
<1>4. CASE Tick \/ Poll \/ UNCHANGED vars
  BY <1>4 DEF Migrated, Kept, Tick, Poll, vars, tables, local
<1>. QED
  BY <1>1, <1>2, <1>3, <1>4 DEF Next, Work

-----------------------------------------------------------------------------
(* The follower.                                                           *)

\* No cursor is ahead of the rows of its attempt, and behind it are the rows of
\* the journal up to those appended since the last poll.
Followed ==
  /\ unseen <= Len(journal)
  /\ \A k \in Attempt : cursor[k] <= Cardinality(RowsOf(k))
  /\ ~overrun =>
       \A i \in DOMAIN journal : i + unseen <= Len(journal) =>
         journal[i].sequence <= cursor[journal[i].attempt]

\* A row at the end is above its cursor and disturbs nothing before it.
LEMMA FollowAppend ==
  ASSUME StoreTypeOK, Followed, FollowIsComplete, NEW row, journal' = Append(journal, row),
         row.attempt \in Attempt, row.sequence = Cardinality(RowsOf(row.attempt)) + 1,
         unseen' = unseen + 1, cursor' = cursor, printed' = printed, overrun' = overrun
  PROVE  Followed' /\ FollowIsComplete'
<1>. PICK n : n = Len(journal)
  OBVIOUS
<1>1. /\ DOMAIN journal = 1 .. n /\ n \in Nat /\ DOMAIN journal' = 1 .. n + 1
      /\ Len(journal') = n + 1 /\ unseen \in Nat
      /\ \A i \in 1 .. n : journal'[i] = journal[i]
      /\ journal'[n + 1] = row
  BY RowAppended DEF StoreTypeOK
<1>2. \A k : RowsOf(k)' = IF row.attempt = k THEN RowsOf(k) \cup {n + 1} ELSE RowsOf(k)
  BY RowAppended
<1>3. \A k : RowsOf(k) \subseteq 1 .. n
  BY <1>1 DEF RowsOf
<1>4. ASSUME NEW k \in Attempt PROVE cursor'[k] <= Cardinality(RowsOf(k)')
  <2>1. Cardinality(RowsOf(k)) \in Nat /\ cursor[k] \in Nat /\ cursor[k] <= Cardinality(RowsOf(k))
    BY RowsAreFinite DEF Followed, StoreTypeOK
  <2>2. n + 1 \notin RowsOf(k)
    BY <1>1, <1>3
  <2>3. Cardinality(RowsOf(k) \cup {n + 1}) = Cardinality(RowsOf(k)) + 1
    BY <2>2, RowsAreFinite, FS_AddElement
  <2>4. \/ Cardinality(RowsOf(k)') = Cardinality(RowsOf(k))
        \/ Cardinality(RowsOf(k)') = Cardinality(RowsOf(k)) + 1
    BY <1>2, <2>3
  <2>. QED
    BY <2>1, <2>4
<1>5. ASSUME ~overrun, NEW i \in 1 .. n + 1, i + unseen' <= n + 1
      PROVE  journal'[i].sequence <= cursor'[journal'[i].attempt]
  <2>1. i \in 1 .. n /\ i + unseen <= n
    BY <1>1, <1>5
  <2>. QED
    BY <1>1, <1>5, <2>1 DEF Followed
<1>6. Followed'
  <2>1. unseen' <= n + 1
    BY <1>1 DEF Followed
  <2>. QED
    BY <1>1, <1>4, <1>5, <2>1 DEF Followed
<1>7. ASSUME ~overrun, NEW i \in 1 .. n + 1, journal'[i].sequence <= cursor'[journal'[i].attempt]
      PROVE  journal'[i].sequence \in printed'[journal'[i].attempt] \/ Disordered(i)'
  <2>1. i # n + 1
    <3>1. SUFFICES ASSUME i = n + 1 PROVE FALSE
      OBVIOUS
    <3>2. Cardinality(RowsOf(row.attempt)) + 1 <= cursor[row.attempt]
      BY <1>1, <1>7, <3>1
    <3>3. /\ cursor[row.attempt] <= Cardinality(RowsOf(row.attempt))
          /\ cursor[row.attempt] \in Nat /\ Cardinality(RowsOf(row.attempt)) \in Nat
      BY RowsAreFinite DEF Followed, StoreTypeOK
    <3>. QED
      BY <3>2, <3>3
  <2>2. i \in 1 .. n /\ journal'[i] = journal[i]
    BY <1>1, <2>1
  <2>3. journal[i].sequence \in printed[journal[i].attempt] \/ Disordered(i)
    BY <1>1, <1>7, <2>2 DEF FollowIsComplete
  <2>4. ASSUME Disordered(i) PROVE Disordered(i)'
    <3>1. PICK j \in RowsOf(journal[i].attempt) : SortsBefore(j, i) # (j < i) /\ j # i
      BY <2>4 DEF Disordered
    <3>2. j \in 1 .. n /\ journal'[j] = journal[j] /\ journal[j].attempt = journal[i].attempt
      BY <1>1, <3>1 DEF RowsOf
    <3>3. j \in 1 .. n + 1
      BY <1>1, <3>2
    <3>4. SortsBefore(j, i)' = SortsBefore(j, i)
      BY <2>2, <3>2 DEF SortsBefore
    <3>. QED
      BY <1>1, <2>2, <3>1, <3>2, <3>3, <3>4 DEF Disordered, RowsOf
  <2>. QED
    BY <2>2, <2>3, <2>4
<1>8. FollowIsComplete'
  BY <1>1, <1>7 DEF FollowIsComplete
<1>. QED
  BY <1>6, <1>8

\* A poll that is in time has seen every row above a cursor, and prints it or a
\* row that the order of times has put in its place.
LEMMA FollowPoll ==
  ASSUME StoreTypeOK, EventsAreSequenced, Followed, FollowIsComplete, Poll
  PROVE  Followed' /\ FollowIsComplete'
<1>. PICK n : n = Len(journal)
  OBVIOUS
<1>1. /\ journal' = journal /\ unseen' = 0 /\ DOMAIN journal = 1 .. n /\ n \in Nat
      /\ unseen \in Nat /\ QueryMax \in Nat
      /\ ~overrun' => ~overrun /\ unseen <= QueryMax
  <2>1. journal' = journal /\ unseen' = 0 /\ overrun' = (overrun \/ unseen > QueryMax)
    BY DEF Poll, tables
  <2>2. DOMAIN journal = 1 .. n /\ n \in Nat /\ unseen \in Nat /\ QueryMax \in Nat
    BY StoreAssumption DEF StoreTypeOK
  <2>3. ~overrun' => ~overrun /\ ~ (unseen > QueryMax)
    BY <2>1
  <2>4. ~ (unseen > QueryMax) => unseen <= QueryMax
    BY <2>2
  <2>. QED
    BY <2>1, <2>2, <2>3, <2>4
<1>2. \A k : RowsOf(k)' = RowsOf(k)
  BY <1>1 DEF RowsOf
<1>3. \A k \in Attempt : /\ cursor'[k] = Highest(k) /\ cursor[k] \in Nat
                         /\ printed'[k] = printed[k] \cup {journal[i].sequence : i \in Prints(k)}
  BY DEF Poll, StoreTypeOK
<1>4. ASSUME NEW k \in Attempt PROVE cursor'[k] <= Cardinality(RowsOf(k)')
  <2>1. Above(k) = {} => Highest(k) <= Cardinality(RowsOf(k))
    BY HighestIs DEF Followed
  <2>2. ASSUME Above(k) # {} PROVE Highest(k) <= Cardinality(RowsOf(k))
    <3>1. PICK i \in Above(k) : Highest(k) = journal[i].sequence
      BY <2>2, HighestIs
    <3>2. i \in RowsOf(k)
      BY DEF Above
    <3>. QED
      BY <3>1, <3>2, SequencesRise
  <2>. QED
    BY <1>2, <1>3, <2>1, <2>2
\* What lies above the cursor is among the latest rows.
<1>5. ASSUME ~overrun', NEW i \in 1 .. n, NEW k \in Attempt, journal[i].attempt = k,
             ~ (journal[i].sequence <= cursor[k])
      PROVE  i \in Above(k)
  <2>1. ~ (i + unseen <= n)
    BY <1>1, <1>5 DEF Followed
  <2>2. i + QueryMax > n
    BY <1>1, <1>5, <2>1
  <2>3. journal[i].sequence > cursor[k]
    BY <1>1, <1>3, <1>5, RowType
  <2>4. i \in Latest
    BY <1>1, <2>2 DEF Latest
  <2>5. i \in RowsOf(k)
    BY <1>1, <1>5 DEF RowsOf
  <2>. QED
    BY <2>3, <2>4, <2>5 DEF Above
<1>6. ASSUME ~overrun', NEW i \in 1 .. n
      PROVE  journal[i].sequence <= cursor'[journal[i].attempt]
  <2>. PICK k : k = journal[i].attempt
    OBVIOUS
  <2>1. k \in Attempt /\ journal[i].sequence \in Nat
    BY <1>1, RowType
  <2>2. CASE journal[i].sequence <= cursor[k]
    <3>1. cursor[k] <= Highest(k)
      <4>1. Above(k) = {} => cursor[k] <= Highest(k)
        BY <1>3, <2>1, HighestIs
      <4>2. ASSUME Above(k) # {} PROVE cursor[k] <= Highest(k)
        <5>1. PICK h \in Above(k) : Highest(k) = journal[h].sequence
          BY <2>1, <4>2, HighestIs
        <5>2. h \in DOMAIN journal /\ journal[h].sequence > cursor[k]
          BY DEF Above, Latest
        <5>3. journal[h].sequence \in Nat /\ cursor[k] \in Nat
          BY <1>3, <2>1, <5>2, RowType
        <5>. QED
          BY <5>1, <5>2, <5>3
      <4>. QED
        BY <4>1, <4>2
    <3>2. Highest(k) \in Nat
      <4>1. Above(k) = {} => Highest(k) \in Nat
        BY <1>3, <2>1, HighestIs
      <4>2. \A h \in Above(k) : journal[h].sequence \in Nat
        BY RowType DEF Above, Latest
      <4>. QED
        BY <2>1, <4>1, <4>2, HighestIs
    <3>3. cursor'[k] = Highest(k) /\ cursor[k] \in Nat
      BY <1>3, <2>1
    <3>. QED
      BY <2>1, <2>2, <3>1, <3>2, <3>3
  <2>3. CASE ~ (journal[i].sequence <= cursor[k])
    <3>1. i \in Above(k)
      BY <1>5, <1>6, <2>1, <2>3
    <3>. QED
      BY <1>3, <2>1, <3>1, HighestIs
  <2>. QED
    BY <2>2, <2>3
<1>7. ASSUME ~overrun', NEW i \in 1 .. n
      PROVE  journal[i].sequence \in printed'[journal[i].attempt] \/ Disordered(i)
  <2>. PICK k : k = journal[i].attempt
    OBVIOUS
  <2>1. k \in Attempt /\ journal[i].sequence \in Nat
    BY <1>1, RowType
  <2>2. CASE journal[i].sequence <= cursor[k]
    BY <1>1, <1>3, <1>7, <2>1, <2>2 DEF FollowIsComplete
  <2>3. CASE ~ (journal[i].sequence <= cursor[k])
    <3>1. i \in Above(k)
      BY <1>5, <1>7, <2>1, <2>3
    <3>2. CASE i \in Prints(k)
      BY <1>3, <2>1, <3>2
    <3>3. ASSUME i \notin Prints(k) PROVE Disordered(i)
      <4>1. PICK j \in Above(k) : SortsBefore(j, i) /\ journal[j].sequence > journal[i].sequence
        BY <3>1, <3>3 DEF Prints
      <4>2. j \in RowsOf(k) /\ i \in RowsOf(k)
        BY <3>1 DEF Above
      <4>3. /\ j \in Nat /\ i \in Nat /\ journal[j].sequence \in Nat /\ journal[i].sequence \in Nat
            /\ j < i => journal[j].sequence < journal[i].sequence
        <5>1. i \in 1 .. Len(journal) /\ journal[i].sequence \in Nat
          BY <4>2, SequencesRise
        <5>2. /\ j \in 1 .. Len(journal) /\ journal[j].sequence \in Nat
              /\ j < i => journal[j].sequence < journal[i].sequence
          BY <4>2, SequencesRise
        <5>. QED
          BY <5>1, <5>2
      <4>4. ~ (j < i) /\ j # i
        BY <4>1, <4>3
      <4>. QED
        BY <4>1, <4>2, <4>4 DEF Disordered
    <3>. QED
      BY <3>2, <3>3
  <2>. QED
    BY <2>2, <2>3
<1>8. Followed'
  BY <1>1, <1>4, <1>6 DEF Followed
<1>9. FollowIsComplete'
  <2>1. \A i : Disordered(i)' = Disordered(i)
    BY <1>1, <1>2 DEF Disordered, SortsBefore, RowsOf
  <2>. QED
    BY <1>1, <1>7, <2>1 DEF FollowIsComplete
<1>. QED
  BY <1>8, <1>9

\* Nobody else moves the follower or the journal.
LEMMA FollowStep ==
  ASSUME StoreTypeOK, EventsAreSequenced, Numbered, Followed, FollowIsComplete, [Next]_vars
  PROVE  Followed' /\ FollowIsComplete'
<1>1. ASSUME journal' = journal, UNCHANGED observer
      PROVE  Followed' /\ FollowIsComplete'
  <2>1. \A k : RowsOf(k)' = RowsOf(k)
    BY <1>1 DEF RowsOf
  <2>2. Followed'
    BY <1>1, <2>1 DEF Followed, observer
  <2>3. \A i : Disordered(i)' = Disordered(i)
    BY <1>1 DEF Disordered, SortsBefore, RowsOf
  <2>. QED
    BY <1>1, <2>2, <2>3 DEF FollowIsComplete, observer
<1>2. ASSUME NEW c \in Conn,
             \/ StartJob(c) \/ Open(c) \/ MigrateReads(c) \/ MigrateWrites(c) \/ MigrateCommits(c)
             \/ Begin(c) \/ AppendEvent(c) \/ CheckRoot(c) \/ ReplaceRefs(c) \/ Pend(c)
             \/ GiveUp(c) \/ Kill(c)
      PROVE  Followed' /\ FollowIsComplete'
  <2>1. journal' = journal /\ UNCHANGED observer
    BY <1>2 DEF StartJob, Open, MigrateReads, MigrateWrites, MigrateCommits, Begin, AppendEvent,
         CheckRoot, ReplaceRefs, Pend, GiveUp, Kill, Read, Upgrade, tables
  <2>. QED
    BY <1>1, <2>1
<1>3. ASSUME NEW c \in Conn, Commit(c) PROVE Followed' /\ FollowIsComplete'
  <2>1. CASE job[c] = "event"
    <3>1. PICK row : row = [attempt |-> key[c], sequence |-> next[c], at |-> stamp[c]]
      OBVIOUS
    <3>2. /\ journal' = Append(journal, row) /\ unseen' = unseen + 1
          /\ cursor' = cursor /\ printed' = printed /\ overrun' = overrun
      BY <1>3, <2>1, <3>1 DEF Commit
    <3>3. row.attempt \in Attempt /\ row.sequence = Cardinality(RowsOf(row.attempt)) + 1
      BY <1>3, <2>1, <3>1 DEF Numbered, Commit, StoreTypeOK
    <3>. QED
      BY <3>2, <3>3, FollowAppend
  <2>2. CASE job[c] # "event"
    <3>1. journal' = journal /\ UNCHANGED observer
      BY <1>3, <2>2 DEF Commit, observer
    <3>. QED
      BY <1>1, <3>1
  <2>. QED
    BY <2>1, <2>2
<1>4. CASE Poll
  BY <1>4, FollowPoll
<1>5. CASE Tick \/ UNCHANGED vars
  BY <1>1, <1>5 DEF Tick, vars, tables
<1>. QED
  BY <1>2, <1>3, <1>4, <1>5 DEF Next, Work

-----------------------------------------------------------------------------
(* The theorems.                                                           *)

\* None of the parts can be shown without the others: what is numbered is read
\* under a lock, and what is followed is numbered.
IInv ==
  /\ StoreTypeOK /\ Locked /\ Migrated
  /\ EventsAreSequenced /\ Numbered /\ RequestsAreRecordedOnce
  /\ Followed /\ FollowIsComplete

\* A board that nobody has opened yet.
LEMMA InitIInv == Init => IInv
<1>. SUFFICES ASSUME Init PROVE IInv
  OBVIOUS
<1>. USE StoreAssumption DEF Init
<1>1. (CHOOSE k \in Call : TRUE) \in Call
  OBVIOUS
<1>2. StoreTypeOK
  <2>1. artifacts \in Seq(Owner)
    BY DEF Owner
  <2>2. version \in {"old", "current"} /\ columns \in BOOLEAN
    OBVIOUS
  <2>3. job \in [Conn -> Job]
    BY DEF Job
  <2>4. /\ journal \in Seq([attempt : Attempt, sequence : Nat, at : Nat])
        /\ requests \in Seq([attempt : Attempt, call : Call])
    OBVIOUS
  <2>5. call \in [Conn -> Call]
    BY <1>1
  <2>. QED
    BY <2>1, <2>2, <2>3, <2>4, <2>5 DEF StoreTypeOK
<1>3. Locked
  BY DEF Locked, InPlace, Writing
<1>4. Migrated
  <2>1. version = "current" => columns
    OBVIOUS
  <2>2. \A i \in DOMAIN artifacts : artifacts[i] = "session"
    OBVIOUS
  <2>3. \A c \in Conn : pc[c] = "idle"
    OBVIOUS
  <2>. QED
    BY <2>1, <2>2, <2>3 DEF Migrated
<1>5. EventsAreSequenced /\ Numbered /\ RequestsAreRecordedOnce
  BY DEF EventsAreSequenced, Numbered, RequestsAreRecordedOnce
<1>6. Followed
  <2>1. \A k : Cardinality(RowsOf(k)) \in Nat
    BY <1>2, RowsAreFinite
  <2>. QED
    BY <2>1 DEF Followed
<1>7. FollowIsComplete
  BY DEF FollowIsComplete
<1>. QED
  BY <1>2, <1>3, <1>4, <1>5, <1>6, <1>7 DEF IInv

\* Every step keeps it.
LEMMA NextIInv == IInv /\ [Next]_vars => IInv'
<1>. SUFFICES ASSUME IInv, [Next]_vars PROVE IInv'
  OBVIOUS
<1>. QED
  BY TypeStep, LockStep, SchemaStep, JournalStep, RequestStep, FollowStep DEF IInv

\* The invariant of the store.
THEOREM StoreInvariant == Spec => []IInv
<1>. QED
  BY InitIInv, NextIInv, PTL DEF Spec

\* Writers on connections of their own leave sequences without a gap and
\* requests without a double (board.rs:244-301, 381-387).
THEOREM WritersAreKeptApart == Spec => []WritersKeepApart
<1>1. IInv => WritersKeepApart
  BY DEF IInv, WritersKeepApart
<1>. QED
  BY <1>1, StoreInvariant, PTL

\* `am events --follow` misses what it must miss, and nothing else
\* (events.rs:33-66).
THEOREM FollowerMissesNothing == Spec => []FollowIsComplete
<1>1. IInv => FollowIsComplete
  BY DEF IInv
<1>. QED
  BY <1>1, StoreInvariant, PTL

\* However many processes migrate a database, no row loses what it had
\* (schema.rs:178-355).
THEOREM RowsSurviveMigration == Spec => MigrationKeepsRows
<1>1. IInv /\ [Next]_vars =>
        [/\ \A i \in DOMAIN artifacts : i \in DOMAIN artifacts' /\ artifacts'[i] = artifacts[i]
         /\ version' = "current" => columns'
         /\ version = "current" => version' = "current"]_vars
  BY SchemaStep DEF IInv, Kept
<1>. QED
  BY <1>1, StoreInvariant, PTL DEF Spec, MigrationKeepsRows
=============================================================================
