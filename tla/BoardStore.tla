----------------------------- MODULE BoardStore -----------------------------
(***************************************************************************)
(* The SQLite board as a file that several connections share: opening and  *)
(* migrating it (schema.rs), the event journal with its writer             *)
(* (storage/board.rs:244-387, runtime_event.rs), its follower               *)
(* (commands/events.rs), and the bridge that records what a Codex turn     *)
(* asks of the team (bin/am-codex-mcp.rs).  TeamBoard takes each           *)
(* transaction for one step; this module shows what it takes for granted.  *)
(*                                                                         *)
(* External: SQLite with a rollback journal.  Readers share, one writer    *)
(* reserves, a commit waits for the readers to leave and keeps new ones    *)
(* out.  Whoever holds nothing waits for a lock, at most the busy timeout; *)
(* whoever holds a read lock and wants to write is refused at once when    *)
(* another connection has reserved, for the two would wait for each other. *)
(***************************************************************************)
EXTENDS Naturals, Sequences, FiniteSets

CONSTANTS
  Conn,        \* connections at a time
  Attempt,     \* attempts of the one task: 1 .. n
  Call,        \* the ids MCP clients give to their requests
  QueryMax,    \* MAX_RUNTIME_EVENT_QUERY (1000)
  MaxJobs,     \* bound: jobs begun
  MaxClock,    \* bound: seconds that pass
  MaxKills     \* bound: processes killed

ASSUME StoreAssumption ==
  Attempt \subseteq Nat \ {0} /\ 1 \in Attempt /\ QueryMax \in Nat \ {0} /\ Call # {}

\* What a connection is opened for: to append an event, for record_final_refs,
\* or for a single statement: record_artifact, record_attempt, or the bridge's
\* record_runtime_collaboration.
Job == {"event", "refs", "artifact", "attempt", "request"}

\* Artifacts are of the single-agent session of an old database, or of a task.
Owner == {"session", "task"}

VARIABLES
  version,    \* user_version: "old" or "current"
  columns,    \* whether the columns added since are there
  artifacts,  \* owners of the artifact rows, by id
  attempts,   \* attempts with a row in team_task_runs
  journal,    \* runtime_events by id: [attempt, sequence, at]
  requests,   \* runtime_collaboration_records by id: [attempt, call]
  clock,      \* now() in seconds
  lock,       \* "none", "shared", "reserved" or "pending", per connection
  pc, job,    \* where a connection is, and what for
  key, stamp, next,   \* attempt, created_at and sequence of its event
  call,       \* the client's id of its request
  answer,     \* how its last job ended
  jobs, kills,   \* counters
  cursor,     \* follow: last sequence printed of each attempt, 0 if none
  printed,    \* follow: sequences printed
  unseen,     \* rows appended since the last poll
  overrun     \* a poll has come too late for some

tables == <<version, columns, artifacts, attempts, journal, requests>>
local == <<pc, job, key, stamp, next, call>>
counters == <<clock, jobs, kills>>
observer == <<cursor, printed, unseen, overrun>>
vars == <<tables, lock, local, answer, counters, observer>>

StoreTypeOK ==
  /\ version \in {"old", "current"} /\ columns \in BOOLEAN
  /\ artifacts \in Seq(Owner) /\ attempts \subseteq Attempt
  /\ journal \in Seq([attempt : Attempt, sequence : Nat, at : Nat])
  /\ lock \in [Conn -> {"none", "shared", "reserved", "pending"}]
  /\ pc \in [Conn -> {"idle", "open", "migrate", "upgrade", "migrated", "begin", "append",
                      "check", "replace", "commit"}]
  /\ job \in [Conn -> Job] /\ key \in [Conn -> Attempt]
  /\ requests \in Seq([attempt : Attempt, call : Call])
  /\ clock \in Nat /\ stamp \in [Conn -> Nat] /\ next \in [Conn -> Nat] /\ call \in [Conn -> Call]
  /\ answer \in [Conn -> {"none", "ok", "duplicate", "waited", "refused", "missing"}]
  /\ cursor \in [Attempt -> Nat] /\ printed \in [Attempt -> SUBSET Nat]
  /\ unseen \in Nat /\ overrun \in BOOLEAN

Init ==
  /\ version \in {"old", "current"} /\ columns = (version = "current")
  /\ artifacts = <<"session">> /\ attempts = {1} /\ journal = <<>>
  /\ requests = <<>> /\ call = [c \in Conn |-> CHOOSE k \in Call : TRUE]
  /\ lock = [c \in Conn |-> "none"] /\ pc = [c \in Conn |-> "idle"]
  /\ job = [c \in Conn |-> "event"] /\ key = [c \in Conn |-> 1]
  /\ stamp = [c \in Conn |-> 0] /\ next = [c \in Conn |-> 0]
  /\ answer = [c \in Conn |-> "none"]
  /\ clock = 0 /\ jobs = 0 /\ kills = 0
  /\ cursor = [k \in Attempt |-> 0] /\ printed = [k \in Attempt |-> {}]
  /\ unseen = 0 /\ overrun = FALSE

-----------------------------------------------------------------------------
\* SQLite's locks.

Others(c) == Conn \ {c}
Readable(c) == \A d \in Others(c) : lock[d] # "pending"
Reservable(c) == \A d \in Others(c) : lock[d] \in {"none", "shared"}
Alone(c) == \A d \in Others(c) : lock[d] = "none"

Goto(c, l, p) == lock' = [lock EXCEPT ![c] = l] /\ pc' = [pc EXCEPT ![c] = p]

\* The job of c ends, and with its connection any open transaction.
End(c, a) == Goto(c, "none", "idle") /\ answer' = [answer EXCEPT ![c] = a]

\* A first read, in a transaction that keeps its lock.
Read(c, p) ==
  /\ Readable(c) /\ Goto(c, "shared", p)
  /\ UNCHANGED <<tables, job, key, stamp, next, call, answer, counters, observer>>

\* Mutant: a refused transaction is not rolled back.
UpgradeLeavingLock(c, p) ==
  /\ \/ Reservable(c) /\ Goto(c, "reserved", p) /\ UNCHANGED answer
     \/ ~Reservable(c) /\ Goto(c, "shared", "idle") /\ answer' = [answer EXCEPT ![c] = "refused"]
  /\ UNCHANGED <<tables, job, key, stamp, next, call, counters, observer>>

\* A first write after a read: the busy handler is not asked.
Upgrade(c, p) ==
  /\ \/ Reservable(c) /\ Goto(c, "reserved", p) /\ UNCHANGED answer
     \/ ~Reservable(c) /\ End(c, "refused")
  /\ UNCHANGED <<tables, job, key, stamp, next, call, counters, observer>>

\* A commit first keeps new readers out, then waits for the old ones.
Pend(c) ==
  /\ pc[c] \in {"migrated", "commit"} /\ lock[c] = "reserved"
  /\ lock' = [lock EXCEPT ![c] = "pending"]
  /\ UNCHANGED <<tables, local, answer, counters, observer>>

Commits(c) == lock[c] = "pending" /\ Alone(c)

\* The busy timeout of five seconds passes while c waits.
GiveUp(c) ==
  /\ \/ pc[c] \in {"open", "migrate", "check"} /\ ~Readable(c)
     \/ pc[c] = "begin" /\ ~Reservable(c)
     \/ lock[c] = "pending" /\ ~Alone(c)
  /\ End(c, "waited")
  /\ UNCHANGED <<tables, job, key, stamp, next, call, counters, observer>>

-----------------------------------------------------------------------------
\* Opening.

\* An event belongs to any attempt, and so does a bridge.
StartJob(c) ==
  /\ pc[c] = "idle" /\ jobs < MaxJobs
  /\ jobs' = jobs + 1
  /\ job' \in {[job EXCEPT ![c] = j] : j \in Job}
  /\ key' \in {[key EXCEPT ![c] = k] : k \in Attempt}
  /\ job'[c] \notin {"event", "request"} => key'[c] = 1
  /\ IF job'[c] = "request" THEN call' \in {[call EXCEPT ![c] = n] : n \in Call}
                            ELSE UNCHANGED call
  /\ Goto(c, "none", "open") /\ answer' = [answer EXCEPT ![c] = "none"]
  /\ UNCHANGED <<tables, stamp, next, clock, kills, observer>>

\* Where a job goes on from: a read, or a write that holds nothing yet.
Entry(j) == IF j = "refs" THEN "check" ELSE "begin"

\* The board is open.  An event takes its time here, before its transaction.
Opened(c) ==
  /\ Goto(c, "none", Entry(job[c]))
  /\ stamp' = IF job[c] = "event" THEN [stamp EXCEPT ![c] = clock] ELSE stamp

\* migrate looks at the version outside of any transaction.
Open(c) ==
  /\ pc[c] = "open" /\ Readable(c)
  /\ IF version = "current" THEN Opened(c) ELSE Goto(c, "none", "migrate") /\ UNCHANGED stamp
  /\ UNCHANGED <<tables, job, key, next, call, answer, counters, observer>>

\* The transaction of migrate is deferred: it starts with the reads of
\* ensure_column, and writes next.
MigrateReads(c) == pc[c] = "migrate" /\ Read(c, "upgrade")
MigrateWrites(c) == pc[c] = "upgrade" /\ Upgrade(c, "migrated")

\* Mutant: the artifact table is rebuilt whatever it looks like.
RebuildAlways(rows) == [i \in DOMAIN rows |-> "session"]

\* migrate_artifacts_to_v3 copies the rows into a new table without task_id,
\* and is skipped when the table has that column.
Rebuild(rows) == IF columns THEN rows ELSE [i \in DOMAIN rows |-> "session"]

\* Columns, defaults and version in one transaction.
MigrateCommits(c) ==
  /\ pc[c] = "migrated" /\ Commits(c)
  /\ columns' = TRUE /\ version' = "current" /\ artifacts' = Rebuild(artifacts)
  /\ Opened(c)
  /\ UNCHANGED <<attempts, journal, requests, job, key, next, call, answer, counters, observer>>

-----------------------------------------------------------------------------
\* The jobs.

RowsOf(k) == {i \in DOMAIN journal : journal[i].attempt = k}

\* COALESCE(MAX(sequence), 0) + 1: the numbers of an attempt have no gaps.
ReadNext(c) ==
  next' = IF job[c] = "event" THEN [next EXCEPT ![c] = Cardinality(RowsOf(key[c])) + 1]
          ELSE next

\* Mutant: the sequence is read before the insert reserves.
BeginWithoutLock(c) ==
  /\ pc[c] = "begin" /\ Reservable(c)
  /\ IF job[c] = "event" THEN Goto(c, "none", "append") ELSE Goto(c, "reserved", "commit")
  /\ ReadNext(c)
  /\ UNCHANGED <<tables, job, key, stamp, call, answer, counters, observer>>

\* BEGIN IMMEDIATE and the reads of append_runtime_event, or the start of a
\* single statement.
Begin(c) ==
  /\ pc[c] = "begin" /\ Reservable(c)
  /\ Goto(c, "reserved", IF job[c] = "event" THEN "append" ELSE "commit")
  /\ ReadNext(c)
  /\ UNCHANGED <<tables, job, key, stamp, call, answer, counters, observer>>

\* The attempt must exist.
AppendEvent(c) ==
  /\ pc[c] = "append"
  /\ IF key[c] \in attempts
     THEN Goto(c, "reserved", "commit") /\ UNCHANGED answer
     ELSE End(c, "missing")
  /\ UNCHANGED <<tables, job, key, stamp, next, call, counters, observer>>

CheckRoot(c) == pc[c] = "check" /\ Read(c, "replace")
ReplaceRefs(c) == pc[c] = "replace" /\ Upgrade(c, "commit")

\* The request is on the board, from whichever attempt.
Recorded(n) == \E i \in DOMAIN requests : requests[i].call = n

\* ON CONFLICT DO NOTHING, and what the bridge tells its client.
RecordRequest(c) ==
  IF Recorded(call[c])
  THEN End(c, "duplicate") /\ UNCHANGED requests
  ELSE End(c, "ok") /\ requests' = Append(requests, [attempt |-> key[c], call |-> call[c]])

Commit(c) ==
  /\ pc[c] = "commit" /\ Commits(c)
  /\ IF job[c] = "request" THEN RecordRequest(c) ELSE End(c, "ok") /\ UNCHANGED requests
  /\ \/ /\ job[c] = "event"
        /\ journal' = Append(journal, [attempt |-> key[c], sequence |-> next[c],
                                       at |-> stamp[c]])
        /\ unseen' = unseen + 1
        /\ UNCHANGED <<artifacts, attempts>>
     \/ /\ job[c] = "artifact"
        /\ artifacts' = Append(artifacts, "task")
        /\ UNCHANGED <<journal, attempts, unseen>>
     \/ /\ job[c] = "attempt"
        /\ attempts' = Attempt \cap (attempts \cup {k + 1 : k \in attempts})
        /\ UNCHANGED <<journal, artifacts, unseen>>
     \/ /\ job[c] \in {"refs", "request"}
        /\ UNCHANGED <<journal, artifacts, attempts, unseen>>
  /\ UNCHANGED <<version, columns, job, key, stamp, next, call, counters, cursor, printed, overrun>>

\* The process ends; SQLite rolls its transaction back.
Kill(c) ==
  /\ pc[c] # "idle" /\ kills < MaxKills
  /\ kills' = kills + 1
  /\ End(c, "none")
  /\ UNCHANGED <<tables, job, key, stamp, next, call, clock, jobs, observer>>

Tick ==
  /\ clock < MaxClock /\ clock' = clock + 1
  /\ UNCHANGED <<tables, lock, local, answer, jobs, kills, observer>>

-----------------------------------------------------------------------------
\* The follower.

\* latest_runtime_events: the newest QueryMax rows of the task, by id.
Latest == {i \in DOMAIN journal : i + QueryMax > Len(journal)}

\* read sorts by time, then sequence.
SortsBefore(i, j) ==
  \/ journal[i].at < journal[j].at
  \/ journal[i].at = journal[j].at /\ journal[i].sequence < journal[j].sequence

\* follow goes through them and prints what is above the cursor of its attempt.
Above(k) == {i \in Latest \cap RowsOf(k) : journal[i].sequence > cursor[k]}
Prints(k) ==
  {i \in Above(k) : ~\E j \in Above(k) :
     SortsBefore(j, i) /\ journal[j].sequence > journal[i].sequence}

\* Mutant: one cursor for all attempts.
HighestOfTask(k) ==
  LET all == {cursor[k]} \cup {journal[i].sequence : i \in Latest}
  IN CHOOSE s \in all : \A r \in all : r <= s

Highest(k) ==
  IF Above(k) = {} THEN cursor[k]
  ELSE CHOOSE s \in {journal[i].sequence : i \in Above(k)} :
         \A i \in Above(k) : journal[i].sequence <= s

Poll ==
  /\ unseen > 0 /\ \A c \in Conn : lock[c] # "pending"
  /\ printed' = [k \in Attempt |-> printed[k] \cup {journal[i].sequence : i \in Prints(k)}]
  /\ cursor' = [k \in Attempt |-> Highest(k)]
  /\ unseen' = 0 /\ overrun' = (overrun \/ unseen > QueryMax)
  /\ UNCHANGED <<tables, lock, local, answer, counters>>

-----------------------------------------------------------------------------
Work(c) ==
  \/ Open(c) \/ MigrateReads(c) \/ MigrateWrites(c) \/ MigrateCommits(c)
  \/ Begin(c) \/ AppendEvent(c) \/ CheckRoot(c) \/ ReplaceRefs(c)
  \/ Pend(c) \/ Commit(c)

Next ==
  \/ \E c \in Conn : StartJob(c) \/ Work(c) \/ GiveUp(c) \/ Kill(c)
  \/ Poll \/ Tick

\* Processes run.  Nothing is assumed of the clock, so no timeout is needed.
Fairness == (\A c \in Conn : WF_vars(Work(c))) /\ WF_vars(Poll)

Spec == Init /\ [][Next]_vars
FairSpec == Spec /\ Fairness

-----------------------------------------------------------------------------
\* "Overlapping writers for the same attempt cannot allocate the same sequence"
\* (board.rs:244-246): in the order of their rows the events of an attempt are
\* numbered 1, 2, 3 ..., whoever wrote them and whatever was killed in between,
\* and only attempts on the board have any.
EventsAreSequenced ==
  \A i \in DOMAIN journal :
    /\ journal[i].attempt \in attempts
    /\ journal[i].sequence =
         Cardinality({j \in RowsOf(journal[i].attempt) : j <= i})

\* "Idempotently persists a bounded external tool request" (board.rs:381): a
\* request is on the board once, however often and from wherever it is sent,
\* and whoever is told that it is persisted or a duplicate finds it there.
RequestsAreRecordedOnce ==
  /\ \A i, j \in DOMAIN requests : requests[i].call = requests[j].call => i = j
  /\ \A c \in Conn : job[c] = "request" /\ answer[c] \in {"ok", "duplicate"} => Recorded(call[c])

\* What writers on connections of their own leave in the two tables that they
\* share (board.rs:244-301, 381-387).
WritersKeepApart == EventsAreSequenced /\ RequestsAreRecordedOnce

\* Two processes may migrate one database one after the other, the second on
\* the strength of a version it read before, while the first already works: no
\* row loses what it had, and the version never promises columns that are not
\* there (schema.rs:178-355).
MigrationKeepsRows ==
  [][/\ \A i \in DOMAIN artifacts : i \in DOMAIN artifacts' /\ artifacts'[i] = artifacts[i]
     /\ version' = "current" => columns'
     /\ version = "current" => version' = "current"]_vars

\* An event older than one of its attempt that was appended before it.
Disordered(i) ==
  \E j \in RowsOf(journal[i].attempt) : SortsBefore(j, i) # (j < i) /\ j # i

\* `am events --follow` prints every event of an attempt up to its cursor,
\* unless a poll came more than QueryMax rows late or two writers overlapped
\* so that times and sequences disagree (events.rs:33-66).
FollowIsComplete ==
  ~overrun =>
    \A i \in DOMAIN journal :
      journal[i].sequence <= cursor[journal[i].attempt] =>
        \/ journal[i].sequence \in printed[journal[i].attempt]
        \/ Disordered(i)

\* No two connections wait for each other: every job ends without help of the
\* busy timeout (board.rs:118-127, 701-752).
EveryJobEnds == \A c \in Conn : pc[c] # "idle" ~> pc[c] = "idle"
=============================================================================
