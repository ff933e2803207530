------------------------------ MODULE TeamSetup ------------------------------
(***************************************************************************)
(* From the rows of the agent registry to a run: `am agent add`, `register` *)
(* and `remove` edit the rows, `am init`, `remove` and `am doctor` tell the *)
(* operator what the team lacks, and a run reads the rows once, builds its  *)
(* registry, its Lead and one driver per row, and only then writes to the   *)
(* board (team_runner.rs:322-445).  The first `am init` has been run: it    *)
(* leaves a database without rows.                                         *)
(*                                                                         *)
(* A row keeps what one of the judges looks at: its tier, its kind, whether *)
(* it names a program, its concurrency, and the flaws of its options, the   *)
(* set of those some judge refuses.                                        *)
(*                                                                         *)
(* External: whether a program is installed and answers the doctor's probe. *)
(***************************************************************************)
EXTENDS Naturals, Sequences, SequencesExt, FiniteSetsExt

CONSTANTS
  Ids,          \* agent ids, in the order of the registry's keys
  RowsOf,       \* the rows the operator may write for each
  MaxEdits      \* bound: edits of the registry

ASSUME SetupAssumption ==
  Ids \subseteq Nat \ {0} /\ IsFiniteSet(Ids) /\ MaxEdits \in Nat

VARIABLES
  rows,         \* agent_registry: a row, or NoRow
  verdict,      \* what the operator was last told of the rows as they are
  command,      \* the run: where it is
  request,      \* --lead, or 0
  records,      \* the rows the run has read
  told,         \* the verdict when it read them
  drivers,      \* agents with a driver
  root,         \* the root on the board
  touched,      \* the run has written to the board
  edits

vars == <<rows, verdict, command, request, records, told, drivers, root, touched, edits>>

NoRow == [tier |-> "none"]
Agents(r) == {a \in Ids : r[a] # NoRow}
OfTier(r, tier) == {a \in Agents(r) : r[a].tier = tier}
Adapters == {"acp", "codex-app-server", "codex-exec", "claude-cli"}

\* What is said to the operator, and of which agent, if of one.
Say(words, a) == [says |-> words, agent |-> a]
Nothing == Say("nothing", 0)

-----------------------------------------------------------------------------
\* The judges of one row.

\* parse_agent_options: an object, no key that looks like a secret, typed.
Parses(row) == "shape" \notin row.flaws
AcpValues(row) == row.flaws \cap {"timeout", "prompt", "result", "path"} = {}
CodexValues(row) == row.flaws \cap {"events", "path"} = {}
OptionValues(row) ==
  CASE row.kind = "codex-app-server" -> CodexValues(row)
    [] row.kind \in {"acp", "codex-exec", "claude-cli"} -> AcpValues(row)
    [] OTHER -> TRUE

\* validate_registry_row
RegistryRow(row) == row.tier \in {"reasoner", "worker", "utility"} /\ row.concurrency > 0

\* lead_config: the options are judged by the Codex rules whichever Codex
\* runtime it is; a prompt too short for a Lead is enough for a driver.
LeadConfig(row) ==
  /\ row.kind \in {"codex-app-server", "codex-exec"}
  /\ Parses(row) /\ CodexValues(row) /\ row.program
  /\ row.flaws \cap {"model", "prompt", "short_prompt", "answer"} = {}

\* validate_driver_config, the doctor's judge of a driver.
DriverConfig(row) == Parses(row) /\ OptionValues(row)

\* build_one: the driver's own validation comes on top.  codex-exec manages
\* its schema itself and refuses any; claude-cli needs a file that exists.
LaunchSpec(row) == row.program
Builds(row) ==
  /\ row.kind \in Adapters /\ LaunchSpec(row)
  /\ Parses(row) /\ OptionValues(row)
  /\ row.kind = "codex-exec" => row.flaws \cap {"schema", "no_schema"} = {}
  /\ row.kind = "claude-cli" => "no_schema" \notin row.flaws

-----------------------------------------------------------------------------
\* The registry of a run, and routing.

\* AgentRegistry::new
Registry(r) ==
  /\ \A a \in Agents(r) : RegistryRow(r[a])
  /\ OfTier(r, "reasoner") # {} /\ OfTier(r, "worker") # {}

\* resolve_lead: the one asked for, or the only reasoner; 0 when refused.
Lead(r, asked) ==
  LET leads == OfTier(r, "reasoner")
  IN IF asked # 0 THEN IF asked \in leads THEN asked ELSE 0
     ELSE IF \E a \in leads : leads = {a} THEN Min(leads) ELSE 0

TaskKinds == {"reasoning", "review", "bulk", "tool", "utility"}
TierOf(kind) ==
  CASE kind \in {"reasoning", "review"} -> "reasoner"
    [] kind \in {"bulk", "tool"} -> "worker"
    [] OTHER -> "utility"

\* AgentRegistry::route, of a registry without a default.
Route(r, kind, target) ==
  LET tier == OfTier(r, TierOf(kind))
      spare == IF kind = "utility" THEN OfTier(r, "worker") ELSE Agents(r)
  IN IF target \in Agents(r) THEN target
     ELSE IF tier # {} THEN Min(tier)
     ELSE IF spare # {} THEN Min(spare) ELSE 0

\* agent_ids: the registry is a map, whose keys come in their order.
InOrder(S) ==
  [n \in 1 .. Cardinality(S) |-> CHOOSE a \in S : Cardinality({b \in S : b <= a}) = n]

\* Scheduler::candidate_order: of an agent named twice the first mention stays.
CandidateOrder(r, kind, target) ==
  LET first == Agents(r) \cap {target}
      tier == OfTier(r, TierOf(kind))
      spare == IF kind = "utility" /\ first \cup tier = {} THEN OfTier(r, "worker") ELSE {}
  IN InOrder(first) \o InOrder(tier \ first) \o InOrder(spare)

-----------------------------------------------------------------------------
\* am doctor.

\* Mutant: the Lead is judged as a driver only.
ConfigurationAsDriver(r, a) == RegistryRow(r[a]) /\ DriverConfig(r[a])

\* configuration_problem
ConfigurationOk(r, a) ==
  /\ RegistryRow(r[a])
  /\ a = Lead(r, 0) => LeadConfig(r[a])
  /\ DriverConfig(r[a])

CompositionReady(r) ==
  Cardinality(OfTier(r, "reasoner")) = 1 /\ OfTier(r, "worker") # {}

\* A probe succeeds only of a program it finds, through one of four protocols.
CanAnswer(row) == LaunchSpec(row) /\ row.kind \in Adapters

LeadRemediation(r) ==
  Say(IF OfTier(r, "reasoner") = {} THEN "no lead" ELSE "several leads", 0)

\* Whether an agent is ready, and what stands in its way otherwise.
IsReady(r, silent, a) == ConfigurationOk(r, a) /\ CanAnswer(r[a]) /\ a \notin silent
AgentRemediation(r, a) == Say(IF ConfigurationOk(r, a) THEN "runtime" ELSE "configuration", a)

\* The one decision to make next: composition first, then the first agent
\* that is not ready.  silent: agents whose probe fails though it might not.
Remediation(r, silent) ==
  LET unready == {a \in Agents(r) : ~IsReady(r, silent, a)}
  IN IF Cardinality(OfTier(r, "reasoner")) # 1 THEN LeadRemediation(r)
     ELSE IF OfTier(r, "worker") = {} THEN Say("no worker", 0)
     ELSE IF unready # {} THEN AgentRemediation(r, Min(unready)) ELSE Say("ready", 0)

Doctor ==
  /\ \E silent \in {{}} \cup {{a} : a \in Ids} : verdict' = Remediation(rows, silent)
  /\ UNCHANGED <<rows, command, request, records, told, drivers, root, touched, edits>>

-----------------------------------------------------------------------------
\* `am init`, run again: the database is kept, and the next step told.

NextSteps(r) ==
  LET leads == OfTier(r, "reasoner") workers == OfTier(r, "worker")
  IN CASE leads = {} /\ workers = {} -> "add both"
       [] leads = {} /\ workers # {} -> "add a lead"
       [] leads # {} /\ workers = {} -> "add a worker"
       [] Cardinality(leads) > 1 /\ workers # {} -> "leave one lead"
       [] OTHER -> "check"

InitProject ==
  /\ verdict' = Say(NextSteps(rows), 0)
  /\ UNCHANGED <<rows, command, request, records, told, drivers, root, touched, edits>>

-----------------------------------------------------------------------------
\* The operator edits the registry, at any time.

\* upsert_agent replaces a whole row, delete_agent deletes it.
Edit(a, row, words) ==
  /\ edits < MaxEdits /\ row # rows[a]
  /\ rows' = [rows EXCEPT ![a] = row]
  /\ verdict' = words /\ edits' = edits + 1
  /\ UNCHANGED <<command, request, records, told, drivers, root, touched>>

\* Neither surface takes a concurrency of zero; an older row may have it.
\* `am agent add` names a program and an adapter, and writes two options only.
AddAgent(a) ==
  \E row \in RowsOf[a] :
    /\ row.concurrency > 0 /\ row.program /\ row.kind \in Adapters /\ row.flaws \subseteq {"path"}
    /\ Edit(a, row, Nothing)

\* `register` takes any driver kind, no program, and any JSON object of options.
Register(a) == \E row \in RowsOf[a] : row.concurrency > 0 /\ Edit(a, row, Nothing)

\* The warning is about the team as it is after the deletion.
RemoveAgent(a) ==
  /\ rows[a] # NoRow
  /\ Edit(a, NoRow,
          IF CompositionReady([rows EXCEPT ![a] = NoRow]) THEN Nothing ELSE Say("not runnable", 0))

-----------------------------------------------------------------------------
\* A run, or the resume of one.

\* The rows are read once, in one statement.
ReadRecords(asked) ==
  /\ request' = asked /\ records' = rows /\ told' = verdict
  /\ UNCHANGED <<rows, verdict, drivers, root, touched, edits>>

Run(asked) ==
  /\ command = "idle" /\ root = "none"
  /\ command' = "run" /\ ReadRecords(asked)

\* A root that has succeeded is answered from the board alone.
ResumeSucceeded ==
  /\ command = "idle" /\ root = "succeeded"
  /\ command' = "answered"
  /\ UNCHANGED <<rows, verdict, request, records, told, drivers, root, touched, edits>>

Resume(asked) ==
  /\ command = "idle" /\ root = "open"
  /\ command' = "resume" /\ ReadRecords(asked)

\* Mutant: a row that makes no driver is skipped.
DriversWhereTheyBuild(r) == [ok |-> TRUE, of |-> {a \in Agents(r) : Builds(r[a])}]

\* Every record makes a driver, or the run is refused.
Drivers(r) ==
  [ok |-> \A a \in Agents(r) : Builds(r[a]), of |-> {a \in Agents(r) : Builds(r[a])}]

Accepts(r, asked) ==
  /\ Registry(r) /\ Lead(r, asked) # 0
  /\ LeadConfig(r[Lead(r, asked)])
  /\ Drivers(r).ok

\* Registry, Lead and drivers are built in memory.
Configure ==
  /\ command \in {"run", "resume"}
  /\ IF Accepts(records, request)
     THEN /\ command' = IF command = "run" THEN "create" ELSE "recover"
          /\ drivers' = Drivers(records).of
     ELSE command' = "refused" /\ UNCHANGED drivers
  /\ UNCHANGED <<rows, verdict, request, records, told, root, touched, edits>>

\* The root is created, or the descendants of the old one are recovered.
Touch ==
  /\ command \in {"create", "recover"}
  /\ command' = "driving" /\ root' = "open" /\ touched' = TRUE
  /\ UNCHANGED <<rows, verdict, request, records, told, drivers, edits>>

Init ==
  /\ rows \in {r \in [Ids -> {NoRow} \cup UNION {RowsOf[a] : a \in Ids}] :
                 \A a \in Ids : r[a] \in RowsOf[a] \cup {NoRow}}
  /\ verdict = Nothing
  /\ command = "idle" /\ request = 0 /\ records = [a \in Ids |-> NoRow] /\ told = Nothing
  /\ drivers = {} /\ root \in {"none", "open", "succeeded"} /\ touched = FALSE /\ edits = 0

Next ==
  \/ Doctor \/ InitProject
  \/ \E a \in Ids : AddAgent(a) \/ Register(a) \/ RemoveAgent(a)
  \/ \E asked \in Ids \cup {0} : Run(asked) \/ Resume(asked)
  \/ ResumeSucceeded \/ Configure \/ Touch

Spec == Init /\ [][Next]_vars

-----------------------------------------------------------------------------
\* What each variable holds.
TypeOK ==
  /\ {rows, records} \subseteq {r \in [Ids -> {NoRow} \cup UNION {RowsOf[a] : a \in Ids}] :
                              \A a \in Agents(r) : r[a] \in RowsOf[a]}
  /\ {verdict.agent, told.agent, request} \subseteq Ids \cup {0}
  /\ command \in {"idle", "run", "resume", "create", "recover", "driving", "refused", "answered"}
  /\ drivers \subseteq Agents(records)
  /\ root \in {"none", "open", "succeeded"} /\ touched = (command = "driving")
  /\ edits \in 0 .. MaxEdits

SchemaIsNamed(r) ==
  \E a \in Agents(r) : r[a].kind \in {"codex-exec", "claude-cli"} /\
                       r[a].flaws \cap {"schema", "no_schema"} # {}

\* "A readiness verdict and a run can never disagree" (team_runner.rs:578-582):
\* of the rows it reads, without --lead, a run accepts what the doctor called
\* ready.  It refuses a team that `am init`, `am agent remove` or the doctor
\* called incomplete, be a Lead asked for or not, and one of several Leads
\* unless one is asked for; it refuses what the doctor refused for its rows, for
\* a row of the agent the doctor named.  Excepted are agents that name an
\* output_schema, of which validate_driver_config knows nothing.
DoctorSpeaksForRun ==
  command \in {"refused", "create", "recover", "driving"} =>
    /\ told.says = "ready" /\ request = 0 => command # "refused" \/ SchemaIsNamed(records)
    /\ told.says \in {"no lead", "no worker", "add both", "add a lead", "add a worker"} =>
         command = "refused"
    /\ told.says \in {"several leads", "leave one lead", "not runnable"} /\ request = 0 =>
         command = "refused"
    /\ told.says = "configuration" =>
         LET row == records[told.agent]
         IN /\ command = "refused"
            /\ \/ ~RegistryRow(row) \/ ~Builds(row)
               \/ told.agent = Lead(records, 0) /\ ~LeadConfig(row)

\* "A configuration error must never leave a root behind" (330-331), nor close
\* attempts (413-415): whoever writes to the board has a reasoner for its Lead
\* and, whatever has been edited since, can serve any task it is given: the
\* order of its candidates begins where route would go, names nobody twice,
\* never leaves utility work to a reasoner, and each candidate has a driver.
StartedRunIsRoutable ==
  touched =>
    /\ records[Lead(records, request)].tier = "reasoner"
    /\ \A kind \in TaskKinds, target \in Ids \cup {0} :
         LET order == CandidateOrder(records, kind, target)
         IN /\ order # <<>> /\ Head(order) = Route(records, kind, target)
            /\ IsInjective(order)
            /\ \A i \in DOMAIN order :
                 /\ order[i] \in drivers
                 /\ kind = "utility" /\ order[i] # target => records[order[i]].tier # "reasoner"
=============================================================================
