-------------------------- MODULE TeamSetupProofs --------------------------
(***************************************************************************)
(* Proofs about TeamSetup, for every finite set of agents, whatever rows   *)
(* the operator may write for them, and any number of edits.               *)
(***************************************************************************)
EXTENDS TeamSetup, FiniteSetTheorems, WellFoundedInduction, TLAPS

-----------------------------------------------------------------------------
(* The keys of the registry in their order.                                *)

\* A nonempty set of naturals has a least member, and Min is it.
LEMMA MinIs ==
  ASSUME NEW S \in SUBSET Nat, S # {}
  PROVE  Min(S) \in S /\ \A b \in S : Min(S) <= b
<1> DEFINE R == OpToRel(<, Nat)
<1>1. PICK a \in S : \A b \in S : ~ (<<b, a>> \in R)
  <2> HIDE DEF R
  <2>1. IsWellFoundedOn(R, Nat)
    BY NatLessThanWellFounded DEF R
  <2>. QED
    BY <2>1, WFMin
<1>2. \A b \in S : a <= b
  <2> TAKE b \in S
  <2>1. ~ (b < a)
    BY <1>1 DEF OpToRel
  <2>. QED
    BY <2>1
<1>. QED
  BY <1>2 DEF Min

\* The members up to k are as many as the place of k among them.
LEMMA RanksAre ==
  ASSUME NEW S \in SUBSET Nat, IsFiniteSet(S)
  PROVE  /\ Cardinality(S) \in Nat
         /\ \A k \in S : Cardinality({b \in S : b <= k}) \in 1 .. Cardinality(S)
         /\ \A j, k \in S : j < k =>
              Cardinality({b \in S : b <= j}) < Cardinality({b \in S : b <= k})
         /\ \A n \in 1 .. Cardinality(S) :
              \E k \in S : Cardinality({b \in S : b <= k}) = n
<1> DEFINE N == Cardinality(S)
           upto(k) == {b \in S : b <= k}
           rank == [k \in S |-> Cardinality(upto(k))]
<1>1. N \in Nat
  BY FS_CardinalityType
<1>2. ASSUME NEW k \in S
      PROVE  IsFiniteSet(upto(k)) /\ Cardinality(upto(k)) \in 1 .. N
  <2>1. upto(k) \in SUBSET S /\ k \in upto(k)
    OBVIOUS
  <2> HIDE DEF upto
  <2>2. IsFiniteSet(upto(k)) /\ Cardinality(upto(k)) <= N
    BY <2>1, FS_Subset
  <2>3. Cardinality(upto(k)) \in Nat
    BY <2>2, FS_CardinalityType
  <2>4. Cardinality(upto(k)) # 0
    BY <2>1, <2>2, FS_EmptySet
  <2>. QED
    BY <1>1, <2>2, <2>3, <2>4
<1>3. ASSUME NEW j \in S, NEW k \in S, j < k
      PROVE  Cardinality(upto(j)) < Cardinality(upto(k))
  <2>1. upto(j) \in SUBSET upto(k) /\ upto(j) # upto(k)
    <3>1. k \in upto(k) /\ k \notin upto(j)
      BY <1>3
    <3>2. \A b \in S : b <= j => b <= k
      BY <1>3
    <3>. QED
      BY <3>1, <3>2
  <2>2. IsFiniteSet(upto(k)) /\ Cardinality(upto(j)) \in Nat /\ Cardinality(upto(k)) \in Nat
    BY <1>2
  <2> HIDE DEF upto
  <2>3. Cardinality(upto(j)) <= Cardinality(upto(k)) /\ Cardinality(upto(k)) # Cardinality(upto(j))
    BY <2>1, <2>2, FS_Subset
  <2>. QED
    BY <2>2, <2>3
<1>4. rank \in Surjection(S, 1 .. N)
  <2> HIDE DEF upto
  <2>1. rank \in [S -> 1 .. N]
    BY <1>2
  <2>2. \A j, k \in S : j # k => rank[j] # rank[k]
    <3> TAKE j, k \in S
    <3>1. CASE j < k
      BY <3>1, <1>2, <1>3
    <3>2. CASE k < j
      BY <3>2, <1>2, <1>3
    <3>. QED
      BY <3>1, <3>2
  <2> HIDE DEF rank
  <2>3. rank \in Injection(S, 1 .. N)
    BY <2>1, <2>2 DEF Injection, IsInjective
  <2>4. IsFiniteSet(1 .. N) /\ Cardinality(1 .. N) = N
    BY <1>1, FS_Interval
  <2>. QED
    BY <2>3, <2>4, FS_Injection
<1>5. \A n \in 1 .. N : \E k \in S : Cardinality(upto(k)) = n
  <2> HIDE DEF upto
  <2>. QED
    BY <1>4 DEF Surjection
<1>. QED
  BY <1>1, <1>2, <1>3, <1>5

\* The keys in order: every key once, the least one first (agent_ids).
LEMMA InOrderIs ==
  ASSUME NEW S \in SUBSET Nat, IsFiniteSet(S)
  PROVE  /\ InOrder(S) \in Seq(S) /\ Len(InOrder(S)) = Cardinality(S)
         /\ \A m, n \in 1 .. Len(InOrder(S)) : m # n => InOrder(S)[m] # InOrder(S)[n]
         /\ S # {} => Len(InOrder(S)) > 0 /\ InOrder(S)[1] = Min(S)
         /\ S = {} => Len(InOrder(S)) = 0
<1> DEFINE N == Cardinality(S)
           rank(k) == Cardinality({b \in S : b <= k})
<1>1. /\ N \in Nat
      /\ \A k \in S : rank(k) \in 1 .. N
      /\ \A j, k \in S : j < k => rank(j) < rank(k)
      /\ \A n \in 1 .. N : \E k \in S : rank(k) = n
  BY RanksAre
<1>2. InOrder(S) = [n \in 1 .. N |-> CHOOSE a \in S : rank(a) = n]
  BY DEF InOrder
<1> HIDE DEF rank
<1>3. \A n \in 1 .. N : InOrder(S)[n] \in S /\ rank(InOrder(S)[n]) = n
  BY <1>1, <1>2
<1>4. InOrder(S) \in Seq(S) /\ Len(InOrder(S)) = N
  BY <1>1, <1>2, <1>3
<1>5. S # {} => N > 0 /\ InOrder(S)[1] = Min(S)
  <2> HAVE S # {}
  <2>1. N > 0 /\ 1 \in 1 .. N
    BY <1>1, FS_EmptySet
  <2>2. Min(S) \in S /\ \A b \in S : Min(S) <= b
    BY MinIs
  <2>3. InOrder(S)[1] \in S /\ rank(InOrder(S)[1]) = 1
    BY <1>3, <2>1
  <2>4. ~ (Min(S) < InOrder(S)[1])
    <3> SUFFICES ASSUME Min(S) < InOrder(S)[1] PROVE FALSE
      OBVIOUS
    <3>1. rank(Min(S)) < rank(InOrder(S)[1])
      BY <1>1, <2>2, <2>3
    <3>2. rank(Min(S)) \in 1 .. N
      BY <1>1, <2>2
    <3>. QED
      BY <1>1, <2>3, <3>1, <3>2
  <2>5. Min(S) <= InOrder(S)[1] /\ Min(S) \in Nat /\ InOrder(S)[1] \in Nat
    BY <2>2, <2>3
  <2>. QED
    BY <2>1, <2>4, <2>5
<1>6. S = {} => N = 0
  BY FS_EmptySet
<1>. QED
  BY <1>3, <1>4, <1>5, <1>6

-----------------------------------------------------------------------------
(* Types.                                                                  *)

\* The agents of any registry are among the ids, which are positive.
LEMMA AgentsAre ==
  ASSUME NEW r
  PROVE  /\ Agents(r) \in SUBSET Nat /\ IsFiniteSet(Agents(r)) /\ 0 \notin Agents(r)
         /\ \A tier : /\ OfTier(r, tier) \in SUBSET Agents(r) /\ OfTier(r, tier) \in SUBSET Nat
                      /\ IsFiniteSet(OfTier(r, tier))
<1>1. Ids \in SUBSET Nat /\ IsFiniteSet(Ids) /\ 0 \notin Ids
  BY SetupAssumption
<1>2. Agents(r) \in SUBSET Ids /\ \A tier : OfTier(r, tier) \in SUBSET Agents(r)
  BY DEF Agents, OfTier
<1>3. IsFiniteSet(Agents(r))
  BY <1>1, <1>2, FS_Subset
<1>4. \A tier : IsFiniteSet(OfTier(r, tier))
  BY <1>2, <1>3, FS_Subset
<1>. QED
  BY <1>1, <1>2, <1>3, <1>4

\* The doctor names an agent of the registry, or none.
LEMMA RemediationIs ==
  ASSUME NEW r, NEW silent
  PROVE  \/ /\ Remediation(r, silent).agent = 0
            /\ Remediation(r, silent).says # "configuration"
         \/ /\ Remediation(r, silent).agent \in Agents(r)
            /\ Remediation(r, silent).says = "configuration" =>
                 ~ConfigurationOk(r, Remediation(r, silent).agent)
            /\ Remediation(r, silent).says \in {"configuration", "runtime"}
<1> DEFINE unready == {a \in Agents(r) : ~IsReady(r, silent, a)}
<1>1. unready # {} => Min(unready) \in Agents(r)
  <2>1. unready \in SUBSET Nat /\ unready \in SUBSET Agents(r)
    BY AgentsAre
  <2> HIDE DEF unready
  <2>. QED
    BY <2>1, MinIs
<1> HIDE DEF unready
<1>2. /\ LeadRemediation(r).agent = 0 /\ LeadRemediation(r).says # "configuration"
      /\ \A a : /\ AgentRemediation(r, a).agent = a
                /\ AgentRemediation(r, a).says \in {"configuration", "runtime"}
                /\ AgentRemediation(r, a).says = "configuration" => ~ConfigurationOk(r, a)
  BY DEF LeadRemediation, AgentRemediation, Say
<1>. QED
  BY <1>1, <1>2 DEF Remediation, unready, Say

\* A registry the operator can have written.
Written(r) ==
  /\ r \in [Ids -> {NoRow} \cup UNION {RowsOf[a] : a \in Ids}]
  /\ \A a \in Agents(r) : r[a] \in RowsOf[a]

\* An edit writes a row the operator may write, or deletes one.
LEMMA WrittenEdit ==
  ASSUME NEW r, Written(r), NEW a \in Ids, NEW row \in RowsOf[a] \cup {NoRow}
  PROVE  Written([r EXCEPT ![a] = row])
BY DEF Written, Agents

\* The registry a run finds is well typed.
LEMMA TypeInit == Init => TypeOK
<1> SUFFICES ASSUME Init PROVE TypeOK
  OBVIOUS
<1>1. Written(rows) /\ Written(records)
  BY DEF Init, Written, Agents
<1>2. {verdict.agent, told.agent, request} \subseteq Ids \cup {0} /\ edits \in 0 .. MaxEdits
  BY SetupAssumption DEF Init, Nothing, Say
<1>. QED
  BY <1>1, <1>2 DEF TypeOK, Written, Init

\* Drivers are built for the records that were read.
Fresh == command \in {"idle", "run", "resume"} => drivers = {}

\* Every step keeps the types.
LEMMA TypeStep == TypeOK /\ Fresh /\ [Next]_vars => TypeOK' /\ Fresh'
<1> SUFFICES ASSUME TypeOK, Fresh, [Next]_vars PROVE TypeOK' /\ Fresh'
  OBVIOUS
<1>c. Fresh'
  <2>1. command' \in {"idle", "run", "resume"} =>
          drivers' = drivers /\ command \in {"idle", "run", "resume"}
    BY DEF Next, Doctor, InitProject, AddAgent, Register, RemoveAgent, Edit, Run, Resume,
       ReadRecords, ResumeSucceeded, Configure, Touch, vars
  <2>. QED
    BY <2>1 DEF Fresh
<1> SUFFICES TypeOK'
  BY <1>c
<1>a. /\ Written(rows) /\ Written(records) /\ verdict.agent \in Ids \cup {0}
      /\ told.agent \in Ids \cup {0} /\ request \in Ids \cup {0}
      /\ command \in {"idle", "run", "resume", "create", "recover", "driving", "refused", "answered"}
      /\ drivers \in SUBSET Agents(records) /\ root \in {"none", "open", "succeeded"}
      /\ touched = (command = "driving") /\ edits \in 0 .. MaxEdits
  BY DEF TypeOK, Written
<1>b. (/\ Written(rows) /\ Written(records) /\ verdict.agent \in Ids \cup {0}
       /\ told.agent \in Ids \cup {0} /\ request \in Ids \cup {0}
       /\ command \in {"idle", "run", "resume", "create", "recover", "driving", "refused", "answered"}
       /\ drivers \in SUBSET Agents(records) /\ root \in {"none", "open", "succeeded"}
       /\ touched = (command = "driving") /\ edits \in 0 .. MaxEdits)' => TypeOK'
  BY DEF TypeOK, Written
<1> USE DEF Written
<1>1. CASE Doctor
  <2>1. PICK silent : verdict' = Remediation(rows, silent)
    BY <1>1 DEF Doctor
  <2>2. verdict'.agent \in Ids \cup {0}
    BY <2>1, RemediationIs DEF Agents
  <2>. QED
    BY <1>1, <1>a, <1>b, <2>2 DEF Doctor
<1>2. CASE InitProject
  BY <1>2, <1>a, <1>b DEF InitProject, Say
<1>3. ASSUME NEW a \in Ids, AddAgent(a) \/ Register(a) \/ RemoveAgent(a)
      PROVE  TypeOK'
  <2>1. PICK row, words :
          row \in RowsOf[a] \cup {NoRow} /\ Edit(a, row, words) /\ words.agent = 0
    <3>1. CASE AddAgent(a)
      <4>1. PICK row \in RowsOf[a] : Edit(a, row, Nothing)
        BY <3>1 DEF AddAgent
      <4>. QED
        BY <4>1 DEF Nothing, Say
    <3>2. CASE Register(a)
      <4>1. PICK row \in RowsOf[a] : Edit(a, row, Nothing)
        BY <3>2 DEF Register
      <4>. QED
        BY <4>1 DEF Nothing, Say
    <3>3. CASE RemoveAgent(a)
      <4>1. Nothing.agent = 0 /\ Say("not runnable", 0).agent = 0
        BY DEF Nothing, Say
      <4>2. \/ Edit(a, NoRow, Nothing)
            \/ Edit(a, NoRow, Say("not runnable", 0))
        BY <3>3 DEF RemoveAgent
      <4>. QED
        BY <4>1, <4>2
    <3>. QED
      BY <1>3, <3>1, <3>2, <3>3
  <2>2. Written(rows')
    BY <1>a, <2>1, WrittenEdit DEF Edit
  <2>3. edits' \in 0 .. MaxEdits
    BY <1>a, <2>1, SetupAssumption DEF Edit
  <2>. QED
    BY <1>a, <1>b, <2>1, <2>2, <2>3 DEF Edit
<1>4. ASSUME NEW asked \in Ids \cup {0}, Run(asked) \/ Resume(asked)
      PROVE  TypeOK'
  <2>1. drivers = {}
    BY <1>4 DEF Run, Resume, Fresh
  <2>. QED
    BY <1>4, <1>a, <1>b, <2>1 DEF Run, Resume, ReadRecords
<1>5. CASE ResumeSucceeded
  BY <1>5, <1>a, <1>b DEF ResumeSucceeded
<1>6. CASE Configure
  BY <1>6, <1>a, <1>b DEF Configure, Drivers
<1>7. CASE Touch
  BY <1>7, <1>a, <1>b DEF Touch
<1>8. CASE UNCHANGED vars
  BY <1>8, <1>a, <1>b DEF vars
<1>. QED
  BY <1>1, <1>2, <1>3, <1>4, <1>5, <1>6, <1>7, <1>8 DEF Next

\* Every reachable state is well typed.
THEOREM TypesHold == Spec => []TypeOK
<1>1. Init => TypeOK /\ Fresh
  BY TypeInit DEF Init, Fresh
<1>2. (TypeOK /\ Fresh) /\ [Next]_vars => (TypeOK /\ Fresh)'
  BY TypeStep
<1>. QED
  BY <1>1, <1>2, PTL DEF Spec

-----------------------------------------------------------------------------
(* What the operator is told, and what a run does.                         *)

\* What v says of the rows r is so.
Holds(v, r) ==
  LET leads == OfTier(r, "reasoner")
      workers == OfTier(r, "worker")
  IN /\ v.says = "ready" =>
          /\ Cardinality(leads) = 1 /\ workers # {}
          /\ \A a \in Agents(r) : ConfigurationOk(r, a) /\ CanAnswer(r[a])
     /\ v.says \in {"no lead", "add both", "add a lead"} => leads = {}
     /\ v.says \in {"no worker", "add a worker"} => workers = {}
     /\ v.says \in {"several leads", "leave one lead"} => Cardinality(leads) # 1
     /\ v.says = "not runnable" => ~CompositionReady(r)
     /\ v.says = "configuration" => v.agent \in Agents(r) /\ ~ConfigurationOk(r, v.agent)

\* The operator was told the truth about the rows, and so about those a run
\* has read; the run goes on if, and only if, it accepts them.
Judged ==
  /\ Holds(verdict, rows) /\ Holds(told, records)
  /\ command \in {"create", "recover", "driving"} =>
       Accepts(records, request) /\ drivers = Drivers(records).of
  /\ command = "refused" => ~Accepts(records, request)

\* The doctor is right about the rows it has looked at.
LEMMA DoctorIsRight ==
  ASSUME NEW r, NEW silent
  PROVE  Holds(Remediation(r, silent), r)
<1> DEFINE leads == OfTier(r, "reasoner")
           workers == OfTier(r, "worker")
           unready == {a \in Agents(r) : ~IsReady(r, silent, a)}
           v == Remediation(r, silent)
<1>1. CASE Cardinality(leads) # 1
  <2>1. v = LeadRemediation(r)
    BY <1>1 DEF Remediation
  <2>2. /\ leads = {} => v = Say("no lead", 0)
        /\ leads # {} => v = Say("several leads", 0)
    BY <2>1 DEF LeadRemediation
  <2>3. /\ leads = {} => v.says = "no lead"
        /\ leads # {} => v.says = "several leads"
    <3>1. ASSUME NEW w, w = Say("no lead", 0) PROVE w.says = "no lead"
      BY <3>1 DEF Say
    <3>2. ASSUME NEW w, w = Say("several leads", 0) PROVE w.says = "several leads"
      BY <3>2 DEF Say
    <3>. QED
      BY <2>2, <3>1, <3>2
  <2>. QED
    BY <1>1, <2>3 DEF Holds
<1>2. CASE Cardinality(leads) = 1 /\ workers = {}
  <2>1. v.says = "no worker"
    BY <1>2 DEF Remediation, Say
  <2>. QED
    BY <1>2, <2>1 DEF Holds
<1>3. CASE Cardinality(leads) = 1 /\ workers # {} /\ unready # {}
  <2>1. v = AgentRemediation(r, Min(unready))
    BY <1>3 DEF Remediation
  <2>2. v.says \in {"runtime", "configuration"}
    BY <2>1 DEF AgentRemediation, Say
  <2>3. v.says = "configuration" => v.agent \in Agents(r) /\ ~ConfigurationOk(r, v.agent)
    <3>1. 0 \notin Agents(r)
      BY AgentsAre
    <3>. QED
      BY RemediationIs
  <2>. QED
    BY <2>2, <2>3 DEF Holds
<1>4. CASE Cardinality(leads) = 1 /\ workers # {} /\ unready = {}
  <2>1. v.says = "ready"
    BY <1>4 DEF Remediation, Say
  <2>2. \A a \in Agents(r) : ConfigurationOk(r, a) /\ CanAnswer(r[a])
    BY <1>4 DEF IsReady
  <2>. QED
    BY <1>4, <2>1, <2>2 DEF Holds
<1>. QED
  BY <1>1, <1>2, <1>3, <1>4

\* So is `am init`.
LEMMA InitIsRight ==
  ASSUME NEW r
  PROVE  Holds(Say(NextSteps(r), 0), r)
<1> DEFINE leads == OfTier(r, "reasoner")
           workers == OfTier(r, "worker")
<1>1. Say(NextSteps(r), 0).says = NextSteps(r)
  BY DEF Say
<1>2. IsFiniteSet(leads)
  BY AgentsAre
<1>3. /\ NextSteps(r) \in {"add both", "add a lead"} => leads = {}
      /\ NextSteps(r) = "add a worker" => workers = {}
      /\ NextSteps(r) = "leave one lead" => Cardinality(leads) > 1
      /\ NextSteps(r) \in {"add both", "add a lead", "add a worker", "leave one lead", "check"}
  BY DEF NextSteps
<1>4. NextSteps(r) = "leave one lead" => Cardinality(leads) # 1
  <2>1. Cardinality(leads) \in Nat
    BY <1>2, FS_CardinalityType
  <2>2. NextSteps(r) = "leave one lead" => Cardinality(leads) > 1
    BY <1>3
  <2>3. \A n \in Nat : n > 1 => n # 1
    OBVIOUS
  <2> HIDE DEF leads
  <2>. QED
    BY <2>1, <2>2, <2>3
<1> HIDE DEF leads, workers
<1>. QED
  BY <1>1, <1>3, <1>4 DEF Holds, leads, workers

\* Nothing that is said of nothing, or of an incomplete team, is wrong.
LEMMA LittleIsRight ==
  ASSUME NEW r
  PROVE  /\ Holds(Nothing, r)
         /\ ~CompositionReady(r) => Holds(Say("not runnable", 0), r)
BY DEF Holds, Nothing, Say

\* Every step keeps what was said true.
LEMMA JudgedStep == Judged /\ [Next]_vars => Judged'
<1> SUFFICES ASSUME Judged, [Next]_vars PROVE Judged'
  OBVIOUS
<1> DEFINE Rest == /\ told' = told /\ records' = records /\ request' = request
                   /\ command' = command /\ drivers' = drivers
<1>1. ASSUME Rest, Holds(verdict, rows)' PROVE Judged'
  BY <1>1 DEF Judged, Holds, Accepts, Drivers
<1>2. CASE Doctor
  BY <1>1, <1>2, DoctorIsRight DEF Doctor
<1>3. CASE InitProject
  BY <1>1, <1>3, InitIsRight DEF InitProject
<1>4. ASSUME NEW a \in Ids, AddAgent(a) \/ Register(a) \/ RemoveAgent(a)
      PROVE  Judged'
  <2>1. Rest
    BY <1>4 DEF AddAgent, Register, RemoveAgent, Edit
  <2>2. \/ verdict' = Nothing
        \/ verdict' = Say("not runnable", 0) /\ ~CompositionReady(rows')
    BY <1>4 DEF AddAgent, Register, RemoveAgent, Edit
  <2>3. Holds(verdict', rows')
    BY <2>2, LittleIsRight
  <2>. QED
    BY <1>1, <2>1, <2>3
<1>5. ASSUME NEW asked, Run(asked) \/ Resume(asked)
      PROVE  Judged'
  <2>1. Holds(verdict', rows') /\ Holds(told', records') /\ command' \in {"run", "resume"}
    BY <1>5 DEF Run, Resume, ReadRecords, Judged
  <2>. QED
    BY <2>1 DEF Judged
<1>6. CASE ResumeSucceeded
  BY <1>6 DEF ResumeSucceeded, Judged, Holds
<1>7. CASE Configure
  <2>1. CASE Accepts(records, request)
    BY <1>7, <2>1 DEF Configure, Judged
  <2>2. CASE ~Accepts(records, request)
    BY <1>7, <2>2 DEF Configure, Judged
  <2>. QED
    BY <2>1, <2>2
<1>8. CASE Touch
  BY <1>8 DEF Touch, Judged
<1>9. CASE UNCHANGED vars
  BY <1>9 DEF vars, Judged
<1>. QED
  BY <1>2, <1>3, <1>4, <1>5, <1>6, <1>7, <1>8, <1>9 DEF Next

\* A Lead that is resolved is a reasoner, and without --lead the only one.
LEMMA LeadIs ==
  ASSUME NEW r, NEW asked
  PROVE  /\ Lead(r, asked) # 0 => Lead(r, asked) \in OfTier(r, "reasoner")
         /\ asked # 0 => Lead(r, asked) \in {asked, 0}
         /\ Lead(r, 0) # 0 => OfTier(r, "reasoner") = {Lead(r, 0)}
         /\ Cardinality(OfTier(r, "reasoner")) = 1 <=> Lead(r, 0) # 0
<1> DEFINE leads == OfTier(r, "reasoner")
<1>1. leads \in SUBSET Nat /\ IsFiniteSet(leads) /\ 0 \notin leads
  BY AgentsAre
<1>2. \A a \in leads : leads = {a} => Min(leads) = a
  <2> TAKE a \in leads
  <2> HIDE DEF leads
  <2>. QED
    BY <1>1, MinIs
<1>3. Cardinality(leads) = 1 <=> \E a \in leads : leads = {a}
  <2>1. Cardinality(leads) = 1 <=> \E a : leads = {a}
    BY <1>1, FS_Singleton
  <2> HIDE DEF leads
  <2>. QED
    BY <2>1
<1>4. Lead(r, asked) = IF asked # 0 THEN IF asked \in leads THEN asked ELSE 0
                       ELSE IF \E a \in leads : leads = {a} THEN Min(leads) ELSE 0
  BY DEF Lead
<1>5. Lead(r, 0) = IF \E a \in leads : leads = {a} THEN Min(leads) ELSE 0
  BY DEF Lead
<1> HIDE DEF leads
<1>6. /\ Lead(r, asked) # 0 => Lead(r, asked) \in leads
      /\ asked # 0 => Lead(r, asked) \in {asked, 0}
  BY <1>1, <1>2, <1>4
<1>7. /\ Lead(r, 0) # 0 => leads = {Lead(r, 0)}
      /\ Cardinality(leads) = 1 <=> Lead(r, 0) # 0
  BY <1>1, <1>2, <1>3, <1>5
<1>. QED
  BY <1>6, <1>7 DEF leads

\* A configuration the doctor refuses is one no run accepts, for a row that is
\* not for the registry, makes no driver or cannot lead.
LEMMA RefusedForIt ==
  ASSUME NEW r, NEW a \in Agents(r), ~ConfigurationOk(r, a)
  PROVE  /\ \A asked : ~Accepts(r, asked)
         /\ ~RegistryRow(r[a]) \/ ~Builds(r[a]) \/ (a = Lead(r, 0) /\ ~LeadConfig(r[a]))
<1>1. ~DriverConfig(r[a]) => ~Builds(r[a])
  BY DEF DriverConfig, Builds
<1>2. ~RegistryRow(r[a]) \/ ~Builds(r[a]) \/ (a = Lead(r, 0) /\ ~LeadConfig(r[a]))
  BY <1>1 DEF ConfigurationOk
<1>3. ASSUME NEW asked, Accepts(r, asked) PROVE FALSE
  <2>1. RegistryRow(r[a]) /\ Builds(r[a])
    BY <1>3 DEF Accepts, Registry, Drivers
  <2>2. a = Lead(r, 0) /\ ~LeadConfig(r[a]) /\ a # 0
    BY <1>2, <2>1, AgentsAre
  <2>3. Lead(r, asked) # 0 /\ LeadConfig(r[Lead(r, asked)])
    BY <1>3 DEF Accepts
  <2>4. Lead(r, asked) \in OfTier(r, "reasoner") /\ OfTier(r, "reasoner") = {a}
    BY <2>2, <2>3, LeadIs
  <2>. QED
    BY <2>2, <2>3, <2>4
<1>. QED
  BY <1>2, <1>3

\* A team the doctor calls ready is accepted, but for the schemas.
LEMMA ReadyIsAccepted ==
  ASSUME NEW r, Cardinality(OfTier(r, "reasoner")) = 1, OfTier(r, "worker") # {},
         \A a \in Agents(r) : ConfigurationOk(r, a) /\ CanAnswer(r[a])
  PROVE  Accepts(r, 0) \/ SchemaIsNamed(r)
<1> SUFFICES ASSUME ~SchemaIsNamed(r) PROVE Accepts(r, 0)
  OBVIOUS
<1>1. Lead(r, 0) # 0 /\ OfTier(r, "reasoner") = {Lead(r, 0)}
  BY LeadIs
<1>2. Lead(r, 0) \in Agents(r)
  BY <1>1, AgentsAre
<1>3. LeadConfig(r[Lead(r, 0)])
  BY <1>2 DEF ConfigurationOk
<1>4. Registry(r)
  BY <1>1 DEF Registry, ConfigurationOk
<1>5. \A a \in Agents(r) : Builds(r[a])
  <2> TAKE a \in Agents(r)
  <2>1. Parses(r[a]) /\ OptionValues(r[a]) /\ LaunchSpec(r[a]) /\ r[a].kind \in Adapters
    BY DEF ConfigurationOk, DriverConfig, CanAnswer
  <2>2. r[a].kind \in {"codex-exec", "claude-cli"} =>
          r[a].flaws \cap {"schema", "no_schema"} = {}
    BY DEF SchemaIsNamed
  <2>3. "no_schema" \in {"schema", "no_schema"}
    OBVIOUS
  <2>. QED
    BY <2>1, <2>2, <2>3 DEF Builds
<1>. QED
  BY <1>1, <1>3, <1>4, <1>5 DEF Accepts, Drivers

\* What the doctor, `am init` and `am agent remove` say of the rows a run reads
\* is what becomes of it (team_runner.rs:578-582).
LEMMA SpeaksThen ==
  ASSUME Judged
  PROVE  DoctorSpeaksForRun
<1> SUFFICES ASSUME command \in {"refused", "create", "recover", "driving"}
             PROVE  /\ told.says = "ready" /\ request = 0 =>
                         command # "refused" \/ SchemaIsNamed(records)
                    /\ told.says \in {"no lead", "no worker", "add both", "add a lead",
                                      "add a worker"} => command = "refused"
                    /\ told.says \in {"several leads", "leave one lead", "not runnable"}
                         /\ request = 0 => command = "refused"
                    /\ told.says = "configuration" =>
                         /\ command = "refused"
                         /\ \/ ~RegistryRow(records[told.agent]) \/ ~Builds(records[told.agent])
                            \/ told.agent = Lead(records, 0) /\ ~LeadConfig(records[told.agent])
  BY DEF DoctorSpeaksForRun
<1>1. (command = "refused") = ~Accepts(records, request)
  BY DEF Judged
<1>2. Holds(told, records)
  BY DEF Judged
<1>3. told.says = "ready" /\ request = 0 => command # "refused" \/ SchemaIsNamed(records)
  <2>1. told.says = "ready" => Accepts(records, 0) \/ SchemaIsNamed(records)
    BY <1>2, ReadyIsAccepted DEF Holds
  <2>. QED
    BY <1>1, <2>1
<1>4. told.says \in {"no lead", "no worker", "add both", "add a lead", "add a worker"} =>
        command = "refused"
  BY <1>1, <1>2 DEF Holds, Accepts, Registry
<1>5. told.says \in {"several leads", "leave one lead", "not runnable"} /\ request = 0 =>
        command = "refused"
  <2>1. told.says \in {"several leads", "leave one lead", "not runnable"} =>
          Cardinality(OfTier(records, "reasoner")) # 1 \/ OfTier(records, "worker") = {}
    BY <1>2 DEF Holds, CompositionReady
  <2>2. Accepts(records, 0) =>
          Cardinality(OfTier(records, "reasoner")) = 1 /\ OfTier(records, "worker") # {}
    BY LeadIs DEF Accepts, Registry
  <2>. QED
    BY <1>1, <2>1, <2>2
<1>6. told.says = "configuration" =>
        /\ command = "refused"
        /\ \/ ~RegistryRow(records[told.agent]) \/ ~Builds(records[told.agent])
           \/ told.agent = Lead(records, 0) /\ ~LeadConfig(records[told.agent])
  <2>1. told.says = "configuration" =>
          told.agent \in Agents(records) /\ ~ConfigurationOk(records, told.agent)
    BY <1>2 DEF Holds
  <2>. QED
    BY <1>1, <2>1, RefusedForIt
<1>. QED
  BY <1>3, <1>4, <1>5, <1>6

\* What the operator is told is true of the rows as they are, and a run keeps
\* what it was told together with the rows it has read.
THEOREM VerdictsAreTrue == Spec => []Judged
<1>1. Init => Judged
  <2> SUFFICES ASSUME Init PROVE Judged
    OBVIOUS
  <2>1. Holds(verdict, rows) /\ Holds(told, records) /\ command = "idle"
    BY LittleIsRight DEF Init
  <2>. QED
    BY <2>1 DEF Judged
<1>2. Judged /\ [Next]_vars => Judged'
  BY JudgedStep
<1>. QED
  BY <1>1, <1>2, PTL DEF Spec

\* Whatever is said of a team, and whatever becomes of its run.
THEOREM DoctorAndRunAgree == Spec => []DoctorSpeaksForRun
<1>1. Judged => DoctorSpeaksForRun
  BY SpeaksThen
<1>. QED
  BY <1>1, VerdictsAreTrue, PTL

-----------------------------------------------------------------------------
(* Routing.                                                                *)

\* A sequence in three parts.
LEMMA ThreeParts ==
  ASSUME NEW S, NEW x \in Seq(S), NEW y \in Seq(S), NEW z \in Seq(S)
  PROVE  /\ x \o y \o z \in Seq(S)
         /\ Len(x \o y \o z) = Len(x) + Len(y) + Len(z)
         /\ \A i \in 1 .. Len(x \o y \o z) :
              (x \o y \o z)[i] = IF i <= Len(x) THEN x[i]
                                 ELSE IF i <= Len(x) + Len(y) THEN y[i - Len(x)]
                                 ELSE z[i - Len(x) - Len(y)]
<1>1. x \o y \in Seq(S) /\ Len(x \o y) = Len(x) + Len(y)
  OBVIOUS
<1>2. \A i \in 1 .. Len(x \o y) : (x \o y)[i] = IF i <= Len(x) THEN x[i] ELSE y[i - Len(x)]
  OBVIOUS
<1>. PICK xy \in Seq(S) : xy = x \o y
  BY <1>1
<1>3. /\ xy \o z \in Seq(S) /\ Len(xy \o z) = Len(xy) + Len(z)
      /\ \A i \in 1 .. Len(xy \o z) : (xy \o z)[i] = IF i <= Len(xy) THEN xy[i] ELSE z[i - Len(xy)]
  OBVIOUS
<1>4. \A i \in 1 .. Len(xy \o z) :
        (xy \o z)[i] = IF i <= Len(x) THEN x[i]
                       ELSE IF i <= Len(x) + Len(y) THEN y[i - Len(x)]
                       ELSE z[i - Len(x) - Len(y)]
  <2> TAKE i \in 1 .. Len(xy \o z)
  <2>1. Len(x) \in Nat /\ Len(y) \in Nat /\ Len(z) \in Nat /\ Len(xy) = Len(x) + Len(y)
    BY <1>1
  <2>2. CASE i <= Len(xy)
    BY <1>2, <1>3, <2>1, <2>2
  <2>3. CASE i > Len(xy)
    BY <1>3, <2>1, <2>3
  <2>. QED
    BY <2>1, <2>2, <2>3
<1>. QED
  BY <1>1, <1>3, <1>4

\* A sequence over a set is one over any larger set.
LEMMA SeqOver ==
  ASSUME NEW S, NEW T, S \subseteq T, NEW s \in Seq(S)
  PROVE  s \in Seq(T) /\ Len(s) \in Nat /\ \A i \in 1 .. Len(s) : s[i] \in S
OBVIOUS

\* Of a registry a run accepts, every task has candidates: the first is the one
\* it is routed to, each is there once, and none works above its tier.
LEMMA EveryTaskHasCandidates ==
  ASSUME NEW r, Registry(r), NEW kind \in TaskKinds, NEW target \in Ids \cup {0}
  PROVE  LET order == CandidateOrder(r, kind, target)
         IN /\ order \in Seq(Agents(r)) /\ Len(order) > 0
            /\ order[1] = Route(r, kind, target)
            /\ \A i, j \in 1 .. Len(order) : i # j => order[i] # order[j]
            /\ \A i \in 1 .. Len(order) :
                 kind = "utility" /\ order[i] # target => r[order[i]].tier # "reasoner"
<1> DEFINE order == CandidateOrder(r, kind, target)
           tier == OfTier(r, TierOf(kind))
           workers == OfTier(r, "worker")
           first == Agents(r) \cap {target}
           spare == IF kind = "utility" /\ first \cup tier = {} THEN workers ELSE {}
           x == InOrder(first)
           y == InOrder(tier \ first)
           z == InOrder(spare)
<1>1. /\ Agents(r) \in SUBSET Nat /\ IsFiniteSet(Agents(r))
      /\ tier \in SUBSET Agents(r) /\ IsFiniteSet(tier)
      /\ workers \in SUBSET Agents(r) /\ IsFiniteSet(workers) /\ workers # {}
      /\ OfTier(r, "reasoner") # {}
  BY AgentsAre DEF Registry
<1>2. /\ first \in SUBSET Nat /\ IsFiniteSet(first) /\ first \in SUBSET Agents(r)
      /\ tier \ first \in SUBSET Nat /\ IsFiniteSet(tier \ first)
      /\ tier \ first \in SUBSET Agents(r)
      /\ spare \in SUBSET Nat /\ IsFiniteSet(spare) /\ spare \in SUBSET Agents(r)
  <2>1. first \in SUBSET Agents(r) /\ tier \ first \in SUBSET Agents(r)
        /\ spare \in SUBSET Agents(r)
    BY <1>1
  <2> HIDE DEF first, tier, spare
  <2>. QED
    BY <1>1, <2>1, FS_Subset
<1>3. kind # "utility" => tier # {}
  BY <1>1 DEF TaskKinds, TierOf
<1>4. order = x \o y \o z
  BY DEF CandidateOrder
<1> HIDE DEF tier, workers, first
<1>5. /\ x \in Seq(first) /\ Len(x) = Cardinality(first)
      /\ \A m, n \in 1 .. Len(x) : m # n => x[m] # x[n]
      /\ first # {} => Len(x) > 0 /\ x[1] = Min(first)
      /\ first = {} => Len(x) = 0
  BY <1>2, InOrderIs
<1>6. /\ y \in Seq(tier \ first)
      /\ \A m, n \in 1 .. Len(y) : m # n => y[m] # y[n]
      /\ tier \ first # {} => Len(y) > 0 /\ y[1] = Min(tier \ first)
      /\ tier \ first = {} => Len(y) = 0
  BY <1>2, InOrderIs
<1> HIDE DEF spare
<1>7. /\ z \in Seq(spare)
      /\ \A m, n \in 1 .. Len(z) : m # n => z[m] # z[n]
      /\ spare # {} => Len(z) > 0 /\ z[1] = Min(spare)
      /\ spare = {} => Len(z) = 0
  BY <1>2, InOrderIs
<1> HIDE DEF x, y, z, order
<1>8. /\ x \in Seq(Agents(r)) /\ y \in Seq(Agents(r)) /\ z \in Seq(Agents(r))
      /\ \A i \in 1 .. Len(x) : x[i] \in first
      /\ \A i \in 1 .. Len(y) : y[i] \in tier \ first
      /\ \A i \in 1 .. Len(z) : z[i] \in spare
      /\ Len(x) \in Nat /\ Len(y) \in Nat /\ Len(z) \in Nat
  <2>1. first \subseteq Agents(r) /\ tier \ first \subseteq Agents(r) /\ spare \subseteq Agents(r)
    BY <1>2
  <2>2. x \in Seq(Agents(r)) /\ Len(x) \in Nat /\ \A i \in 1 .. Len(x) : x[i] \in first
    BY <1>5, <2>1, SeqOver
  <2>3. y \in Seq(Agents(r)) /\ Len(y) \in Nat /\ \A i \in 1 .. Len(y) : y[i] \in tier \ first
    BY <1>6, <2>1, SeqOver
  <2>4. z \in Seq(Agents(r)) /\ Len(z) \in Nat /\ \A i \in 1 .. Len(z) : z[i] \in spare
    BY <1>7, <2>1, SeqOver
  <2>. QED
    BY <2>2, <2>3, <2>4
<1>9. /\ order \in Seq(Agents(r)) /\ Len(order) = Len(x) + Len(y) + Len(z)
      /\ \A i \in 1 .. Len(order) :
           order[i] = IF i <= Len(x) THEN x[i]
                      ELSE IF i <= Len(x) + Len(y) THEN y[i - Len(x)]
                      ELSE z[i - Len(x) - Len(y)]
  BY <1>4, <1>8, ThreeParts
<1>10. kind = "utility" => /\ \A a \in tier : r[a].tier # "reasoner"
                           /\ \A a \in workers : r[a].tier # "reasoner"
  BY DEF tier, workers, OfTier, TierOf
<1>11. Route(r, kind, target) =
         IF target \in Agents(r) THEN target
         ELSE IF tier # {} THEN Min(tier)
         ELSE IF kind = "utility" THEN Min(workers) ELSE Route(r, kind, target)
  BY <1>1 DEF Route, tier, workers
<1> SUFFICES /\ Len(order) > 0 /\ order[1] = Route(r, kind, target)
             /\ \A i, j \in 1 .. Len(order) : i # j => order[i] # order[j]
             /\ \A i \in 1 .. Len(order) :
                  kind = "utility" /\ order[i] # target => r[order[i]].tier # "reasoner"
  BY <1>9 DEF order
<1>12. CASE target \in Agents(r)
  <2>1. first = {target} /\ spare = {} /\ target \in Nat
    BY <1>1, <1>12 DEF first, spare
  <2>2. Len(x) = 1
    BY <1>5, <2>1, FS_Singleton
  <2>3. Len(z) = 0 /\ x[1] = target
    BY <1>7, <1>8, <2>1, <2>2
  <2>4. /\ Len(order) = 1 + Len(y) /\ order[1] = target
        /\ \A i \in 1 .. Len(order) : i # 1 => order[i] = y[i - 1] /\ i - 1 \in 1 .. Len(y)
    BY <1>8, <1>9, <2>2, <2>3
  <2>5. \A i \in 1 .. Len(order) : i # 1 => order[i] \in tier /\ order[i] # target
    BY <1>8, <2>1, <2>4
  <2>6. ASSUME NEW i \in 1 .. Len(order), NEW j \in 1 .. Len(order), i # j
        PROVE  order[i] # order[j]
    <3>1. CASE i = 1 \/ j = 1
      BY <2>4, <2>5, <2>6, <3>1
    <3>2. CASE i # 1 /\ j # 1
      <4>1. i - 1 # j - 1
        BY <1>8, <2>4, <2>6
      <4>. QED
        BY <1>6, <2>4, <3>2, <4>1
    <3>. QED
      BY <3>1, <3>2
  <2>. QED
    BY <1>8, <1>10, <1>11, <1>12, <2>4, <2>5, <2>6
<1>13. CASE target \notin Agents(r) /\ tier # {}
  <2>1. first = {} /\ tier \ first = tier /\ spare = {}
    BY <1>13 DEF first, spare
  <2>2. Len(x) = 0 /\ Len(z) = 0 /\ Len(y) > 0 /\ y[1] = Min(tier)
    BY <1>5, <1>6, <1>7, <1>13, <2>1
  <2>3. Len(order) = Len(y) /\ \A i \in 1 .. Len(order) : order[i] = y[i]
    BY <1>8, <1>9, <2>2
  <2>. QED
    BY <1>6, <1>8, <1>10, <1>11, <1>13, <2>1, <2>2, <2>3
<1>14. CASE target \notin Agents(r) /\ tier = {}
  <2>1. first = {} /\ tier \ first = {} /\ kind = "utility"
    BY <1>3, <1>14 DEF first
  <2>2. spare = workers
    BY <1>14, <2>1 DEF spare
  <2>3. Len(x) = 0 /\ Len(y) = 0 /\ Len(z) > 0 /\ z[1] = Min(workers)
    BY <1>1, <1>5, <1>6, <1>7, <2>1, <2>2
  <2>4. Len(order) = Len(z) /\ \A i \in 1 .. Len(order) : order[i] = z[i]
    BY <1>8, <1>9, <2>3
  <2>. QED
    BY <1>7, <1>8, <1>10, <1>11, <1>14, <2>1, <2>2, <2>3, <2>4
<1>. QED
  BY <1>12, <1>13, <1>14

\* A run that writes to the board has accepted its records: each has a driver,
\* its Lead is a reasoner, and every task has candidates (team_runner.rs:330-331).
LEMMA RoutableThen ==
  ASSUME TypeOK, Judged
  PROVE  StartedRunIsRoutable
<1> SUFFICES ASSUME touched
             PROVE  /\ records[Lead(records, request)].tier = "reasoner"
                    /\ \A kind \in TaskKinds, target \in Ids \cup {0} :
                         LET order == CandidateOrder(records, kind, target)
                         IN /\ order # <<>> /\ Head(order) = Route(records, kind, target)
                            /\ IsInjective(order)
                            /\ \A i \in DOMAIN order :
                                 /\ order[i] \in drivers
                                 /\ kind = "utility" /\ order[i] # target =>
                                      records[order[i]].tier # "reasoner"
  BY DEF StartedRunIsRoutable
<1>1. Accepts(records, request) /\ drivers = Drivers(records).of
  BY DEF TypeOK, Judged
<1>2. Registry(records) /\ drivers = Agents(records)
  BY <1>1 DEF Accepts, Drivers
<1>3. records[Lead(records, request)].tier = "reasoner"
  <2>1. Lead(records, request) \in OfTier(records, "reasoner")
    BY <1>1, LeadIs DEF Accepts
  <2>. QED
    BY <2>1 DEF OfTier
<1>4. ASSUME NEW kind \in TaskKinds, NEW target \in Ids \cup {0}
      PROVE  LET order == CandidateOrder(records, kind, target)
             IN /\ order # <<>> /\ Head(order) = Route(records, kind, target)
                /\ IsInjective(order)
                /\ \A i \in DOMAIN order :
                     /\ order[i] \in drivers
                     /\ kind = "utility" /\ order[i] # target =>
                          records[order[i]].tier # "reasoner"
  <2>. PICK order : order = CandidateOrder(records, kind, target)
    OBVIOUS
  <2>1. /\ order \in Seq(Agents(records)) /\ Len(order) > 0
        /\ order[1] = Route(records, kind, target)
        /\ \A i, j \in 1 .. Len(order) : i # j => order[i] # order[j]
        /\ \A i \in 1 .. Len(order) :
             kind = "utility" /\ order[i] # target => records[order[i]].tier # "reasoner"
    BY <1>2, EveryTaskHasCandidates
  <2>2. DOMAIN order = 1 .. Len(order) /\ order # <<>> /\ Head(order) = order[1]
    BY <2>1
  <2>3. IsInjective(order)
    BY <2>1, <2>2 DEF IsInjective
  <2>4. \A i \in 1 .. Len(order) : order[i] \in drivers
    BY <1>2, <2>1
  <2>. QED
    BY <2>1, <2>2, <2>3, <2>4
<1>. QED
  BY <1>3, <1>4

\* Whoever writes to the board can serve every task, whatever has been edited.
THEOREM StartedRunsAreRoutable == Spec => []StartedRunIsRoutable
<1>1. TypeOK /\ Judged => StartedRunIsRoutable
  BY RoutableThen
<1>. QED
  BY <1>1, TypesHold, VerdictsAreTrue, PTL
=============================================================================
