------------------------ MODULE ProjectRegistryProofs ------------------------
(***************************************************************************)
(* Proofs about ProjectRegistry, for any registries, manifests of repairs, *)
(* sessions and requests.  ProjectTablesProofs says what the operator's    *)
(* statements do to the tables; the inductive invariant here says that of  *)
(* the tables there are and of the draft of a merge, and for each repair   *)
(* of the merge which rows have left its source.                           *)
(***************************************************************************)
EXTENDS ProjectRegistry, ProjectTablesProofs

Projects == DOMAIN tables.projects
Known == Projects \cup {NoProject}

\* What a start knows at each of its stages.
Starts(known) ==
  [stage : {"none", "done"}]
    \cup [stage : {"begun", "committed"}, project : known, hint : SUBSET Name]
    \cup [stage : {"resolved", "saved"}, project : known, capsule : known]

\* A repair's plan: whose rows go to whom, and the URI that the target gets.
SoundPlan(repair, plan) ==
  /\ plan.source \in Projects
  /\ repair.action = "merge" =>
       plan.target \in Projects /\ plan.target # plan.source /\ plan.uri \in Uri

\* The rows of table k are moved in the course of repair i.
HasMoved(i, k) ==
  merge.repairs[i].action = "merge" /\ (i < merge.at \/ (i = merge.at /\ k < merge.table))

\* No row of a table is left to the source of a repair, unless others write it
\* or the source is the target of a later repair.
HasLeft(i, k) ==
  \/ \E j \in DOMAIN merge.repairs : j > i /\ merge.plans[j].target = merge.plans[i].source
  \/ \A s \in Session \ merge.overlapped : Seen(k, s) # merge.plans[i].source

Moving ==
  /\ merge \in [stage : {"repairing"}, repairs : {merge.repairs}, plans : {merge.plans},
                at : 1 .. Len(merge.repairs) + 1, table : 0 .. Len(Tables) + 1,
                draft : {merge.draft},
                moved : [DOMAIN Tables -> [Session -> Known \cup {Absent}]],
                overlapped : SUBSET Session]
  /\ merge.repairs \in Manifests
  /\ \A i \in DOMAIN merge.repairs : SoundPlan(merge.repairs[i], merge.plans[i])
  /\ SoundTables(merge.draft) /\ DOMAIN merge.draft.projects = Projects
  /\ Grown(tables, merge.draft)
  /\ \A i \in DOMAIN merge.repairs : \A k \in DOMAIN Tables : HasMoved(i, k) => HasLeft(i, k)

RegistryInv ==
  /\ SoundTables(tables) /\ tables.ok
  /\ runs \in 0 .. MaxRuns
  /\ history \in [Session -> [Range(Tables) -> Known \cup {Absent}]]
  /\ start \in [Session -> Starts(Known)]
  /\ merge = Idle \/ Moving

-----------------------------------------------------------------------------
(* Lookups *)

LEMMA ResolveIsKnown ==
  ASSUME NEW ps, NEW h
  PROVE  Resolve(ps, h) \in DOMAIN ps \cup {NoProject}
<1> DEFINE found == {p \in DOMAIN ps : ps[p].status = "confirmed" /\ Tier(ps[p], h) < 99}
           best == {p \in found : \A q \in found : Tier(ps[p], h) <= Tier(ps[q], h)}
<1>1. Resolve(ps, h) = IF Unique(best) THEN TheOne(best) ELSE NoProject
  BY DEF Resolve
<1>2. best \subseteq DOMAIN ps
  OBVIOUS
<1> HIDE DEF best
<1> QED
  BY <1>1, <1>2, UniqueIsMember

LEMMA EnsuredIsKnown ==
  ASSUME NEW req
  PROVE  EnsureProject(req) \in Known
BY ResolveIsKnown DEF EnsureProject, Known, Projects

\* The index by which a commit finds the rows that the merge has moved.
LEMMA TableIndex ==
  ASSUME NEW table \in Range(Tables)
  PROVE  LET k == CHOOSE i \in DOMAIN Tables : Tables[i] = table IN
         k \in DOMAIN Tables /\ Tables[k] = table
BY DEF Range

LEMMA TableInRange ==
  ASSUME NEW k \in DOMAIN Tables
  PROVE  Tables[k] \in Range(Tables)
BY DEF Range

LEMMA TableNames ==
  /\ DOMAIN Tables = 1 .. 5 /\ Len(Tables) = 5
  /\ {"intentions", "agent_sessions", "activities", "context_capsules",
      "context_meter_samples"} \subseteq Range(Tables)
<1>1. DOMAIN Tables = 1 .. 5 /\ Len(Tables) = 5
  BY DEF Tables
<1>2. /\ Tables[1] = "intentions" /\ Tables[2] = "agent_sessions" /\ Tables[3] = "activities"
      /\ Tables[4] = "context_capsules" /\ Tables[5] = "context_meter_samples"
  BY DEF Tables
<1>3. \A k \in 1 .. 5 : Tables[k] \in Range(Tables)
  BY <1>1, TableInRange
<1> QED
  BY <1>1, <1>2, <1>3

\* A canonical alias of a project is nobody else's, and a better answer than any
\* name or historical alias.
LEMMA IdentityResolves ==
  ASSUME NEW ps \in Seq(Row), Indexed(ps), NEW p \in DOMAIN ps, NEW n \in Name,
         ps[p].status = "confirmed", ps[p].aliases[n] = "identity",
         \A q \in DOMAIN ps \ {p} : ps[q].source # n
  PROVE  Resolve(ps, n) = p
<1> DEFINE found == {q \in DOMAIN ps : ps[q].status = "confirmed" /\ Tier(ps[q], n) < 99}
           best == {q \in found : \A o \in found : Tier(ps[q], n) <= Tier(ps[o], n)}
<1>1. Tier(ps[p], n) \in {0, 1}
  BY DEF Tier
<1>2. \A q \in DOMAIN ps : q # p => Tier(ps[q], n) \in {2, 3, 99}
  BY DEF Tier, Indexed
<1>3. p \in found
  BY <1>1
<1>4. best = {p}
  <2>1. p \in best
    <3>1. \A o \in found : Tier(ps[p], n) <= Tier(ps[o], n)
      BY <1>1, <1>2
    <3> QED
      BY <1>3, <3>1
  <2>2. ASSUME NEW q \in best
        PROVE  q = p
    <3>1. Tier(ps[q], n) <= Tier(ps[p], n)
      BY <1>3
    <3> QED
      BY <1>1, <1>2, <3>1
  <2> HIDE DEF best
  <2> QED
    BY <2>1, <2>2
<1>5. Resolve(ps, n) = IF Unique(best) THEN TheOne(best) ELSE NoProject
  BY DEF Resolve
<1> HIDE DEF best
<1>6. Unique(best) /\ TheOne(best) = p
  BY <1>4, FS_Singleton DEF Unique, TheOne
<1> QED
  BY <1>5, <1>6

-----------------------------------------------------------------------------
(* Registries *)

LEMMA InitRegistryInv ==
  ASSUME Init
  PROVE  RegistryInv
<1>1. SoundTables(tables) /\ tables.ok
  BY RegistryAssumption
     DEF Init, SoundTables, Shaped, ObjectRow, SoundRelations
<1>2. runs \in 0 .. MaxRuns
  BY RegistryAssumption DEF Init
<1>3. history \in [Session -> [Range(Tables) -> Known \cup {Absent}]]
  BY DEF Init
<1>4. start \in [Session -> Starts(Known)]
  BY DEF Init, Starts
<1> QED
  BY <1>1, <1>2, <1>3, <1>4 DEF Init, RegistryInv

\* No row of a project goes away, so whatever is known stays known.
LEMMA KnownGrows ==
  ASSUME RegistryInv, Projects \subseteq Projects', UNCHANGED <<history, start>>
  PROVE  /\ history' \in [Session -> [Range(Tables) -> Known' \cup {Absent}]]
         /\ start' \in [Session -> Starts(Known')]
<1>1. Known \subseteq Known'
  BY DEF Known
<1>2. Starts(Known) \subseteq Starts(Known')
  BY <1>1 DEF Starts
<1>3. \A k \in Known \cup {Absent} : k \in Known' \cup {Absent}
  BY <1>1
<1> HIDE DEF Known
<1>4. [Range(Tables) -> Known \cup {Absent}] \subseteq [Range(Tables) -> Known' \cup {Absent}]
  BY <1>3
<1> QED
  BY <1>2, <1>4 DEF RegistryInv

LEMMA ReconcileKeeps ==
  ASSUME RegistryInv, NEW input \in Inputs, NEW present \in Disks, Reconcile(input, present)
  PROVE  RegistryInv'
<1> DEFINE r == Registry(input, present)
<1>1. r \in Registries
  BY RegistryAssumption, RegistryTyped
<1> HIDE DEF r
<1>2. SoundTables(tables') /\ tables'.ok /\ Grown(tables, tables')
  BY <1>1, ReconciledSound DEF Reconcile, RegistryInv, r
<1>3. Projects \subseteq Projects'
  BY <1>2 DEF Projects, Grown
<1>4. /\ history' \in [Session -> [Range(Tables) -> Known' \cup {Absent}]]
      /\ start' \in [Session -> Starts(Known')]
  BY <1>3, KnownGrows DEF Reconcile
<1>5. runs' \in 0 .. MaxRuns
  BY RegistryAssumption DEF Reconcile, Run, RegistryInv
<1>6. merge' = Idle
  BY DEF Reconcile, Run
<1> QED
  BY <1>2, <1>4, <1>5, <1>6 DEF RegistryInv

LEMMA RecordKeeps ==
  ASSUME RegistryInv, NEW s \in Session, NEW c \in Claims, Record(s, c)
  PROVE  RegistryInv'
<1> DEFINE p == history[s]["agent_sessions"]
<1>1. p \in DOMAIN tables.projects \cup {NoProject}
  <2>1. history[s]["agent_sessions"] \in Known \cup {Absent}
    BY TableNames DEF RegistryInv
  <2> QED
    BY <2>1 DEF Record, Known, Projects
<1>2. c.state \in {"candidate", "confirmed"}
  BY RegistryAssumption
<1>3. /\ tables' = ApplyEffect(tables, c, p)
      /\ \A o \in {c.from, c.to} \cap DOMAIN tables.objects : tables.objects[o].state # "rejected"
      /\ SoundTables(tables) /\ tables.ok
  BY DEF Record, RegistryInv
<1> HIDE DEF p
<1>4. SoundTables(tables') /\ tables'.ok /\ tables'.projects = tables.projects
  BY <1>1, <1>2, <1>3, ApplyEffectSound
<1>5. Projects \subseteq Projects'
  BY <1>4 DEF Projects
<1>6. /\ history' \in [Session -> [Range(Tables) -> Known' \cup {Absent}]]
      /\ start' \in [Session -> Starts(Known')]
  BY <1>5, KnownGrows DEF Record
<1>7. runs' \in 0 .. MaxRuns
  BY RegistryAssumption DEF Record, Run, RegistryInv
<1>8. merge' = Idle
  BY DEF Record, Run
<1> QED
  BY <1>4, <1>6, <1>7, <1>8 DEF RegistryInv

-----------------------------------------------------------------------------
(* Starts of sessions *)

\* A step of a start: what others know does not change, and a merge that is
\* under way knows of it.
LEMMA StartKeeps ==
  ASSUME RegistryInv, NEW s \in Session, UNCHANGED <<tables, runs>>, Overlap(s),
         history' \in [Session -> [Range(Tables) -> Known \cup {Absent}]],
         start' \in [Session -> Starts(Known)],
         \A q \in Session \ {s} : history'[q] = history[q]
  PROVE  RegistryInv'
<1>1. Known' = Known /\ Projects' = Projects
  BY DEF Known, Projects
<1>2. CASE merge = Idle
  <2>1. merge' = Idle
    BY <1>2 DEF Overlap
  <2> QED
    BY <1>1, <2>1 DEF RegistryInv
<1>3. CASE merge # Idle
  <2>1. Moving
    BY <1>3 DEF RegistryInv
  <2>2. merge' = [merge EXCEPT !.overlapped = merge.overlapped \cup {s}]
    BY <1>3 DEF Overlap
  <2>3. /\ merge'.repairs = merge.repairs /\ merge'.plans = merge.plans /\ merge'.at = merge.at
        /\ merge'.table = merge.table /\ merge'.draft = merge.draft
        /\ merge'.moved = merge.moved /\ merge'.overlapped = merge.overlapped \cup {s}
    BY <2>1, <2>2 DEF Moving
  <2>4. merge' \in [stage : {"repairing"}, repairs : {merge.repairs}, plans : {merge.plans},
                    at : 1 .. Len(merge.repairs) + 1, table : 0 .. Len(Tables) + 1,
                    draft : {merge.draft},
                    moved : [DOMAIN Tables -> [Session -> Known \cup {Absent}]],
                    overlapped : SUBSET Session]
    BY <2>1, <2>2 DEF Moving
  <2>5. ASSUME NEW i \in DOMAIN merge.repairs, NEW k \in DOMAIN Tables, HasMoved(i, k)'
        PROVE  HasLeft(i, k)'
    <3>1. HasMoved(i, k)
      BY <2>3, <2>5 DEF HasMoved
    <3>2. HasLeft(i, k)
      BY <2>1, <3>1 DEF Moving
    <3>3. \A q \in Session \ merge'.overlapped : q # s /\ q \in Session \ merge.overlapped
      BY <2>3
    <3>4. \A q \in Session \ merge'.overlapped : Seen(k, q)' = Seen(k, q)
      BY <2>3, <3>3 DEF Seen
    <3> QED
      BY <2>3, <3>2, <3>3, <3>4 DEF HasLeft
  <2>6. \A i \in DOMAIN merge.repairs : SoundPlan(merge.repairs[i], merge.plans[i])'
    BY <1>1, <2>1, <2>3 DEF Moving, SoundPlan
  <2>7. Moving'
    BY <1>1, <2>1, <2>3, <2>4, <2>5, <2>6 DEF Moving, Grown
  <2> QED
    BY <1>1, <2>7 DEF RegistryInv
<1> QED
  BY <1>2, <1>3

LEMMA BeginStartKeeps ==
  ASSUME RegistryInv, NEW s \in Session, NEW req \in Requests, BeginStart(s, req)
  PROVE  RegistryInv'
<1> DEFINE p == EnsureProject(req)
           new == IF p = NoProject /\ req.bootstrap THEN [stage |-> "done"]
                  ELSE [stage |-> "begun", project |-> p,
                        hint |-> IF p = NoProject THEN {} ELSE {tables.projects[p].name}]
<1>1. start' = [start EXCEPT ![s] = new]
  BY DEF BeginStart
<1>2. p \in Known
  BY EnsuredIsKnown
<1> HIDE DEF p
<1>3. new \in Starts(Known)
  <2>1. p # NoProject => tables.projects[p].name \in Name
    <3> SUFFICES ASSUME p # NoProject
                 PROVE  tables.projects[p].name \in Name
      OBVIOUS
    <3>1. tables.projects[p] \in Row
      BY <1>2 DEF RegistryInv, SoundTables, Known, Projects
    <3> QED
      BY <3>1 DEF Row
  <2>2. CASE p = NoProject /\ req.bootstrap
    BY <2>2 DEF Starts
  <2>3. CASE ~(p = NoProject /\ req.bootstrap)
    <3> DEFINE hint == IF p = NoProject THEN {} ELSE {tables.projects[p].name}
    <3>1. hint \in SUBSET Name
      BY <2>1
    <3>2. new = [stage |-> "begun", project |-> p, hint |-> hint]
      BY <2>3
    <3> HIDE DEF hint, new
    <3> QED
      BY <1>2, <3>1, <3>2 DEF Starts
  <2> QED
    BY <2>2, <2>3
<1> HIDE DEF new
<1>4. start' \in [Session -> Starts(Known)]
  BY <1>1, <1>3 DEF RegistryInv
<1> QED
  BY <1>4, StartKeeps DEF BeginStart, RegistryInv

\* What a start at a stage holds.
LEMMA StageTyped ==
  ASSUME RegistryInv, NEW s \in Session
  PROVE  /\ start[s].stage \in {"begun", "committed"} =>
              start[s] \in [stage : {"begun", "committed"}, project : Known, hint : SUBSET Name]
         /\ start[s].stage \in {"resolved", "saved"} =>
              start[s] \in [stage : {"resolved", "saved"}, project : Known, capsule : Known]
<1>1. start[s] \in Starts(Known)
  BY DEF RegistryInv
<1> QED
  BY <1>1 DEF Starts

\* A session's rows, one of which is written.
LEMMA RowTyped ==
  ASSUME RegistryInv, NEW s \in Session, NEW table \in Range(Tables), NEW p \in Known
  PROVE  [history EXCEPT ![s][table] = p] \in [Session -> [Range(Tables) -> Known \cup {Absent}]]
<1>1. history \in [Session -> [Range(Tables) -> Known \cup {Absent}]]
  BY DEF RegistryInv
<1> HIDE DEF Known
<1>2. [history[s] EXCEPT ![table] = p] \in [Range(Tables) -> Known \cup {Absent}]
  BY <1>1
<1> QED
  BY <1>1, <1>2

LEMMA CommitStartKeeps ==
  ASSUME RegistryInv, NEW s \in Session, CommitStart(s)
  PROVE  RegistryInv'
<1>1. start[s] \in [stage : {"begun", "committed"}, project : Known, hint : SUBSET Name]
  BY StageTyped DEF CommitStart
<1> DEFINE rows == [table \in Range(Tables) |->
                      IF table \in {"intentions", "agent_sessions", "activities"}
                        THEN start[s].project ELSE Absent]
           new == [start[s] EXCEPT !.stage = "committed"]
<1>2. history' = [history EXCEPT ![s] = rows] /\ start' = [start EXCEPT ![s] = new]
  BY DEF CommitStart
<1>3. rows \in [Range(Tables) -> Known \cup {Absent}]
  BY <1>1
<1>4. new \in Starts(Known)
  BY <1>1 DEF Starts
<1> HIDE DEF rows, new
<1>5. history \in [Session -> [Range(Tables) -> Known \cup {Absent}]]
      /\ start \in [Session -> Starts(Known)]
  BY DEF RegistryInv
<1>6. /\ history' \in [Session -> [Range(Tables) -> Known \cup {Absent}]]
      /\ \A q \in Session \ {s} : history'[q] = history[q]
  BY <1>2, <1>3, <1>5
<1>7. start' \in [Session -> Starts(Known)]
  BY <1>2, <1>4, <1>5
<1> QED
  BY <1>6, <1>7, StartKeeps DEF CommitStart

LEMMA ResolveCapsuleKeeps ==
  ASSUME RegistryInv, NEW s \in Session, ResolveCapsule(s)
  PROVE  RegistryInv'
<1>1. start[s] \in [stage : {"begun", "committed"}, project : Known, hint : SUBSET Name]
  BY StageTyped DEF ResolveCapsule
<1> DEFINE capsule == IF start[s].hint = {} THEN NoProject
                      ELSE Resolve(tables.projects, TheOne(start[s].hint))
           new == [stage |-> "resolved", project |-> start[s].project, capsule |-> capsule]
<1>2. start' = [start EXCEPT ![s] = new]
  BY DEF ResolveCapsule
<1>3. capsule \in Known
  BY ResolveIsKnown DEF Known, Projects
<1> HIDE DEF capsule
<1>4. new \in Starts(Known)
  BY <1>1, <1>3 DEF Starts
<1> HIDE DEF new
<1>5. start' \in [Session -> Starts(Known)]
  BY <1>2, <1>4 DEF RegistryInv
<1> QED
  BY <1>5, StartKeeps DEF ResolveCapsule, RegistryInv

LEMMA SaveCapsuleKeeps ==
  ASSUME RegistryInv, NEW s \in Session, SaveCapsule(s)
  PROVE  RegistryInv'
<1>1. start[s] \in [stage : {"resolved", "saved"}, project : Known, capsule : Known]
  BY StageTyped DEF SaveCapsule
<1> DEFINE new == [start[s] EXCEPT !.stage = "saved"]
<1>2. /\ history' = [history EXCEPT ![s]["context_capsules"] = start[s].project]
      /\ start' = [start EXCEPT ![s] = new]
  BY DEF SaveCapsule
<1>3. new \in Starts(Known)
  BY <1>1 DEF Starts
<1> HIDE DEF new
<1>4. history' \in [Session -> [Range(Tables) -> Known \cup {Absent}]]
  BY <1>1, <1>2, TableNames, RowTyped
<1>5. start' \in [Session -> Starts(Known)]
  BY <1>2, <1>3 DEF RegistryInv
<1>6. \A q \in Session \ {s} : history'[q] = history[q]
  BY <1>2 DEF RegistryInv
<1> QED
  BY <1>4, <1>5, <1>6, StartKeeps DEF SaveCapsule

LEMMA SaveMeterKeeps ==
  ASSUME RegistryInv, NEW s \in Session, SaveMeter(s)
  PROVE  RegistryInv'
<1>1. start[s] \in [stage : {"resolved", "saved"}, project : Known, capsule : Known]
  BY StageTyped DEF SaveMeter
<1>2. /\ history' = [history EXCEPT ![s]["context_meter_samples"] = start[s].capsule]
      /\ start' = [start EXCEPT ![s] = [stage |-> "done"]]
  BY DEF SaveMeter
<1>3. history' \in [Session -> [Range(Tables) -> Known \cup {Absent}]]
  BY <1>1, <1>2, TableNames, RowTyped
<1>4. [stage |-> "done"] \in Starts(Known)
  BY DEF Starts
<1>5. start' \in [Session -> Starts(Known)]
  BY <1>2, <1>4 DEF RegistryInv
<1>6. \A q \in Session \ {s} : history'[q] = history[q]
  BY <1>2 DEF RegistryInv
<1> QED
  BY <1>3, <1>5, <1>6, StartKeeps DEF SaveMeter

LEMMA FailStartKeeps ==
  ASSUME RegistryInv, NEW s \in Session, FailStart(s)
  PROVE  RegistryInv'
<1>1. [stage |-> "done"] \in Starts(Known)
  BY DEF Starts
<1>2. start' \in [Session -> Starts(Known)]
  BY <1>1 DEF FailStart, RegistryInv
<1>3. Known' = Known /\ Projects' = Projects
  BY DEF FailStart, Known, Projects
<1>4. Moving => Moving'
  <2>1. UNCHANGED <<tables, history, merge>>
    BY DEF FailStart
  <2> QED
    BY <1>3, <2>1 DEF Moving, SoundPlan, HasMoved, HasLeft, Seen, Grown
<1> QED
  BY <1>2, <1>3, <1>4 DEF FailStart, RegistryInv

-----------------------------------------------------------------------------
(* The tables in a merge *)

LEMMA WithoutAliasesSound ==
  ASSUME NEW t, SoundTables(t), NEW p
  PROVE  LET u == WithoutAliases(t, p) IN
         /\ SoundTables(u) /\ Grown(t, u) /\ DOMAIN u.projects = DOMAIN t.projects
<1> DEFINE aliases == [n \in Name |-> IF t.projects[p].aliases[n] = "none"
                                        THEN "none" ELSE "rejected"]
           ps == [t.projects EXCEPT ![p].aliases = aliases]
<1>1. WithoutAliases(t, p) = WithProjects(t, ps)
  BY DEF WithoutAliases
<1>2. t.projects \in Seq(Row)
  BY DEF SoundTables
<1>3. aliases \in [Name -> {"none", "historical", "identity", "rejected"}]
  OBVIOUS
<1> HIDE DEF aliases
<1>4. ps \in Seq(Row) /\ DOMAIN ps = DOMAIN t.projects
  BY <1>2, <1>3, AliasesTyped
<1> HIDE DEF ps
<1> QED
  BY <1>1, <1>4, WithProjectsSound

LEMMA ArchivedSound ==
  ASSUME NEW t, SoundTables(t), NEW p \in DOMAIN t.projects
  PROVE  LET u == Archived(t, p) IN
         /\ SoundTables(u) /\ Grown(t, u) /\ DOMAIN u.projects = DOMAIN t.projects
<1> DEFINE v == WithoutAliases(t, p)
           row == [v.projects[p] EXCEPT !.status = "archived"]
           ps == [v.projects EXCEPT ![p] = row]
<1>1. SoundTables(v) /\ Grown(t, v) /\ DOMAIN v.projects = DOMAIN t.projects
  BY WithoutAliasesSound
<1>2. Archived(t, p) = WithProjects(v, ps)
  BY DEF Archived
<1> HIDE DEF v
<1>3. v.projects \in Seq(Row) /\ v.projects[p] \in Row
  BY <1>1 DEF SoundTables
<1>4. row \in Row
  BY <1>3 DEF Row
<1> HIDE DEF row
<1>5. ps \in Seq(Row) /\ DOMAIN ps = DOMAIN v.projects
  BY <1>1, <1>3, <1>4
<1> HIDE DEF ps
<1> QED
  BY <1>1, <1>2, <1>5, WithProjectsSound, GrownTransitive

\* The objects of one project become another's.
LEMMA ObjectsMovedSound ==
  ASSUME NEW t, SoundTables(t), NEW p \in DOMAIN t.projects, NEW q
  PROVE  LET u == ObjectsMoved(t, q, p) IN
         SoundTables(u) /\ Grown(t, u) /\ u.projects = t.projects
<1> DEFINE Moved(row) == IF row.project = q THEN [row EXCEPT !.project = p] ELSE row
           objects == [o \in DOMAIN t.objects |-> Moved(t.objects[o])]
           u == ObjectsMoved(t, q, p)
<1>1. u = [t EXCEPT !.objects = objects]
  BY DEF ObjectsMoved
<1>2. \A row \in ObjectRow(t.projects) : /\ Moved(row) \in ObjectRow(t.projects)
                                         /\ Moved(row).state = row.state
  BY DEF ObjectRow
<1> HIDE DEF Moved, u
<1>3. /\ objects \in [DOMAIN t.objects -> ObjectRow(t.projects)]
      /\ DOMAIN objects = DOMAIN t.objects
      /\ \A o \in DOMAIN t.objects : objects[o].state = t.objects[o].state
  BY <1>2 DEF SoundTables
<1> HIDE DEF objects
<1>4. /\ u.projects = t.projects /\ u.objects = objects /\ u.relations = t.relations
      /\ u.ok = t.ok /\ Shaped(u)
  BY <1>1 DEF SoundTables, Shaped
<1>5. SoundRelations(objects, t.relations)
  BY <1>3 DEF SoundTables, SoundRelations, SoundRelation, Live
<1>6. SoundTables(u) /\ Grown(t, u)
  BY <1>3, <1>4, <1>5 DEF SoundTables, Grown
<1> QED
  BY <1>4, <1>6 DEF u

-----------------------------------------------------------------------------
(* Steps of a merge *)

LEMMA BeginMergeKeeps ==
  ASSUME RegistryInv, NEW manifest \in Manifests, BeginMerge(manifest)
  PROVE  RegistryInv'
<1>0. PICK plans : plans = [i \in DOMAIN manifest |-> PlanOf(manifest[i])]
  OBVIOUS
<1> DEFINE moved == [k \in DOMAIN Tables |-> [s \in Session |-> Absent]]
<1>1. merge' = [stage |-> "repairing", repairs |-> manifest, plans |-> plans,
                at |-> 1, table |-> 0, draft |-> tables, moved |-> moved, overlapped |-> {}]
  BY <1>0 DEF BeginMerge
<1>2. UNCHANGED <<tables, history, start>>
  BY DEF BeginMerge
<1>3. Known' = Known /\ Projects' = Projects
  BY <1>2 DEF Known, Projects
<1>4. /\ manifest \in Seq(MergeRepair \cup ArchiveRepair) /\ manifest # <<>>
      /\ Len(manifest) \in Nat /\ DOMAIN manifest = 1 .. Len(manifest)
  BY RegistryAssumption
<1>5. ASSUME NEW i \in DOMAIN manifest
      PROVE  SoundPlan(manifest[i], plans[i])
  <2> DEFINE repair == manifest[i]
             plan == PlanOf(repair)
             ps == tables.projects
             match == BySource(ps, repair.match)
             canonical == IF repair.canonical = {} THEN NoProject
                          ELSE BySource(ps, TheOne(repair.canonical))
             target == IF match # NoProject THEN match ELSE canonical
  <2>1. repair \in MergeRepair \cup ArchiveRepair
    BY <1>4
  <2>2. RepairPlans(repair) /\ plans[i] = plan
    BY <1>0 DEF BeginMerge
  <2> HIDE DEF repair
  <2>3. plan = [source |-> BySource(ps, repair.source),
                target |-> IF repair.action = "archive" THEN NoProject ELSE target,
                uri |-> IF repair.action = "archive" \/ target = NoProject THEN repair.source
                        ELSE IF repair.canonical = {} THEN ps[target].source
                        ELSE TheOne(repair.canonical)]
    BY DEF PlanOf
  <2>4. target \in Known /\ BySource(ps, repair.source) \in Known
    BY BySourceIsRow DEF Known, Projects
  <2> HIDE DEF target, plan
  <2>5. plan.source \in Projects
    BY <2>2, <2>3, <2>4 DEF RepairPlans, Known, plan
  <2>6. ASSUME repair.action = "merge"
        PROVE  plan.target \in Projects /\ plan.target # plan.source /\ plan.uri \in Uri
    <3>1. plan.target # NoProject /\ plan.target # plan.source
      BY <2>2, <2>6 DEF RepairPlans, plan
    <3>2. plan.target = target
      BY <2>3, <2>6
    <3>3. target \in Projects
      BY <2>4, <3>1, <3>2 DEF Known
    <3>4. ps[target] \in Row
      BY <3>3 DEF RegistryInv, SoundTables, Projects
    <3>5. repair.canonical \subseteq Uri
      BY <2>1, <2>6 DEF MergeRepair, ArchiveRepair
    <3>6. plan.uri = IF repair.canonical = {} THEN ps[target].source
                     ELSE TheOne(repair.canonical)
      BY <2>3, <2>6, <3>1, <3>2
    <3>7. plan.uri \in Uri
      BY <3>4, <3>5, <3>6 DEF Row, TheOne
    <3> QED
      BY <3>1, <3>2, <3>3, <3>7
  <2> QED
    BY <2>2, <2>5, <2>6 DEF SoundPlan, repair
<1>6. moved \in [DOMAIN Tables -> [Session -> Known \cup {Absent}]]
  OBVIOUS
<1> HIDE DEF moved
<1>7. /\ merge'.repairs = manifest /\ merge'.plans = plans /\ merge'.at = 1
      /\ merge'.table = 0 /\ merge'.draft = tables
  BY <1>1
<1>8. merge' \in [stage : {"repairing"}, repairs : {manifest}, plans : {plans},
                  at : 1 .. Len(manifest) + 1, table : 0 .. Len(Tables) + 1,
                  draft : {tables},
                  moved : [DOMAIN Tables -> [Session -> Known \cup {Absent}]],
                  overlapped : SUBSET Session]
  <2>1. 1 \in 1 .. Len(manifest) + 1 /\ 0 \in 0 .. Len(Tables) + 1
    BY <1>4, TableNames
  <2> QED
    BY <1>1, <1>6, <2>1
<1>9. \A i \in DOMAIN manifest, k \in DOMAIN Tables : ~HasMoved(i, k)'
  BY <1>4, <1>7, TableNames DEF HasMoved
<1>10. \A i \in DOMAIN manifest : SoundPlan(manifest[i], plans[i])'
  BY <1>3, <1>5 DEF SoundPlan
<1>11. SoundTables(tables) /\ Grown(tables, tables)
  BY DEF RegistryInv, Grown
<1>12. Moving'
  BY <1>2, <1>3, <1>7, <1>8, <1>9, <1>10, <1>11 DEF Moving, Projects
<1>13. runs' \in 0 .. MaxRuns
  BY RegistryAssumption DEF BeginMerge, Run, RegistryInv
<1> QED
  BY <1>2, <1>3, <1>12, <1>13 DEF RegistryInv

\* A statement of a merge: the draft stays sound, and the tables that repairs
\* have moved stay left.
LEMMA MergeStepKeeps ==
  ASSUME RegistryInv, Moving, UNCHANGED <<tables, runs, history, start>>,
         NEW draft, SoundTables(draft), DOMAIN draft.projects = Projects,
         Grown(merge.draft, draft),
         NEW moved \in [DOMAIN Tables -> [Session -> Known \cup {Absent}]],
         NEW at \in 1 .. Len(merge.repairs) + 1, NEW table \in 0 .. Len(Tables) + 1,
         merge' = [stage |-> "repairing", repairs |-> merge.repairs, plans |-> merge.plans,
                   at |-> at, table |-> table, draft |-> draft, moved |-> moved,
                   overlapped |-> merge.overlapped],
         \A i \in DOMAIN merge.repairs : \A k \in DOMAIN Tables :
           HasMoved(i, k)' => HasLeft(i, k)'
  PROVE  RegistryInv'
<1>1. Known' = Known /\ Projects' = Projects
  BY DEF Known, Projects
<1>2. /\ merge'.repairs = merge.repairs /\ merge'.plans = merge.plans /\ merge'.draft = draft
  OBVIOUS
<1>3. merge.overlapped \in SUBSET Session
  BY DEF Moving
<1>4. merge' \in [stage : {"repairing"}, repairs : {merge.repairs}, plans : {merge.plans},
                  at : 1 .. Len(merge.repairs) + 1, table : 0 .. Len(Tables) + 1,
                  draft : {draft},
                  moved : [DOMAIN Tables -> [Session -> Known \cup {Absent}]],
                  overlapped : SUBSET Session]
  BY <1>3
<1>5. \A i \in DOMAIN merge.repairs : SoundPlan(merge.repairs[i], merge.plans[i])'
  BY <1>1, <1>2 DEF Moving, SoundPlan
<1>6. Grown(tables, draft)
  BY GrownTransitive DEF Moving
<1>7. Moving'
  BY <1>1, <1>2, <1>4, <1>5, <1>6 DEF Moving
<1> QED
  BY <1>1, <1>7 DEF RegistryInv

\* A merge is at a repair: its plan and its fields.
LEMMA AtRepair ==
  ASSUME RegistryInv, merge.stage = "repairing", merge.at <= Len(merge.repairs)
  PROVE  /\ Moving /\ merge.at \in DOMAIN merge.repairs
         /\ merge.at + 1 \in 1 .. Len(merge.repairs) + 1
         /\ Repair \in MergeRepair \cup ArchiveRepair /\ SoundPlan(Repair, Plan)
<1>1. Moving
  BY DEF RegistryInv, Idle
<1>2. merge.repairs \in Seq(MergeRepair \cup ArchiveRepair)
  BY <1>1, RegistryAssumption DEF Moving
<1>3. merge.at \in 1 .. Len(merge.repairs) + 1
  BY <1>1 DEF Moving
<1>4. Len(merge.repairs) \in Nat /\ DOMAIN merge.repairs = 1 .. Len(merge.repairs)
  BY <1>2
<1>5. merge.at \in DOMAIN merge.repairs /\ merge.at + 1 \in 1 .. Len(merge.repairs) + 1
  BY <1>3, <1>4
<1> QED
  BY <1>1, <1>2, <1>5 DEF Repair, Plan, Moving

\* What has been moved, when nothing is moved but what the step counts.
LEMMA LeftStays ==
  ASSUME UNCHANGED history, merge'.moved = merge.moved, merge'.plans = merge.plans,
         merge'.repairs = merge.repairs, merge'.overlapped = merge.overlapped,
         NEW i, NEW k, HasLeft(i, k)
  PROVE  HasLeft(i, k)'
<1>1. \A s \in Session : Seen(k, s)' = Seen(k, s)
  BY DEF Seen
<1> QED
  BY <1>1 DEF HasLeft

LEMMA ArchiveStepKeeps ==
  ASSUME RegistryInv, ArchiveStep
  PROVE  RegistryInv'
<1>1. PICK draft : draft = Archived(merge.draft, Plan.source)
  OBVIOUS
<1>2. PICK moved : moved = merge.moved
  OBVIOUS
<1>3. PICK at : at = merge.at + 1
  OBVIOUS
<1>4. /\ Moving /\ merge.at \in DOMAIN merge.repairs
      /\ at \in 1 .. Len(merge.repairs) + 1 /\ SoundPlan(Repair, Plan)
  BY <1>3, AtRepair DEF ArchiveStep
<1>5. SoundTables(draft) /\ DOMAIN draft.projects = Projects /\ Grown(merge.draft, draft)
  <2>1. SoundTables(merge.draft) /\ Plan.source \in DOMAIN merge.draft.projects
        /\ DOMAIN merge.draft.projects = Projects
    BY <1>4 DEF Moving, SoundPlan
  <2> QED
    BY <1>1, <2>1, ArchivedSound
<1>6. merge' = [stage |-> "repairing", repairs |-> merge.repairs, plans |-> merge.plans,
                at |-> at, table |-> 0, draft |-> draft, moved |-> moved,
                overlapped |-> merge.overlapped]
  <2>1. merge' = [merge EXCEPT !.draft = draft, !.at = at, !.table = 0]
    BY <1>1, <1>3, <1>4 DEF ArchiveStep, Advance, Moving
  <2> QED
    BY <1>2, <1>4, <2>1 DEF Moving
<1>7. ASSUME NEW i \in DOMAIN merge.repairs, NEW k \in DOMAIN Tables, HasMoved(i, k)'
      PROVE  HasLeft(i, k)'
  <2>1. HasMoved(i, k)
    <3>1. merge'.repairs = merge.repairs /\ merge'.at = merge.at + 1 /\ merge'.table = 0
      BY <1>3, <1>6
    <3>2. i \in Nat /\ merge.at \in Nat /\ k \in 1 .. 5
      BY <1>4, RegistryAssumption, TableNames DEF Moving
    <3>3. i # merge.at
      BY <1>7, <3>1 DEF HasMoved, ArchiveStep, Repair
    <3> QED
      BY <1>7, <3>1, <3>2, <3>3 DEF HasMoved
  <2>2. HasLeft(i, k)
    BY <1>4, <2>1 DEF Moving
  <2> QED
    BY <1>2, <1>6, <2>2, LeftStays DEF ArchiveStep
<1>8. moved \in [DOMAIN Tables -> [Session -> Known \cup {Absent}]]
  BY <1>2, <1>4 DEF Moving
<1>9. 0 \in 0 .. Len(Tables) + 1
  BY TableNames
<1> QED
  BY <1>4, <1>5, <1>6, <1>7, <1>8, <1>9, MergeStepKeeps DEF ArchiveStep

LEMMA RetireAliasesKeeps ==
  ASSUME RegistryInv, RetireAliases
  PROVE  RegistryInv'
<1>1. PICK draft : draft = WithoutAliases(merge.draft, Plan.source)
  OBVIOUS
<1>2. PICK moved : moved = merge.moved
  OBVIOUS
<1>3. PICK at : at = merge.at
  OBVIOUS
<1>4. /\ Moving /\ merge.at \in DOMAIN merge.repairs
      /\ at \in 1 .. Len(merge.repairs) + 1 /\ SoundPlan(Repair, Plan)
  BY <1>3, AtRepair DEF RetireAliases, Moving
<1>5. SoundTables(draft) /\ DOMAIN draft.projects = Projects /\ Grown(merge.draft, draft)
  BY <1>1, <1>4, WithoutAliasesSound DEF Moving
<1>6. merge' = [stage |-> "repairing", repairs |-> merge.repairs, plans |-> merge.plans,
                at |-> at, table |-> 1, draft |-> draft, moved |-> moved,
                overlapped |-> merge.overlapped]
  <2>1. merge' = [merge EXCEPT !.draft = draft, !.table = 1]
    BY <1>1 DEF RetireAliases
  <2> QED
    BY <1>2, <1>3, <1>4, <2>1 DEF Moving
<1>7. ASSUME NEW i \in DOMAIN merge.repairs, NEW k \in DOMAIN Tables, HasMoved(i, k)'
      PROVE  HasLeft(i, k)'
  <2>1. HasMoved(i, k)
    <3>1. merge'.repairs = merge.repairs /\ merge'.at = merge.at /\ merge'.table = 1
      BY <1>3, <1>6
    <3>2. k \in 1 .. 5
      BY TableNames
    <3> QED
      BY <1>7, <3>1, <3>2 DEF HasMoved
  <2>2. HasLeft(i, k)
    BY <1>4, <2>1 DEF Moving
  <2> QED
    BY <1>2, <1>6, <2>2, LeftStays DEF RetireAliases
<1>8. moved \in [DOMAIN Tables -> [Session -> Known \cup {Absent}]]
  BY <1>2, <1>4 DEF Moving
<1>9. 1 \in 0 .. Len(Tables) + 1
  BY TableNames
<1>10. UNCHANGED <<tables, runs, history, start>>
  BY DEF RetireAliases
<1> QED
  BY <1>4, <1>5, <1>6, <1>7, <1>8, <1>9, <1>10, MergeStepKeeps

\* A row that a repair writes is its target's: then the repairs before it have
\* left it, or their source is this one's target.
LEMMA LeftAfterWrite ==
  ASSUME merge'.plans = merge.plans, merge'.repairs = merge.repairs,
         merge'.overlapped = merge.overlapped, merge.at \in DOMAIN merge.repairs,
         NEW k, \A s \in Session : Seen(k, s)' \in {Seen(k, s), Plan.target},
         NEW i \in DOMAIN merge.repairs, i < merge.at, HasLeft(i, k)
  PROVE  HasLeft(i, k)'
<1>1. CASE Plan.target = merge.plans[i].source
  <2>1. \E j \in DOMAIN merge.repairs : j > i /\ merge.plans[j].target = merge.plans[i].source
    BY <1>1 DEF Plan
  <2> QED
    BY <2>1 DEF HasLeft
<1>2. CASE Plan.target # merge.plans[i].source
  BY <1>2 DEF HasLeft
<1> QED
  BY <1>1, <1>2

LEMMA MoveTableKeeps ==
  ASSUME RegistryInv, MoveTable
  PROVE  RegistryInv'
<1>1. PICK row : row = [s \in Session |-> MovedTo(merge.table, s)]
  OBVIOUS
<1>2. PICK at, at_table : at = merge.at /\ at_table = merge.table
  OBVIOUS
<1>3. PICK moved : moved = [merge.moved EXCEPT ![at_table] = row]
  OBVIOUS
<1>4. PICK draft : draft = merge.draft
  OBVIOUS
<1>5. /\ Moving /\ at \in DOMAIN merge.repairs /\ at \in 1 .. Len(merge.repairs) + 1
      /\ SoundPlan(Repair, Plan)
  BY <1>2, AtRepair DEF MoveTable, Moving
<1>6. /\ SoundTables(draft) /\ DOMAIN draft.projects = Projects /\ Grown(merge.draft, draft)
  BY <1>4, <1>5 DEF Moving, Grown
<1>7. at_table \in 1 .. 5 /\ at_table \in DOMAIN Tables /\ at_table + 1 \in 0 .. Len(Tables) + 1
  BY <1>2, TableNames DEF MoveTable
<1>8. /\ merge.moved \in [DOMAIN Tables -> [Session -> Known \cup {Absent}]]
      /\ Plan.target \in Projects /\ Plan.target # Plan.source
  BY <1>5 DEF Moving, SoundPlan, MoveTable
<1>9. Plan.target # Absent
  <2>1. tables.projects \in Seq(Row)
    BY DEF RegistryInv, SoundTables
  <2>2. Plan.target \in Nat
    BY <1>8, <2>1 DEF Projects
  <2> QED
    BY <2>2 DEF Absent
<1>10. \A s \in Session : row[s] = MovedTo(at_table, s) /\ row[s] \in Known \cup {Absent}
  BY <1>1, <1>2, <1>7, <1>8 DEF MovedTo, Known
<1>11. moved \in [DOMAIN Tables -> [Session -> Known \cup {Absent}]]
  <2>1. row \in [Session -> Known \cup {Absent}]
    BY <1>1, <1>10
  <2> HIDE DEF Known
  <2> QED
    BY <1>3, <1>7, <1>8, <2>1
<1>12. merge' = [stage |-> "repairing", repairs |-> merge.repairs, plans |-> merge.plans,
                 at |-> at, table |-> at_table + 1, draft |-> draft, moved |-> moved,
                 overlapped |-> merge.overlapped]
  <2>1. merge' = [merge EXCEPT !.moved = moved, !.table = at_table + 1]
    BY <1>1, <1>2, <1>3, <1>5 DEF MoveTable, Moving
  <2> QED
    BY <1>2, <1>4, <1>5, <2>1 DEF Moving
<1>13. /\ merge'.repairs = merge.repairs /\ merge'.plans = merge.plans /\ merge'.at = merge.at
       /\ merge'.table = at_table + 1 /\ merge'.moved = moved
       /\ merge'.overlapped = merge.overlapped
  BY <1>2, <1>12
<1>14. \A k \in DOMAIN Tables, s \in Session :
         Seen(k, s)' = IF k = at_table /\ Seen(k, s) = Plan.source THEN Plan.target
                       ELSE Seen(k, s)
  <2> SUFFICES ASSUME NEW k \in DOMAIN Tables, NEW s \in Session
               PROVE  Seen(k, s)' = IF k = at_table /\ Seen(k, s) = Plan.source
                                      THEN Plan.target ELSE Seen(k, s)
    OBVIOUS
  <2>1. Seen(k, s)' = IF moved[k][s] # Absent THEN moved[k][s] ELSE history[s][Tables[k]]
    <3>1. history' = history
      BY DEF MoveTable
    <3> QED
      BY <1>13, <3>1 DEF Seen
  <2>2. CASE k = at_table
    <3>1. moved[k][s] = MovedTo(k, s)
      BY <1>3, <1>7, <1>8, <1>10, <2>2
    <3>2. CASE Seen(k, s) = Plan.source
      BY <1>9, <2>1, <2>2, <3>1, <3>2 DEF MovedTo
    <3>3. CASE Seen(k, s) # Plan.source
      BY <2>1, <3>1, <3>3 DEF MovedTo, Seen
    <3> QED
      BY <2>2, <3>2, <3>3
  <2>3. CASE k # at_table
    <3>1. moved[k] = merge.moved[k]
      BY <1>3, <1>8, <2>3
    <3> QED
      BY <2>1, <2>3, <3>1 DEF Seen
  <2> QED
    BY <2>2, <2>3
<1>15. ASSUME NEW i \in DOMAIN merge.repairs, NEW k \in DOMAIN Tables, HasMoved(i, k)'
       PROVE  HasLeft(i, k)'
  <2>1. \A s \in Session : Seen(k, s)' \in {Seen(k, s), Plan.target}
    BY <1>14
  <2>2. CASE i = at /\ k = at_table
    <3>1. \A s \in Session : Seen(k, s)' # Plan.source
      BY <1>8, <1>14, <2>2
    <3> QED
      BY <1>2, <1>13, <2>2, <3>1 DEF HasLeft, Plan
  <2>3. CASE i = at /\ k # at_table
    <3>1. HasMoved(i, k)
      BY <1>2, <1>7, <1>13, <1>15, <2>3, TableNames DEF HasMoved
    <3>2. HasLeft(i, k)
      BY <1>5, <3>1 DEF Moving
    <3>3. \A s \in Session : Seen(k, s)' = Seen(k, s)
      BY <1>14, <2>3
    <3> QED
      BY <1>13, <3>2, <3>3 DEF HasLeft
  <2>4. CASE i # at
    <3>1. i < merge.at /\ HasMoved(i, k)
      BY <1>2, <1>13, <1>15, <2>4 DEF HasMoved
    <3>2. HasLeft(i, k)
      BY <1>5, <3>1 DEF Moving
    <3> QED
      BY <1>2, <1>5, <1>13, <2>1, <3>1, <3>2, LeftAfterWrite
  <2> QED
    BY <2>2, <2>3, <2>4
<1>16. UNCHANGED <<tables, runs, history, start>>
  BY DEF MoveTable
<1> QED
  BY <1>5, <1>6, <1>7, <1>11, <1>12, <1>15, <1>16, MergeStepKeeps

\* What Retarget makes of the draft: the source's objects and names are the
\* target's, and the source is archived.
LEMMA RetargetedSound ==
  ASSUME NEW t, SoundTables(t), NEW repair, repair.name \in Name, NEW plan,
         plan.target \in DOMAIN t.projects, plan.source \in DOMAIN t.projects,
         plan.uri \in Uri
  PROVE  LET u == Retargeted(t, repair, plan) IN
         /\ SoundTables(u) /\ Grown(t, u) /\ DOMAIN u.projects = DOMAIN t.projects
<1> DEFINE p == plan.target
           q == plan.source
           names == {repair.name} \cup repair.aliases
           moved == ObjectsMoved(t, q, p)
           row == [moved.projects[p] EXCEPT !.name = repair.name, !.source = plan.uri,
                                            !.status = "confirmed"]
           ps == [moved.projects EXCEPT ![p] = row]
           named == WithProjects(moved, ps)
           identified == WithIdentities(named, p, names)
           u == Archived(identified, q)
<1>1. Retargeted(t, repair, plan) = u
  BY DEF Retargeted
<1>2. SoundTables(moved) /\ Grown(t, moved) /\ moved.projects = t.projects
  BY ObjectsMovedSound
<1> HIDE DEF moved
<1>3. moved.projects \in Seq(Row) /\ moved.projects[p] \in Row
  BY <1>2 DEF SoundTables
<1>4. row \in Row
  BY <1>3 DEF Row
<1> HIDE DEF row
<1>5. ps \in Seq(Row) /\ DOMAIN ps = DOMAIN t.projects
  BY <1>2, <1>3, <1>4
<1> HIDE DEF ps
<1>6. SoundTables(named) /\ Grown(moved, named) /\ named.projects = ps
  BY <1>2, <1>5, WithProjectsSound
<1> HIDE DEF named
<1>7. SoundTables(identified) /\ Grown(named, identified)
      /\ DOMAIN identified.projects = DOMAIN named.projects
  BY <1>6, WithIdentitiesSound
<1> HIDE DEF identified
<1>8. SoundTables(u) /\ Grown(identified, u) /\ DOMAIN u.projects = DOMAIN identified.projects
  BY <1>5, <1>6, <1>7, ArchivedSound
<1> HIDE DEF u
<1>9. Grown(t, u) /\ DOMAIN u.projects = DOMAIN t.projects
  BY <1>2, <1>5, <1>6, <1>7, <1>8, GrownTransitive
<1> QED
  BY <1>1, <1>8, <1>9

LEMMA RetargetKeeps ==
  ASSUME RegistryInv, Retarget
  PROVE  RegistryInv'
<1>1. PICK draft : draft = Retargeted(merge.draft, Repair, Plan)
  OBVIOUS
<1>2. PICK row : row = [s \in Session |-> Adopting(s)]
  OBVIOUS
<1>3. PICK moved : moved = [merge.moved EXCEPT ![2] = row]
  OBVIOUS
<1>4. PICK at : at = merge.at + 1
  OBVIOUS
<1>5. /\ Moving /\ merge.at \in DOMAIN merge.repairs /\ at \in 1 .. Len(merge.repairs) + 1
      /\ Repair \in MergeRepair \cup ArchiveRepair /\ SoundPlan(Repair, Plan)
  BY <1>4, AtRepair DEF Retarget
<1>6. /\ Plan.target \in Projects /\ Plan.source \in Projects /\ Plan.target # Plan.source
      /\ Plan.uri \in Uri /\ Repair.name \in Name
  BY <1>5 DEF SoundPlan, Retarget, MergeRepair, ArchiveRepair
<1>7. SoundTables(draft) /\ DOMAIN draft.projects = Projects /\ Grown(merge.draft, draft)
  <2>1. SoundTables(merge.draft) /\ DOMAIN merge.draft.projects = Projects
    BY <1>5 DEF Moving
  <2> QED
    BY <1>1, <1>6, <2>1, RetargetedSound
<1>8. merge' = [merge EXCEPT !.draft = draft, !.at = at, !.table = 0, !.moved[2] = row]
  <2>1. merge' = [Advance(draft) EXCEPT !.moved[2] = row]
    BY <1>1, <1>2 DEF Retarget
  <2>2. Advance(draft) = [merge EXCEPT !.draft = draft, !.at = at, !.table = 0]
    BY <1>4, <1>5 DEF Advance, Moving
  <2> QED
    BY <2>1, <2>2
<1>9. Plan.target # Absent
  <2>1. tables.projects \in Seq(Row)
    BY DEF RegistryInv, SoundTables
  <2>2. Plan.target \in Nat
    BY <1>6, <2>1 DEF Projects
  <2> QED
    BY <2>2 DEF Absent
<1>10. merge.moved \in [DOMAIN Tables -> [Session -> Known \cup {Absent}]] /\ 2 \in DOMAIN Tables
  BY <1>5, TableNames DEF Moving
<1>11. \A s \in Session : row[s] = Adopting(s) /\ row[s] \in Known \cup {Absent}
  BY <1>2, <1>6, <1>10 DEF Adopting, Known
<1>12. moved \in [DOMAIN Tables -> [Session -> Known \cup {Absent}]]
  <2>1. row \in [Session -> Known \cup {Absent}]
    BY <1>2, <1>11
  <2> HIDE DEF Known
  <2> QED
    BY <1>3, <1>10, <2>1
<1>13. merge' = [stage |-> "repairing", repairs |-> merge.repairs, plans |-> merge.plans,
                 at |-> at, table |-> 0, draft |-> draft, moved |-> moved,
                 overlapped |-> merge.overlapped]
  BY <1>3, <1>5, <1>8 DEF Moving
<1>14. /\ merge'.repairs = merge.repairs /\ merge'.plans = merge.plans
       /\ merge'.at = merge.at + 1 /\ merge'.table = 0 /\ merge'.moved = moved
       /\ merge'.overlapped = merge.overlapped
  BY <1>4, <1>13
<1>15. \A k \in DOMAIN Tables, s \in Session :
         Seen(k, s)' = Seen(k, s) \/ Seen(k, s)' = Plan.target
  <2> SUFFICES ASSUME NEW k \in DOMAIN Tables, NEW s \in Session
               PROVE  Seen(k, s)' = Seen(k, s) \/ Seen(k, s)' = Plan.target
    OBVIOUS
  <2>1. Seen(k, s)' = IF moved[k][s] # Absent THEN moved[k][s] ELSE history[s][Tables[k]]
    <3>1. history' = history
      BY DEF Retarget
    <3> QED
      BY <1>14, <3>1 DEF Seen
  <2>2. CASE k = 2
    <3>1. moved[k][s] = Adopting(s)
      BY <1>3, <1>10, <1>11, <2>2
    <3> QED
      BY <1>9, <2>1, <2>2, <3>1 DEF Adopting, Seen
  <2>3. CASE k # 2
    <3>1. moved[k] = merge.moved[k]
      BY <1>3, <1>10, <2>3
    <3> QED
      BY <2>1, <3>1 DEF Seen
  <2> QED
    BY <2>2, <2>3
<1>16. ASSUME NEW i \in DOMAIN merge.repairs, NEW k \in DOMAIN Tables, HasMoved(i, k)'
       PROVE  HasLeft(i, k)'
  <2>1. \A s \in Session : Seen(k, s)' \in {Seen(k, s), Plan.target}
    BY <1>15
  <2>2. i \in Nat /\ merge.at \in Nat /\ k \in 1 .. 5
    BY <1>5, RegistryAssumption, TableNames DEF Moving
  <2>3. i <= merge.at /\ HasMoved(i, k)
    <3>1. merge.table \in Nat /\ merge.table > 5
      BY <1>5, TableNames DEF Retarget, Moving
    <3>2. merge.repairs[i].action = "merge" /\ i < merge.at + 1
      BY <1>14, <1>16, <2>2 DEF HasMoved
    <3> QED
      BY <2>2, <3>1, <3>2 DEF HasMoved
  <2>4. HasLeft(i, k)
    BY <1>5, <2>3 DEF Moving
  <2>5. CASE i = merge.at
    BY <1>6, <1>14, <2>1, <2>4, <2>5 DEF HasLeft, Plan
  <2>6. CASE i # merge.at
    BY <1>5, <1>14, <2>1, <2>2, <2>3, <2>4, <2>6, LeftAfterWrite
  <2> QED
    BY <2>5, <2>6
<1>17. UNCHANGED <<tables, runs, history, start>>
  BY DEF Retarget
<1>18. 0 \in 0 .. Len(Tables) + 1
  BY TableNames
<1> QED
  BY <1>5, <1>7, <1>12, <1>13, <1>16, <1>17, <1>18, MergeStepKeeps

\* At the end every repair has moved every table.
LEMMA DoneHasMoved ==
  ASSUME RegistryInv, Done, NEW i \in DOMAIN merge.repairs, NEW k \in DOMAIN Tables,
         merge.repairs[i].action = "merge"
  PROVE  HasLeft(i, k)
<1>1. Moving
  BY DEF RegistryInv, Done, Idle
<1>2. merge.repairs \in Seq(MergeRepair \cup ArchiveRepair)
  BY <1>1, RegistryAssumption DEF Moving
<1>3. i < merge.at
  BY <1>1, <1>2 DEF Done, Moving
<1> QED
  BY <1>1, <1>3 DEF Moving, HasMoved

LEMMA CommitMergeKeeps ==
  ASSUME RegistryInv, CommitMerge
  PROVE  RegistryInv'
<1>1. Moving
  BY DEF RegistryInv, CommitMerge, Done, Idle
<1>2. SoundTables(tables') /\ tables'.ok
  BY <1>1 DEF CommitMerge, Moving
<1>3. Projects' = Projects /\ Known' = Known
  BY <1>1 DEF CommitMerge, Moving, Projects, Known
<1>4. history' \in [Session -> [Range(Tables) -> Known \cup {Absent}]]
  <2> DEFINE K(table) == CHOOSE i \in DOMAIN Tables : Tables[i] = table
             Row2(s, table) == IF merge.moved[K(table)][s] # Absent
                                 THEN merge.moved[K(table)][s] ELSE history[s][table]
  <2>1. history' = [s \in Session |-> [table \in Range(Tables) |-> Row2(s, table)]]
    BY DEF CommitMerge
  <2>2. \A s \in Session, table \in Range(Tables) : Row2(s, table) \in Known \cup {Absent}
    <3> SUFFICES ASSUME NEW s \in Session, NEW table \in Range(Tables)
                 PROVE  Row2(s, table) \in Known \cup {Absent}
      OBVIOUS
    <3>1. K(table) \in DOMAIN Tables
      BY TableIndex
    <3> HIDE DEF K, Known
    <3>2. merge.moved[K(table)][s] \in Known \cup {Absent}
      BY <1>1, <3>1 DEF Moving
    <3>3. history[s][table] \in Known \cup {Absent}
      BY DEF RegistryInv
    <3> QED
      BY <3>2, <3>3
  <2> HIDE DEF Row2, Known
  <2> QED
    BY <2>1, <2>2
<1> QED
  BY <1>2, <1>3, <1>4 DEF CommitMerge, RegistryInv

LEMMA AbortMergeKeeps ==
  ASSUME RegistryInv, AbortMerge
  PROVE  RegistryInv'
BY DEF RegistryInv, AbortMerge, Projects, Known

-----------------------------------------------------------------------------
(* Theorems *)

LEMMA RegistryInvInductive ==
  ASSUME RegistryInv, [Next]_vars
  PROVE  RegistryInv'
<1>1. CASE UNCHANGED vars
  <2>1. Moving => Moving'
    BY <1>1 DEF vars, Moving, SoundPlan, HasMoved, HasLeft, Seen, Projects, Known, Grown
  <2> QED
    BY <1>1, <2>1 DEF vars, RegistryInv, Projects, Known
<1>2. ASSUME NEW input \in Inputs, NEW present \in Disks, Reconcile(input, present)
      PROVE  RegistryInv'
  BY <1>2, ReconcileKeeps
<1>3. ASSUME NEW manifest \in Manifests, BeginMerge(manifest)
      PROVE  RegistryInv'
  BY <1>3, BeginMergeKeeps
<1>4. CASE ArchiveStep
  BY <1>4, ArchiveStepKeeps
<1>5. CASE RetireAliases
  BY <1>5, RetireAliasesKeeps
<1>6. CASE MoveTable
  BY <1>6, MoveTableKeeps
<1>7. CASE Retarget
  BY <1>7, RetargetKeeps
<1>8. CASE CommitMerge
  BY <1>8, CommitMergeKeeps
<1>9. CASE AbortMerge
  BY <1>9, AbortMergeKeeps
<1>10. ASSUME NEW s \in Session, NEW req \in Requests, BeginStart(s, req)
       PROVE  RegistryInv'
  BY <1>10, BeginStartKeeps
<1>11. ASSUME NEW s \in Session, CommitStart(s)
       PROVE  RegistryInv'
  BY <1>11, CommitStartKeeps
<1>12. ASSUME NEW s \in Session, ResolveCapsule(s)
       PROVE  RegistryInv'
  BY <1>12, ResolveCapsuleKeeps
<1>13. ASSUME NEW s \in Session, SaveCapsule(s)
       PROVE  RegistryInv'
  BY <1>13, SaveCapsuleKeeps
<1>14. ASSUME NEW s \in Session, SaveMeter(s)
       PROVE  RegistryInv'
  BY <1>14, SaveMeterKeeps
<1>15. ASSUME NEW s \in Session, FailStart(s)
       PROVE  RegistryInv'
  BY <1>15, FailStartKeeps
<1>16. ASSUME NEW s \in Session, NEW c \in Claims, Record(s, c)
       PROVE  RegistryInv'
  BY <1>16, RecordKeeps
<1> QED
  BY <1>1, <1>2, <1>3, <1>4, <1>5, <1>6, <1>7, <1>8, <1>9, <1>10, <1>11, <1>12, <1>13, <1>14,
     <1>15, <1>16 DEF Next, Operator, Daemon, Agents

\* The tables obey the schema after any registries, merges and archives, whatever
\* starts run meanwhile; a merge's draft does too, and the tables that its
\* repairs have gone through are left by their sources.
THEOREM RegistryInvariant == Spec => []RegistryInv
<1>1. Init => RegistryInv
  BY InitRegistryInv
<1>2. RegistryInv /\ [Next]_vars => RegistryInv'
  BY RegistryInvInductive
<1> QED
  BY <1>1, <1>2, PTL DEF Spec

\* Rows are typed and refer to rows that there are, for any registries and
\* manifests of repairs.
THEOREM RegistryTypeCorrect == Spec => []TypeOK
<1>1. RegistryInv => TypeOK
  <2> SUFFICES ASSUME RegistryInv PROVE TypeOK
    OBVIOUS
  <2>1. tables.ok /\ tables.projects \in Seq(Row)
    BY DEF RegistryInv, SoundTables
  <2>2. \A o \in DOMAIN tables.objects :
          tables.objects[o].project \in DOMAIN tables.projects \cup {NoProject}
    BY DEF RegistryInv, SoundTables, ObjectRow
  <2>3. \A rel \in tables.relations : {rel.from, rel.to} \subseteq DOMAIN tables.objects
    BY DEF RegistryInv, SoundTables, SoundRelations, SoundRelation
  <2>4. merge # Idle => merge.at \in 1 .. Len(merge.repairs) + 1
    BY DEF RegistryInv, Moving
  <2> QED
    BY <2>1, <2>2, <2>3, <2>4 DEF TypeOK, RegistryInv, Known, Projects
<1> QED
  BY <1>1, RegistryInvariant, PTL

\* A canonical alias resolves to the project that has it, after any sequence of
\* registries, renames, merges and archives.
THEOREM AliasesResolve == Spec => []CanonicalAliasesResolve
<1>1. RegistryInv => CanonicalAliasesResolve
  <2> SUFFICES ASSUME RegistryInv, NEW p \in DOMAIN tables.projects, NEW n \in Name,
                      tables.projects[p].status = "confirmed",
                      tables.projects[p].aliases[n] = "identity",
                      \A q \in DOMAIN tables.projects \ {p} : tables.projects[q].source # n
               PROVE  Resolve(tables.projects, n) = p
    BY DEF CanonicalAliasesResolve
  <2>1. tables.projects \in Seq(Row) /\ Indexed(tables.projects)
    BY DEF RegistryInv, SoundTables
  <2> QED
    BY <2>1, IdentityResolves
<1> QED
  BY <1>1, RegistryInvariant, PTL

\* No current relation has an end that a manifest has retired, whatever objects
\* manifests retire, adopt and assert again, and whatever relations agents assert
\* and retract meanwhile.
THEOREM RelationsLive == Spec => []CurrentRelationsLive
<1>1. RegistryInv => CurrentRelationsLive
  BY DEF RegistryInv, SoundTables, SoundRelations, SoundRelation, Live, CurrentRelationsLive
<1> QED
  BY <1>1, RegistryInvariant, PTL

\* When a merge commits, no row is left to the source of one of its repairs but
\* those of sessions that were started meanwhile, whatever other repairs the
\* manifest has.
THEOREM MergeLeavesNothing == Spec => MergeTakesHistory
<1>1. ASSUME RegistryInv, CommitMerge, NEW i \in DOMAIN merge.repairs,
             merge.repairs[i].action = "merge"
      PROVE  \/ \E j \in DOMAIN merge.repairs :
                  j > i /\ merge.plans[j].target = merge.plans[i].source
             \/ \A s \in Session \ merge.overlapped : \A table \in Range(Tables) :
                  history'[s][table] # merge.plans[i].source
  <2> SUFFICES ASSUME ~\E j \in DOMAIN merge.repairs :
                         j > i /\ merge.plans[j].target = merge.plans[i].source,
                      NEW s \in Session \ merge.overlapped, NEW table \in Range(Tables)
               PROVE  history'[s][table] # merge.plans[i].source
    OBVIOUS
  <2> DEFINE k == CHOOSE j \in DOMAIN Tables : Tables[j] = table
  <2>1. k \in DOMAIN Tables /\ Tables[k] = table
    BY TableIndex
  <2>2. history'[s][table] = IF merge.moved[k][s] # Absent THEN merge.moved[k][s]
                             ELSE history[s][table]
    BY <1>1 DEF CommitMerge
  <2> HIDE DEF k
  <2>3. HasLeft(i, k)
    BY <1>1, <2>1, DoneHasMoved DEF CommitMerge
  <2>4. history'[s][table] = Seen(k, s)
    BY <2>1, <2>2 DEF Seen
  <2> QED
    BY <2>3, <2>4 DEF HasLeft
<1> DEFINE LeftNothing ==
      \A i \in DOMAIN merge.repairs : merge.repairs[i].action = "merge" =>
        \/ \E j \in DOMAIN merge.repairs :
             j > i /\ merge.plans[j].target = merge.plans[i].source
        \/ \A s \in Session \ merge.overlapped : \A table \in Range(Tables) :
             history'[s][table] # merge.plans[i].source
<1>2. RegistryInv => (CommitMerge => LeftNothing)
  BY <1>1
<1>3. RegistryInv /\ [Next]_vars => [CommitMerge => LeftNothing]_vars
  BY <1>2
<1> QED
  BY <1>3, RegistryInvariant, PTL DEF Spec, MergeTakesHistory

\* What a registry that may be repeated leaves, it finds again: it is still
\* planned and changes nothing, after any history of registries, repairs and
\* starts of sessions before it, and with sessions starting in between.
LEMMA ReconcileRepeats ==
  ASSUME RegistryInv, RegistryIdempotent,
         NEW input \in Inputs, NEW present \in Disks, Reconcile(input, present)
  PROVE  RegistryIdempotent'
<1> DEFINE r == Registry(input, present)
<1>1. r \in Registries /\ NamedEntries(r)
  BY RegistryAssumption, RegistryTyped, RegistryIsNamed
<1>2. /\ Plannable(tables, r)
      /\ tables' = Reconciled(tables, r)
      /\ last' = IF tables' = tables THEN last
                 ELSE [stage |-> "applied", registry |-> r, repeatable |-> Repeatable(tables, r)]
  BY DEF Reconcile
<1> HIDE DEF r
<1>3. CASE tables' = tables
  BY <1>2, <1>3 DEF RegistryIdempotent
<1>4. CASE tables' # tables
  <2>1. /\ last'.registry = r
        /\ last'.repeatable = Repeatable(tables, r)
    BY <1>2, <1>4
  <2>2. tables' = AllApplied(tables, r) /\ tables'.ok
    BY <1>2, <1>4 DEF Reconciled, Accepted
  <2>3. SoundTables(tables)
    BY DEF RegistryInv
  <2>4. Repeatable(tables, r) => Plannable(tables', r) /\ Reconciled(tables', r) = tables'
    BY <1>1, <1>2, <2>2, <2>3, ReconciledAgain
  <2> QED
    BY <2>1, <2>4 DEF RegistryIdempotent
<1> QED
  BY <1>3, <1>4

\* "Re-running the same manifest is idempotent", if it neither undoes nor renames
\* itself what it is applied to: it plans again and changes nothing.
THEOREM RegistryRepeats == Spec => []RegistryIdempotent
<1>1. Init => RegistryIdempotent
  BY DEF Init, NoRegistry, RegistryIdempotent
<1>2. ASSUME RegistryInv, RegistryIdempotent, [Next]_vars
      PROVE  RegistryIdempotent'
  <2>1. CASE UNCHANGED vars
    BY <1>2, <2>1 DEF vars, RegistryIdempotent
  <2>2. ASSUME NEW input \in Inputs, NEW present \in Disks, Reconcile(input, present)
        PROVE  RegistryIdempotent'
    BY <1>2, <2>2, ReconcileRepeats
  <2>3. CASE CommitMerge
    BY <2>3 DEF CommitMerge, NoRegistry, RegistryIdempotent
  <2>4. ASSUME NEW manifest \in Manifests, BeginMerge(manifest)
        PROVE  RegistryIdempotent'
    BY <1>2, <2>4 DEF BeginMerge, RegistryIdempotent
  <2>5. CASE ArchiveStep \/ RetireAliases \/ MoveTable \/ Retarget \/ AbortMerge
    BY <1>2, <2>5
       DEF ArchiveStep, RetireAliases, MoveTable, Retarget, AbortMerge, RegistryIdempotent
  <2>6. CASE Daemon
    BY <1>2, <2>6
       DEF Daemon, BeginStart, CommitStart, ResolveCapsule, SaveCapsule, SaveMeter, FailStart,
           RegistryIdempotent
  <2>7. CASE Agents
    BY <2>7 DEF Agents, Record, NoRegistry, RegistryIdempotent
  <2> QED
    BY <1>2, <2>1, <2>2, <2>3, <2>4, <2>5, <2>6, <2>7 DEF Next, Operator
<1> QED
  BY <1>1, <1>2, RegistryInvariant, PTL DEF Spec
==============================================================================
