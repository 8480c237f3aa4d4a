--------------------------- MODULE ProjectRegistry ---------------------------
(***************************************************************************)
(* Projects while sessions start.  An operator applies registries and      *)
(* merges or archives projects, each as one transaction under the ontology *)
(* lock; the merge moves a project's history table by table.  Meanwhile    *)
(* the daemon starts sessions, whose project is looked up first, written   *)
(* with the session, and looked up again for the session's capsule; and    *)
(* agents assert or retract relations, those of the registry among them.   *)
(***************************************************************************)
EXTENDS ProjectTables

CONSTANTS
  InitialProjects,  \* rows of projects that older versions have left
  InitialObjects,   \* objects there are, with their projects
  Inputs,           \* registries an operator may have (state and manifest)
  Disks,            \* sets of roots that may exist when a registry is read
  Manifests,        \* sequences of repairs: merges and archives
  Session,          \* starts of sessions
  Requests,         \* what they ask for: [hint, root, repository, bootstrap]
  Claims,           \* relation effects that agents may record
  MaxRuns           \* bound on the operator's runs with --apply and these effects

Tables == <<"intentions", "agent_sessions", "activities",
            "context_capsules", "context_meter_samples">>

Absent == -1          \* no row yet

\* A merge renames its target, which is what "match" or else "canonical" names.
MergeRepair ==
  [action : {"merge"}, source : Uri, match : Uri, canonical : SUBSET Uri,
   name : Name, aliases : SUBSET Name, sessions : SUBSET Session]
ArchiveRepair == [action : {"archive"}, source : Uri]

\* What older versions have left obeys the schema's indexes and references.
ASSUME RegistryAssumption ==
  /\ MaxRuns \in Nat
  /\ InitialProjects \in Seq(Row) /\ Indexed(InitialProjects)
  /\ InitialObjects \in [DOMAIN InitialObjects ->
       [state : {"confirmed", "candidate", "rejected"},
        project : DOMAIN InitialProjects \cup {NoProject}]]
  /\ Inputs \subseteq Input
  /\ Disks \subseteq SUBSET Root
  /\ Manifests \subseteq Seq(MergeRepair \cup ArchiveRepair) \ {<<>>}
  /\ \A c \in Claims : c.op \in {"assert", "retract"} /\ c.state \in {"candidate", "confirmed"}

VARIABLES
  tables,     \* [projects, objects, relations, ok]
  last,       \* ghost: the registry that was applied last, and nothing since
  runs,       \* how many runs and recorded effects there were (a bound)
  history,    \* of each session, the project of its row in each table
  start,      \* the daemon's requests that start sessions
  merge       \* the transaction of a supersession

vars == <<tables, last, runs, history, start, merge>>

Idle == [stage |-> "idle"]
NoRegistry == [stage |-> "none"]

-----------------------------------------------------------------------------
(* The operator: registries *)

Run == merge = Idle /\ runs < MaxRuns /\ runs' = runs + 1

\* reconcile-projects --apply, with the directories that exist now.
Reconcile(input, present) ==
  LET r == Registry(input, present) IN
  /\ Run
  /\ UniqueIdentities(r) /\ Plannable(tables, r)
  /\ tables' = Reconciled(tables, r)
  /\ last' = IF tables' = tables THEN last
             ELSE [stage |-> "applied", registry |-> r, repeatable |-> Repeatable(tables, r)]
  /\ UNCHANGED <<history, start, merge>>

-----------------------------------------------------------------------------
(* The operator: repairs *)

\* planRepairs, for one repair.
PlanOf(repair) ==
  LET ps == tables.projects
      match == BySource(ps, repair.match)
      canonical == IF repair.canonical = {} THEN NoProject
                   ELSE BySource(ps, TheOne(repair.canonical))
      target == IF match # NoProject THEN match ELSE canonical IN
  [source |-> BySource(ps, repair.source),
   target |-> IF repair.action = "archive" THEN NoProject ELSE target,
   uri |-> IF repair.action = "archive" \/ target = NoProject THEN repair.source
           ELSE IF repair.canonical = {} THEN ps[target].source ELSE TheOne(repair.canonical)]

RepairPlans(repair) ==
  LET plan == PlanOf(repair) IN
  /\ plan.source # NoProject
  /\ repair.action = "merge" =>
       /\ plan.target # NoProject /\ plan.target # plan.source
       /\ BySource(tables.projects, plan.uri) \in {NoProject, plan.target}

\* Under the ontology lock, all repairs are planned before the first is done.
BeginMerge(manifest) ==
  /\ Run
  /\ \A i \in DOMAIN manifest : RepairPlans(manifest[i])
  /\ merge' = [stage |-> "repairing", repairs |-> manifest,
               plans |-> [i \in DOMAIN manifest |-> PlanOf(manifest[i])],
               at |-> 1, table |-> 0, draft |-> tables,
               moved |-> [k \in DOMAIN Tables |-> [s \in Session |-> Absent]],
               overlapped |-> {}]
  /\ UNCHANGED <<tables, last, history, start>>

Repair == merge.repairs[merge.at]
Plan == merge.plans[merge.at]

WithoutAliases(t, p) ==
  WithProjects(t, [t.projects EXCEPT ![p].aliases =
    [n \in Name |-> IF @[n] = "none" THEN "none" ELSE "rejected"]])

\* archiveProject.
Archived(t, p) ==
  LET retired == WithoutAliases(t, p) IN
  WithProjects(retired, [retired.projects EXCEPT ![p].status = "archived"])

Advance(draft) ==
  [merge EXCEPT !.draft = draft, !.at = @ + 1, !.table = 0]

ArchiveStep ==
  /\ merge.stage = "repairing" /\ merge.at <= Len(merge.repairs)
  /\ Repair.action = "archive"
  /\ merge' = Advance(Archived(merge.draft, Plan.source))
  /\ UNCHANGED <<tables, last, runs, history, start>>

\* The source's aliases are rejected before anything moves.
RetireAliases ==
  /\ merge.stage = "repairing" /\ merge.at <= Len(merge.repairs)
  /\ Repair.action = "merge" /\ merge.table = 0
  /\ merge' = [merge EXCEPT !.draft = WithoutAliases(@, Plan.source), !.table = 1]
  /\ UNCHANGED <<tables, last, runs, history, start>>

\* What the transaction sees in a table: its own updates, and what others
\* have committed when the statement starts.
Seen(k, s) == IF merge.moved[k][s] # Absent THEN merge.moved[k][s] ELSE history[s][Tables[k]]

\* (Mutant of MovedTo: only the sessions themselves.)
MovedSessions(k, s) ==
  IF k = 2 /\ Seen(k, s) = Plan.source THEN Plan.target ELSE merge.moved[k][s]

MovedTo(k, s) == IF Seen(k, s) = Plan.source THEN Plan.target ELSE merge.moved[k][s]

\* reassignProjectHistory: one UPDATE for each table.
MoveTable ==
  /\ merge.stage = "repairing" /\ merge.at <= Len(merge.repairs)
  /\ Repair.action = "merge" /\ merge.table \in DOMAIN Tables
  /\ merge' = [merge EXCEPT
       !.moved[merge.table] = [s \in Session |-> MovedTo(merge.table, s)],
       !.table = @ + 1]
  /\ UNCHANGED <<tables, last, runs, history, start>>

\* The objects move last, ...
ObjectsMoved(t, q, p) ==
  [t EXCEPT !.objects = [o \in DOMAIN @ |->
     IF @[o].project = q THEN [@[o] EXCEPT !.project = p] ELSE @[o]]]

\* ... the target gets its name, URI and identities, the source is archived.
Retargeted(t, repair, plan) ==
  LET p == plan.target  q == plan.source
      moved == ObjectsMoved(t, q, p)
      named == WithProjects(moved, [moved.projects EXCEPT ![p] =
        [@ EXCEPT !.name = repair.name, !.source = plan.uri, !.status = "confirmed"]]) IN
  Archived(WithIdentities(named, p, {repair.name} \cup repair.aliases), q)

\* The sessions without a project that the manifest lists are the target's.
Adopting(s) ==
  IF s \in Repair.sessions /\ Seen(2, s) = NoProject THEN Plan.target ELSE merge.moved[2][s]

Retarget ==
  /\ merge.stage = "repairing" /\ merge.at <= Len(merge.repairs)
  /\ Repair.action = "merge" /\ merge.table > Len(Tables)
  /\ merge' = [Advance(Retargeted(merge.draft, Repair, Plan)) EXCEPT
       !.moved[2] = [s \in Session |-> Adopting(s)]]
  /\ UNCHANGED <<tables, last, runs, history, start>>

Done == merge.stage = "repairing" /\ merge.at > Len(merge.repairs)

CommitMerge ==
  /\ Done /\ merge.draft.ok
  /\ tables' = merge.draft
  /\ history' = [s \in Session |-> [table \in Range(Tables) |->
       LET k == CHOOSE i \in DOMAIN Tables : Tables[i] = table IN
       IF merge.moved[k][s] # Absent THEN merge.moved[k][s] ELSE history[s][table]]]
  /\ last' = NoRegistry
  /\ merge' = Idle
  /\ UNCHANGED <<runs, start>>

\* A violated index, a lost connection, the end of the process.
AbortMerge ==
  /\ merge # Idle
  /\ merge' = Idle
  /\ UNCHANGED <<tables, last, runs, history, start>>

-----------------------------------------------------------------------------
(* The daemon: starts of sessions *)

\* Ghost: a start that was under way during a merge.
Overlap(s) ==
  merge' = IF merge = Idle THEN merge ELSE [merge EXCEPT !.overlapped = @ \cup {s}]

\* ensureProject, without the thread's own project (see CodexThreadSync): the
\* hint, the root's URI, the repository's.
EnsureProject(req) ==
  LET byHint == Resolve(tables.projects, req.hint)
      byRoot == Resolve(tables.projects, req.root)
      byRepository == Resolve(tables.projects, req.repository) IN
  IF byHint # NoProject THEN byHint
  ELSE IF req.root = Home THEN NoProject
  ELSE IF byRoot # NoProject THEN byRoot
  ELSE byRepository

\* The transaction looks the project up; a bootstrap without one ends here.
BeginStart(s, req) ==
  LET p == EnsureProject(req) IN
  /\ start[s].stage = "none"
  /\ start' = [start EXCEPT ![s] =
       IF p = NoProject /\ req.bootstrap THEN [stage |-> "done"]
       ELSE [stage |-> "begun", project |-> p,
             hint |-> IF p = NoProject THEN {} ELSE {tables.projects[p].name}]]
  /\ Overlap(s)
  /\ UNCHANGED <<tables, last, runs, history>>

\* The intention, the session and its first activity.
CommitStart(s) ==
  /\ start[s].stage = "begun"
  /\ history' = [history EXCEPT ![s] = [table \in Range(Tables) |->
       IF table \in {"intentions", "agent_sessions", "activities"}
         THEN start[s].project ELSE Absent]]
  /\ start' = [start EXCEPT ![s].stage = "committed"]
  /\ Overlap(s)
  /\ UNCHANGED <<tables, last, runs>>

\* The capsule is resolved for the project that has the session's project's name.
ResolveCapsule(s) ==
  /\ start[s].stage = "committed"
  /\ start' = [start EXCEPT ![s] =
       [stage |-> "resolved", project |-> @.project,
        capsule |-> IF @.hint = {} THEN NoProject
                    ELSE Resolve(tables.projects, TheOne(@.hint))]]
  /\ Overlap(s)
  /\ UNCHANGED <<tables, last, runs, history>>

\* saveCapsule: the row has the session's project ...
SaveCapsule(s) ==
  /\ start[s].stage = "resolved"
  /\ history' = [history EXCEPT ![s]["context_capsules"] = start[s].project]
  /\ start' = [start EXCEPT ![s].stage = "saved"]
  /\ Overlap(s)
  /\ UNCHANGED <<tables, last, runs>>

\* ... and the meter's sample that of the capsule.
SaveMeter(s) ==
  /\ start[s].stage = "saved"
  /\ history' = [history EXCEPT ![s]["context_meter_samples"] = start[s].capsule]
  /\ start' = [start EXCEPT ![s] = [stage |-> "done"]]
  /\ Overlap(s)
  /\ UNCHANGED <<tables, last, runs>>

\* A statement fails or the daemon dies: what is committed stays.
FailStart(s) ==
  /\ start[s].stage \in {"begun", "committed", "resolved", "saved"}
  /\ start' = [start EXCEPT ![s] = [stage |-> "done"]]
  /\ UNCHANGED <<tables, last, runs, history, merge>>

-----------------------------------------------------------------------------
(* Agents *)

\* recordActivity with one relation effect, whose type may be the registry's own,
\* under the ontology lock (see OntologyWriteback for the rest of it).
Record(s, c) ==
  /\ Run
  /\ history[s]["agent_sessions"] # Absent
  /\ c.op = "retract" => OpenVersions(tables, c) # {}
  /\ \A o \in {c.from, c.to} \cap DOMAIN tables.objects : tables.objects[o].state # "rejected"
  /\ tables' = ApplyEffect(tables, c, history[s]["agent_sessions"])
  /\ last' = NoRegistry
  /\ UNCHANGED <<history, start, merge>>

-----------------------------------------------------------------------------
(* The specification *)

Init ==
  /\ tables = [projects |-> InitialProjects, objects |-> InitialObjects,
               relations |-> {}, ok |-> TRUE]
  /\ last = NoRegistry
  /\ runs = 0
  /\ history = [s \in Session |-> [table \in Range(Tables) |-> Absent]]
  /\ start = [s \in Session |-> [stage |-> "none"]]
  /\ merge = Idle

Operator ==
  \/ \E input \in Inputs, present \in Disks : Reconcile(input, present)
  \/ \E manifest \in Manifests : BeginMerge(manifest)
  \/ ArchiveStep \/ RetireAliases \/ MoveTable \/ Retarget \/ CommitMerge \/ AbortMerge

Daemon ==
  \E s \in Session :
    \/ \E req \in Requests : BeginStart(s, req)
    \/ CommitStart(s) \/ ResolveCapsule(s) \/ SaveCapsule(s) \/ SaveMeter(s) \/ FailStart(s)

Agents == \E s \in Session, c \in Claims : Record(s, c)

Next == Operator \/ Daemon \/ Agents

Spec == Init /\ [][Next]_vars

-----------------------------------------------------------------------------
(* Properties *)

\* The type of each variable: rows refer to rows that there are, and a
\* transaction that a statement has failed in never commits.
TypeOK ==
  /\ tables.ok
  /\ tables.projects \in Seq(Row)
  /\ \A o \in DOMAIN tables.objects :
       tables.objects[o].project \in DOMAIN tables.projects \cup {NoProject}
  /\ \A rel \in tables.relations : {rel.from, rel.to} \subseteq DOMAIN tables.objects
  /\ history \in [Session -> [Range(Tables) -> DOMAIN tables.projects \cup {NoProject, Absent}]]
  /\ merge # Idle => merge.at \in 1 .. Len(merge.repairs) + 1
  /\ runs \in 0 .. MaxRuns

\* "Canonical aliases resolve to exactly one project", after any sequence of
\* registries, merges and archives; only an alias that is another project's
\* source URI names that one.
CanonicalAliasesResolve ==
  \A p \in DOMAIN tables.projects : \A n \in Name :
    tables.projects[p].status = "confirmed" /\ tables.projects[p].aliases[n] = "identity" =>
      \/ Resolve(tables.projects, n) = p
      \/ \E q \in DOMAIN tables.projects \ {p} : tables.projects[q].source = n

\* "Re-running the same manifest is idempotent": it plans, and changes nothing, if
\* it neither undoes nor renames itself what it is applied to (Repeatable).
RegistryIdempotent ==
  last.stage = "applied" /\ last.repeatable =>
    Plannable(tables, last.registry) /\ Reconciled(tables, last.registry) = tables

\* What a manifest has retired is not an end of a current relation, whoever has
\* asserted it, until a manifest registers it again.
CurrentRelationsLive ==
  \A rel \in tables.relations : rel.open =>
    tables.objects[rel.from].state # "rejected" /\ tables.objects[rel.to].state # "rejected"

\* "A merge reassigns project-scoped history to the canonical record": when it
\* commits, no row is left to the source, except of sessions that were being
\* started meanwhile, and unless the source is the target of a later repair of
\* the manifest; and no session's rows have been divided by it.
MergeTakesHistory ==
  [][CommitMerge =>
       \A i \in DOMAIN merge.repairs : merge.repairs[i].action = "merge" =>
         \/ \E j \in DOMAIN merge.repairs :
              j > i /\ merge.plans[j].target = merge.plans[i].source
         \/ \A s \in Session \ merge.overlapped : \A table \in Range(Tables) :
              history'[s][table] # merge.plans[i].source]_vars

\* The session "loads a project-scoped capsule": that of its own project.
CapsuleOfItsSession ==
  \A s \in Session : start[s].stage = "resolved" /\ start[s].project # NoProject =>
    start[s].capsule = start[s].project
==============================================================================
