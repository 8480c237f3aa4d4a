--------------------------- MODULE CodexThreadSync ---------------------------
(***************************************************************************)
(* To which project a Codex thread belongs.  Codex keeps an assignment of  *)
(* threads to its projects, an operator may approve a plan; hooks read     *)
(* both when a session starts and send what they have read in batches,     *)
(* which the daemon imports concurrently while projects are registered,    *)
(* adopted and archived.  A thread's row of codex_thread_project_state     *)
(* then decides which project its session gets.                            *)
(***************************************************************************)
EXTENDS Integers, FiniteSets

CONSTANTS
  Thread,         \* thread ids, as integers: batches are cut from their order
  CodexProject,   \* Codex's own ids of its projects
  NoCodex,        \* no such id (NULL)
  Project,        \* rows of projects
  NoProject,      \* NULL
  Hook,           \* SessionStart processes
  Nobody,         \* the sender of what is not a hook's
  Imports,        \* observations that other clients of the API send
  Conn,           \* connections of the daemon that import
  BatchSize,      \* syncBatchSize
  MaxEdits        \* bound on changes of assignments, plan and adoptions

Priority == [user_approved_plan |-> 100, codex_project_assignment |-> 90,
             exact_registered_root |-> 80, parent_inheritance |-> 70, candidate |-> 40]

\* What the request schema accepts.
Observation ==
  {o \in [thread: Thread, codex: CodexProject \cup {NoCodex},
          class: {"confirmed", "candidate", "projectless"}, authority: DOMAIN Priority] :
     /\ o.class = "confirmed" => o.codex # NoCodex
     /\ o.class = "projectless" => o.codex = NoCodex}

ASSUME SyncAssumption ==
  /\ Thread \subseteq Int /\ IsFiniteSet(Thread)
  /\ NoCodex \notin CodexProject /\ NoProject \notin Project /\ Nobody \notin Hook
  /\ CodexProject \cap {"projectless", "none"} = {}
  /\ Imports \subseteq Observation
  /\ BatchSize \in Nat \ {0} /\ MaxEdits \in Nat

VARIABLES
  assigned,       \* Codex's state file: thread-project-assignments
  plan,           \* what the approved plan says of a thread, if it holds
  edits,          \* how often the two, or a Codex id, have been changed (a bound)
  project,        \* projects: status and codexProjectId
  snapshots,      \* codex_thread_sync_snapshots
  observations,   \* codex_thread_project_observations
  threads,        \* codex_thread_project_state
  inbox,          \* requests sent and not yet taken up; a lost one never is
  conn,           \* the imports being done
  hook            \* the SessionStart processes

database == <<snapshots, observations, threads>>
vars == <<assigned, plan, edits, project, snapshots, observations, threads, inbox, conn, hook>>

-----------------------------------------------------------------------------
(* Codex, the operator, the registry *)

Edited == edits < MaxEdits /\ edits' = edits + 1

Assign(t, k) ==
  /\ Edited
  /\ assigned[t] # k
  /\ assigned' = [assigned EXCEPT ![t] = k]
  /\ UNCHANGED <<plan, project, database, inbox, conn, hook>>

\* A plan counts while its policy has the recorded hash; "none" is a thread
\* without an entry in a plan that counts.
PlanEntry == CodexProject \cup {"projectless", "none"}

Approve(t, entry) ==
  /\ Edited
  /\ plan[t] # entry
  /\ plan' = [plan EXCEPT ![t] = entry]
  /\ UNCHANGED <<assigned, project, database, inbox, conn, hook>>

\* A manifest registers a project, or adopts one that has been registered, also
\* an archived one: it is confirmed again and gets the manifest's Codex id, which
\* replaces the one it had.  No two projects have one id, whatever their status
\* (projects_codex_project_id_idx).
Register(p, k) ==
  LET registered == [status |-> "confirmed", codex |-> k] IN
  /\ \A q \in Project \ {p} : project[q].codex # k
  /\ \/ project[p].status = "unknown" /\ UNCHANGED edits
     \/ project[p].status # "unknown" /\ project[p] # registered /\ Edited
  /\ project' = [project EXCEPT ![p] = registered]
  /\ UNCHANGED <<assigned, plan, database, inbox, conn, hook>>

Archive(p) ==
  /\ project[p].status = "confirmed"
  /\ project' = [project EXCEPT ![p].status = "archived"]
  /\ UNCHANGED <<assigned, plan, edits, database, inbox, conn, hook>>

-----------------------------------------------------------------------------
(* The hook *)

\* collectCodexThreadSyncBatches: the plan goes before the assignment.
Observed(assignment, entries) ==
  {[thread |-> t, codex |-> entries[t], class |-> "confirmed",
    authority |-> "user_approved_plan"] : t \in {u \in Thread : entries[u] \in CodexProject}}
  \cup
  {[thread |-> t, codex |-> NoCodex, class |-> "projectless",
    authority |-> "user_approved_plan"] : t \in {u \in Thread : entries[u] = "projectless"}}
  \cup
  {[thread |-> t, codex |-> assignment[t], class |-> "confirmed",
    authority |-> "codex_project_assignment"] :
      t \in {u \in Thread : entries[u] = "none" /\ assignment[u] # NoCodex}}

\* Batches in the order of threads.  The snapshot's id digests everything the
\* hook has read and the batch's index.
IndexIn(o, read) == Cardinality({q \in read : q.thread < o.thread}) \div BatchSize

\* (Mutant of SnapshotId: the id does not depend on what was read.)
SnapshotIdOfIndex(read, i) == [read |-> {}, index |-> i]
SnapshotId(read, i) == [read |-> read, index |-> i]

Batches(read) ==
  {[id |-> SnapshotId(read, i), rows |-> {o \in read : IndexIn(o, read) = i}] :
     i \in {IndexIn(o, read) : o \in read}}

NotStarted == [stage |-> "idle", thread |-> 0, assigned |-> [t \in Thread |-> NoCodex],
               open |-> {}, imported |-> {}, project |-> NoProject]

\* The state file is read first ...
StartHook(h) ==
  /\ hook[h].stage = "idle"
  /\ hook' = [hook EXCEPT ![h].stage = "reading", ![h].assigned = assigned]
  /\ UNCHANGED <<assigned, plan, edits, project, database, inbox, conn>>

\* ... then the plan; all batches are sent at once.
SendBatches(h) ==
  LET batches == Batches(Observed(hook[h].assigned, plan)) IN
  /\ hook[h].stage = "reading"
  /\ hook' = [hook EXCEPT ![h] = [NotStarted EXCEPT !.stage = "syncing", !.open = batches]]
  /\ inbox' = inbox \cup {[from |-> h, batch |-> b] : b \in batches}
  /\ UNCHANGED <<assigned, plan, edits, project, database, conn>>

\* A state file that cannot be read, or a policy file: nothing is sent.
CollectFails(h) ==
  /\ hook[h].stage = "reading"
  /\ hook' = [hook EXCEPT ![h] = [NotStarted EXCEPT !.stage = "syncing"]]
  /\ UNCHANGED <<assigned, plan, edits, project, database, inbox, conn>>

\* A request times out, before or after the daemon has taken it up.
GiveUp(h, b) ==
  /\ b \in hook[h].open
  /\ hook' = [hook EXCEPT ![h].open = @ \ {b}]
  /\ UNCHANGED <<assigned, plan, edits, project, database, inbox, conn>>

-----------------------------------------------------------------------------
(* sync: one transaction per batch *)

NoImport == [stage |-> "idle"]

\* A 200 reaches a hook that still waits for it.
AnswerTo(r, imported) ==
  IF r.from \in Hook /\ r.batch \in hook[r.from].open
    THEN hook' = [hook EXCEPT ![r.from].open = @ \ {r.batch},
                              ![r.from].imported = @ \cup (IF imported THEN {r.batch} ELSE {})]
    ELSE UNCHANGED hook

\* An import of the same snapshot that has not ended makes the INSERT wait.
InProgress(id) ==
  \E w \in Conn : conn[w].stage # "idle" /\ conn[w].request.batch.id = id

\* (Mutant of Duplicate: an import in progress counts as one.)
DuplicateOfAny(r) ==
  /\ r \in inbox
  /\ r.batch.id \in snapshots \/ InProgress(r.batch.id)
  /\ inbox' = inbox \ {r}
  /\ AnswerTo(r, TRUE)
  /\ UNCHANGED <<assigned, plan, edits, project, database, conn>>

\* ON CONFLICT DO NOTHING, ROLLBACK, and an answer that says "duplicate".
Duplicate(r) ==
  /\ r \in inbox
  /\ r.batch.id \in snapshots
  /\ inbox' = inbox \ {r}
  /\ AnswerTo(r, TRUE)
  /\ UNCHANGED <<assigned, plan, edits, project, database, conn>>

InsertSnapshot(w, r) ==
  /\ r \in inbox
  /\ conn[w].stage = "idle"
  /\ r.batch.id \notin snapshots /\ ~InProgress(r.batch.id)
  /\ inbox' = inbox \ {r}
  /\ conn' = [conn EXCEPT ![w] = [stage |-> "inserted", request |-> r]]
  /\ UNCHANGED <<assigned, plan, edits, project, database, hook>>

\* uniqueProjectIdentities: the confirmed project with this Codex id, if it is
\* the only one.
Owner(k) ==
  LET owners == {p \in Project : project[p].status = "confirmed" /\ project[p].codex = k} IN
  IF Cardinality(owners) = 1 THEN CHOOSE p \in owners : TRUE ELSE NoProject

\* (Mutant of Stored: an unresolved observation stays confirmed.)
StoredAsSent(o) ==
  [thread |-> o.thread, codex |-> o.codex, class |-> o.class, authority |-> o.authority,
   project |-> Owner(o.codex)]

Stored(o) ==
  [thread |-> o.thread, codex |-> o.codex, authority |-> o.authority,
   project |-> Owner(o.codex),
   class |-> IF o.class = "confirmed" /\ Owner(o.codex) = NoProject
               THEN "candidate" ELSE o.class]

ResolveProjects(w) ==
  /\ conn[w].stage = "inserted"
  /\ conn' = [conn EXCEPT ![w] =
       [stage |-> "resolved", request |-> @.request,
        rows |-> {Stored(o) : o \in @.request.batch.rows}]]
  /\ UNCHANGED <<assigned, plan, edits, project, database, inbox, hook>>

NoRow == [class |-> "none"]
RowOf(o) == [codex |-> o.codex, class |-> o.class, authority |-> o.authority,
             project |-> o.project]
Conflicted(authority) ==
  [codex |-> NoCodex, class |-> "conflicted", authority |-> authority, project |-> NoProject]

Disagree(row, o) ==
  row.codex # o.codex \/ (row.class = "projectless") # (o.class = "projectless")

\* (Mutant of Upserted: of equal authority, the last one wins.)
UpsertedByLast(row, o) ==
  IF row = NoRow \/ Priority[o.authority] >= Priority[row.authority] THEN RowOf(o) ELSE row

\* ON CONFLICT (client, external_thread_id) DO UPDATE.
Upserted(row, o) ==
  IF row = NoRow THEN RowOf(o)
  ELSE IF Priority[o.authority] > Priority[row.authority] THEN RowOf(o)
  ELSE IF Priority[o.authority] < Priority[row.authority] THEN row
  ELSE IF Disagree(row, o) THEN Conflicted(o.authority)
  ELSE RowOf(o)

\* The two INSERTs and the COMMIT: the upsert sees the row as it is when its
\* lock is granted, and nothing is read after it.
CommitImport(w) ==
  LET r == conn[w].request  rows == conn[w].rows IN
  /\ conn[w].stage = "resolved"
  /\ snapshots' = snapshots \cup {r.batch.id}
  /\ observations' = observations \cup {[snapshot |-> r.batch.id, row |-> o] : o \in rows}
  /\ threads' = [t \in Thread |->
       IF \E o \in rows : o.thread = t
         THEN Upserted(threads[t], CHOOSE o \in rows : o.thread = t)
         ELSE threads[t]]
  /\ conn' = [conn EXCEPT ![w] = NoImport]
  /\ AnswerTo(r, TRUE)
  /\ UNCHANGED <<assigned, plan, edits, project, inbox>>

\* A statement fails, the connection is lost, or the daemon dies.
AbortImport(w) ==
  /\ conn[w].stage # "idle"
  /\ conn' = [conn EXCEPT ![w] = NoImport]
  /\ AnswerTo(conn[w].request, FALSE)
  /\ UNCHANGED <<assigned, plan, edits, project, database, inbox>>

-----------------------------------------------------------------------------
(* Other clients *)

\* Another client of the API.  It sends its snapshot until it is imported;
\* later repetitions would be duplicates that nobody waits for.
Import(o) ==
  LET id == SnapshotId({o}, 0) IN
  /\ id \notin snapshots /\ ~InProgress(id)
  /\ inbox' = inbox \cup {[from |-> Nobody, batch |-> [id |-> id, rows |-> {o}]]}
  /\ UNCHANGED <<assigned, plan, edits, project, database, conn, hook>>

-----------------------------------------------------------------------------
(* Bootstrap *)

\* (Mutant of MappedProject: the project need not be confirmed any more.)
MappedProjectOnce(t) ==
  IF threads[t].class = "confirmed" THEN threads[t].project ELSE NoProject

\* ensureProject: the thread's confirmed row, joined with confirmed projects.
MappedProject(t) ==
  IF threads[t].class = "confirmed" /\ project[threads[t].project].status = "confirmed"
    THEN threads[t].project ELSE NoProject

\* When every batch is answered or given up: the project of the session's
\* thread, or else whatever the working directory resolves to, which has
\* nothing to do with threads and is left out.
Bootstrap(h, t) ==
  LET mapped == MappedProject(t) IN
  /\ hook[h].stage = "syncing" /\ hook[h].open = {}
  /\ hook' = [hook EXCEPT ![h] =
       IF mapped # NoProject
         THEN [NotStarted EXCEPT !.stage = "mapped", !.thread = t, !.project = mapped]
         ELSE [NotStarted EXCEPT !.stage = "unmapped"]]
  /\ UNCHANGED <<assigned, plan, edits, project, database, inbox, conn>>

-----------------------------------------------------------------------------
(* The specification *)

Init ==
  /\ assigned \in [Thread -> CodexProject \cup {NoCodex}]
  /\ plan = [t \in Thread |-> "none"]
  /\ edits = 0
  /\ project = [p \in Project |-> [status |-> "unknown", codex |-> NoCodex]]
  /\ snapshots = {} /\ observations = {}
  /\ threads = [t \in Thread |-> NoRow]
  /\ inbox = {}
  /\ conn = [w \in Conn |-> NoImport]
  /\ hook = [h \in Hook |-> NotStarted]

World ==
  \/ \E t \in Thread : \/ \E k \in CodexProject \cup {NoCodex} : Assign(t, k)
                       \/ \E entry \in PlanEntry : Approve(t, entry)
  \/ \E p \in Project : Archive(p) \/ \E k \in CodexProject : Register(p, k)

Client ==
  \/ \E h \in Hook :
       \/ StartHook(h) \/ SendBatches(h) \/ CollectFails(h)
       \/ \E t \in Thread : Bootstrap(h, t)
       \/ \E b \in hook[h].open : GiveUp(h, b)
  \/ \E o \in Imports : Import(o)

Daemon ==
  \/ \E r \in inbox : Duplicate(r) \/ \E w \in Conn : InsertSnapshot(w, r)
  \/ \E w \in Conn : ResolveProjects(w) \/ CommitImport(w) \/ AbortImport(w)

Next == World \/ Client \/ Daemon

Spec == Init /\ [][Next]_vars
-----------------------------------------------------------------------------
(* Properties *)

CodexId == CodexProject \cup {NoCodex}
Batch == [id: [read: SUBSET Observation, index: Nat], rows: SUBSET Observation]
Request == [from: Hook \cup {Nobody}, batch: Batch]
Row == [thread: Thread, codex: CodexId, class: {"confirmed", "candidate", "projectless"},
        authority: DOMAIN Priority, project: Project \cup {NoProject}]
ThreadRow == [codex: CodexId, authority: DOMAIN Priority, project: Project \cup {NoProject},
              class: {"confirmed", "candidate", "projectless", "conflicted"}]
ConnState == {NoImport} \cup [stage: {"inserted"}, request: Request]
                        \cup [stage: {"resolved"}, request: Request, rows: SUBSET Row]
HookState == [stage: {"idle", "reading", "syncing", "mapped", "unmapped"},
              thread: Thread \cup {0}, assigned: [Thread -> CodexId],
              open: SUBSET Batch, imported: SUBSET Batch, project: Project \cup {NoProject}]

\* The type of each variable; a thread's row has a project if it is confirmed,
\* and a candidate may have one.
TypeOK ==
  /\ assigned \in [Thread -> CodexId] /\ plan \in [Thread -> PlanEntry]
  /\ edits \in 0 .. MaxEdits
  /\ project \in [Project -> [status: {"unknown", "confirmed", "archived"}, codex: CodexId]]
  /\ snapshots = {o.snapshot : o \in observations}
  /\ \A o \in observations : o.row \in Row
  /\ threads \in [Thread -> {NoRow} \cup ThreadRow]
  /\ \A t \in Thread : threads[t] # NoRow =>
       (threads[t].class = "confirmed"
          <=> threads[t].project # NoProject /\ threads[t].class # "candidate")
  /\ inbox \subseteq Request
  /\ conn \in [Conn -> ConnState]
  /\ hook \in [Hook -> HookState]

\* What is known of a thread by the highest authority that has observed it.
Top(t) ==
  LET known == {o.row : o \in {q \in observations : q.row.thread = t}} IN
  {o \in known : \A q \in known : Priority[q.authority] <= Priority[o.authority]}

Undisputed(rows) ==
  \A a, b \in rows :
    a.codex = b.codex /\ (a.class = "projectless") = (b.class = "projectless")

\* Whatever hooks read when, and in whatever order their batches are imported,
\* a thread's row is what its highest authority says if it says one thing, and
\* conflicted otherwise.  (Hooks send no candidates without a project; for
\* those see DisagreementConflicts.)
NamesNothing(o) == o.class = "candidate" /\ o.codex = NoCodex

StateIsDerived ==
  \A t \in Thread : (\E o \in Top(t) : NamesNothing(o)) \/
    IF Top(t) = {} THEN threads[t] = NoRow
    ELSE IF Undisputed(Top(t)) THEN \E o \in Top(t) : threads[t] = RowOf(o)
    ELSE \E o \in Top(t) : threads[t] = Conflicted(o.authority)

\* "Equal-authority disagreement ... fails closed", also with observations
\* that only other clients send: no later one settles it in favour of one side.
DisputedNeverConfirmed ==
  \A t \in Thread : ~Undisputed(Top(t)) =>
    /\ threads[t].class \notin {"confirmed", "projectless"}
    /\ threads[t].project = NoProject /\ threads[t].codex = NoCodex

\* "Equal-authority disagreement becomes conflicted".
DisagreementConflicts ==
  \A t \in Thread : ~Undisputed(Top(t)) => threads[t].class = "conflicted"

\* A batch that was answered is stored, also when the answer said "duplicate":
\* a failure of the first of two imports cannot take the second's evidence along.
AcknowledgedIsStored ==
  \A h \in Hook : \A b \in hook[h].imported : \A o \in b.rows :
    \E q \in observations : /\ q.snapshot = b.id
                            /\ q.row.thread = o.thread /\ q.row.codex = o.codex
                            /\ q.row.authority = o.authority

MappedNow(h) == hook[h].stage = "syncing" /\ hook'[h].stage = "mapped"

\* A session gets a project by its thread only if no authority equal to the one
\* that says so disagrees, if what it says named this project when it was
\* imported, and if the project is still confirmed.  (An adoption since then may
\* have given the project another Codex id: the thread keeps its project.)
BootstrapUndisputed ==
  [][\A h \in Hook : MappedNow(h) =>
       LET p == hook'[h].project  top == Top(hook'[h].thread) IN
       /\ Undisputed(top)
       /\ project[p].status = "confirmed"
       /\ \E o \in top : o.class = "confirmed" /\ o.project = p]_vars

\* If the hook's own reading of the thread was imported, its session is not
\* put into another project on the word of older evidence, unless that is of
\* higher authority: what named the project is the Codex id that the hook read.
BootstrapHonoursReading ==
  [][\A h \in Hook : MappedNow(h) =>
       \A b \in hook[h].imported : \A o \in b.rows : o.thread = hook'[h].thread =>
         \E q \in Top(o.thread) :
           /\ q.project = hook'[h].project
           /\ q.codex = o.codex \/ Priority[q.authority] > Priority[o.authority]]_vars
==============================================================================
