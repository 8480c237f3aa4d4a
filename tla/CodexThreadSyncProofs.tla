------------------------ MODULE CodexThreadSyncProofs ------------------------
(***************************************************************************)
(* Proofs about CodexThreadSync, for any threads, hooks, connections,      *)
(* projects, batch size and observations of other clients.  The inductive  *)
(* invariant says what a row of codex_thread_project_state is to the       *)
(* evidence stored for its thread, and that a snapshot's id stands for the *)
(* rows it was sent with, wherever a batch of that id is.                  *)
(***************************************************************************)
EXTENDS CodexThreadSync, FiniteSetTheorems, TLAPS

\* What a batch of a snapshot holds is known from the snapshot's id; of a thread
\* it says one thing.
RowsOf(id) == {o \in id.read : IndexIn(o, id.read) = id.index}
OnePerThread(rows) == \A a, b \in rows : a.thread = b.thread => a = b
WellCut(b) == b.rows = RowsOf(b.id) /\ b.rows # {} /\ OnePerThread(b.rows)

BatchesWellCut ==
  /\ \A r \in inbox : WellCut(r.batch)
  /\ \A w \in Conn : conn[w].stage # "idle" => WellCut(conn[w].request.batch)
  /\ \A h \in Hook : \A b \in hook[h].open \cup hook[h].imported : WellCut(b)

\* A stored row says of the thread what an observation says.
SameEvidence(row, o) ==
  row.thread = o.thread /\ row.codex = o.codex /\ row.authority = o.authority

\* A snapshot is stored whole, and what is answered is a stored snapshot.
SnapshotsWhole ==
  /\ \A id \in snapshots : \A o \in RowsOf(id) :
       \E q \in observations : q.snapshot = id /\ SameEvidence(q.row, o)
  /\ \A h \in Hook : \A b \in hook[h].imported : b.id \in snapshots

\* The classes of a row follow from what it names.
Consistent(row) ==
  /\ row.class = "confirmed" => row.codex # NoCodex /\ row.project # NoProject
  /\ row.class = "projectless" => row.codex = NoCodex
  /\ row.project # NoProject => row.codex # NoCodex

RowsSound ==
  /\ \A p \in Project : project[p].status # "unknown" => project[p].codex # NoCodex
  /\ \A o \in observations : Consistent(o.row)
  /\ \A w \in Conn : conn[w].stage = "resolved" =>
       /\ \A row \in conn[w].rows : Consistent(row)
       /\ OnePerThread(conn[w].rows) /\ conn[w].rows # {}
       /\ \A o \in conn[w].request.batch.rows :
            \E row \in conn[w].rows : SameEvidence(row, o)

Known(t) == {o.row : o \in {q \in observations : q.row.thread = t}}
TopOf(known) ==
  {o \in known : \A q \in known : Priority[q.authority] <= Priority[o.authority]}

\* What a thread's row is to what is known of the thread: the word of the highest
\* authority if it says one thing, and otherwise conflicted, unless a candidate
\* that names nothing came last.
Derived(row, known) ==
  IF known = {} THEN row = NoRow
  ELSE IF Undisputed(TopOf(known)) THEN \E o \in TopOf(known) : row = RowOf(o)
  ELSE \E o \in TopOf(known) :
         row = Conflicted(o.authority) \/ (NamesNothing(o) /\ row = RowOf(o))

ThreadsDerived == \A t \in Thread : Derived(threads[t], Known(t))

SyncInv ==
  /\ TypeOK
  /\ BatchesWellCut
  /\ SnapshotsWhole
  /\ RowsSound
  /\ ThreadsDerived

-----------------------------------------------------------------------------
(* A thread's row, for itself *)

LEMMA PriorityFacts ==
  /\ \A a \in DOMAIN Priority : Priority[a] \in Nat
  /\ \A a, b \in DOMAIN Priority : Priority[a] = Priority[b] => a = b
BY DEF Priority

\* The authorities at the top of what is known all have one priority, and one
\* name.
LEMMA TopAgrees ==
  ASSUME NEW known \in SUBSET Row, NEW a \in TopOf(known), NEW b \in TopOf(known)
  PROVE  a.authority = b.authority
<1>1. a \in Row /\ b \in Row
  BY DEF TopOf
<1>2. a.authority \in DOMAIN Priority /\ b.authority \in DOMAIN Priority
  BY <1>1 DEF Row
<1>3. Priority[a.authority] = Priority[b.authority]
  BY <1>2, PriorityFacts DEF TopOf
<1> QED
  BY <1>2, <1>3, PriorityFacts

\* One more observation moves the top to itself, leaves it, or joins it.
LEMMA TopWithOneMore ==
  ASSUME NEW known \in SUBSET Row, NEW m \in TopOf(known), NEW o \in Row
  PROVE  /\ Priority[o.authority] > Priority[m.authority] => TopOf(known \cup {o}) = {o}
         /\ Priority[o.authority] < Priority[m.authority] =>
              TopOf(known \cup {o}) = TopOf(known)
         /\ o.authority = m.authority =>
              TopOf(known \cup {o}) = TopOf(known) \cup {o}
<1>1. \A k \in known \cup {o} :
        k.authority \in DOMAIN Priority /\ Priority[k.authority] \in Nat
  BY PriorityFacts DEF Row
<1>2. m \in known /\ \A k \in known : Priority[k.authority] <= Priority[m.authority]
  BY DEF TopOf
<1>3. ASSUME Priority[o.authority] > Priority[m.authority]
      PROVE  TopOf(known \cup {o}) = {o}
  <2>1. \A k \in known : Priority[k.authority] < Priority[o.authority]
    BY <1>1, <1>2, <1>3
  <2> QED
    BY <1>1, <2>1 DEF TopOf
<1>4. ASSUME Priority[o.authority] < Priority[m.authority]
      PROVE  TopOf(known \cup {o}) = TopOf(known)
  BY <1>1, <1>2, <1>4 DEF TopOf
<1>5. ASSUME o.authority = m.authority
      PROVE  TopOf(known \cup {o}) = TopOf(known) \cup {o}
  BY <1>1, <1>2, <1>5 DEF TopOf
<1> QED
  BY <1>3, <1>4, <1>5

\* What the row holds is of the highest authority that is known.
LEMMA DerivedFromTop ==
  ASSUME NEW known \in SUBSET Row, known # {}, NEW row, Derived(row, known)
  PROVE  \E m \in TopOf(known) :
           row.authority = m.authority /\ (row = RowOf(m) \/ row = Conflicted(m.authority))
<1>1. PICK m \in TopOf(known) : row = RowOf(m) \/ row = Conflicted(m.authority)
  BY DEF Derived
<1> QED
  BY <1>1 DEF RowOf, Conflicted

LEMMA RowIsNotNone ==
  ASSUME NEW o \in Row
  PROVE  /\ RowOf(o) # NoRow /\ Conflicted(o.authority) # NoRow
         /\ RowOf(o) \in ThreadRow /\ Conflicted(o.authority) \in ThreadRow
<1>1. RowOf(o).class # "none" /\ Conflicted(o.authority).class # "none"
  BY DEF RowOf, Conflicted, Row
<1>2. NoRow.class = "none"
  BY DEF NoRow
<1>3. RowOf(o) \in ThreadRow
  BY DEF RowOf, Row, ThreadRow
<1>4. Conflicted(o.authority) \in ThreadRow
  BY DEF Conflicted, Row, ThreadRow, CodexId
<1> QED
  BY <1>1, <1>2, <1>3, <1>4

\* The upsert keeps the row what it should be: its whole case distinction is in
\* this lemma.
LEMMA UpsertedDerives ==
  ASSUME NEW known \in SUBSET Row, \A k \in known : Consistent(k),
         NEW row, Derived(row, known),
         NEW o \in Row, Consistent(o)
  PROVE  Derived(Upserted(row, o), known \cup {o})
<1>1. CASE known = {}
  <2>1. Upserted(row, o) = RowOf(o)
    BY <1>1 DEF Derived, Upserted
  <2>2. TopOf(known \cup {o}) = {o}
    BY <1>1, PriorityFacts DEF TopOf, Row
  <2> QED
    BY <2>1, <2>2 DEF Derived, Undisputed
<1>2. CASE known # {}
  <2>1. PICK m \in TopOf(known) :
          row.authority = m.authority /\ (row = RowOf(m) \/ row = Conflicted(m.authority))
    BY <1>2, DerivedFromTop
  <2>2. m \in Row /\ row # NoRow
    BY <2>1, RowIsNotNone DEF TopOf
  <2>3. /\ o.authority \in DOMAIN Priority /\ m.authority \in DOMAIN Priority
        /\ Priority[o.authority] \in Nat /\ Priority[m.authority] \in Nat
    BY <2>2, PriorityFacts DEF Row
  <2>4. CASE Priority[o.authority] > Priority[m.authority]
    <3>1. Upserted(row, o) = RowOf(o)
      BY <2>1, <2>2, <2>4 DEF Upserted
    <3>2. TopOf(known \cup {o}) = {o}
      BY <2>4, TopWithOneMore
    <3> QED
      BY <3>1, <3>2 DEF Derived, Undisputed
  <2>5. CASE Priority[o.authority] < Priority[m.authority]
    <3>1. Upserted(row, o) = row
      BY <2>1, <2>2, <2>3, <2>5 DEF Upserted
    <3>2. TopOf(known \cup {o}) = TopOf(known)
      BY <2>5, TopWithOneMore
    <3> QED
      BY <1>2, <3>1, <3>2 DEF Derived
  <2>6. CASE o.authority = m.authority
    <3>1. TopOf(known \cup {o}) = TopOf(known) \cup {o}
      BY <2>6, TopWithOneMore
    <3>2. Upserted(row, o) = IF Disagree(row, o) THEN Conflicted(o.authority) ELSE RowOf(o)
      BY <2>1, <2>2, <2>3, <2>6 DEF Upserted
    <3>3. CASE Undisputed(TopOf(known))
      <4>1. PICK n \in TopOf(known) : row = RowOf(n)
        BY <1>2, <3>3 DEF Derived
      <4>2. Disagree(row, o) <=> ~Undisputed(TopOf(known) \cup {o})
        BY <3>3, <4>1 DEF Disagree, Undisputed, RowOf
      <4> QED
        BY <3>1, <3>2, <4>2 DEF Derived
    <3>4. CASE ~Undisputed(TopOf(known))
      <4>1. ~Undisputed(TopOf(known) \cup {o})
        BY <3>4 DEF Undisputed
      <4>2. PICK n \in TopOf(known) :
              row = Conflicted(n.authority) \/ (NamesNothing(n) /\ row = RowOf(n))
        BY <1>2, <3>4 DEF Derived
      <4>3. row.codex = NoCodex /\ row.class # "projectless"
        BY <4>2 DEF Conflicted, NamesNothing, RowOf
      <4>4. ~Disagree(row, o) => NamesNothing(o)
        BY <4>3 DEF Disagree, NamesNothing, Row, Consistent
      <4> QED
        BY <3>1, <3>2, <4>1, <4>4 DEF Derived
    <3> QED
      BY <3>3, <3>4
  <2> QED
    BY <2>3, <2>4, <2>5, <2>6, PriorityFacts
<1> QED
  BY <1>1, <1>2

-----------------------------------------------------------------------------
(* What is read, and how it is cut into batches *)

\* A Codex id resolves to a confirmed project that has it, or to none.
LEMMA OwnerHasIt ==
  ASSUME NEW k, Owner(k) # NoProject
  PROVE  /\ Owner(k) \in Project
         /\ project[Owner(k)].status = "confirmed" /\ project[Owner(k)].codex = k
<1> DEFINE owners == {p \in Project : project[p].status = "confirmed" /\ project[p].codex = k}
<1>1. Cardinality(owners) = 1 /\ Owner(k) = CHOOSE p \in owners : TRUE
  BY DEF Owner
<1>2. owners # {}
  BY <1>1, FS_EmptySet
<1> QED
  BY <1>1, <1>2

\* What the hook reads are observations, of each thread one, and finitely many.
LEMMA ObservedIsReading ==
  ASSUME SyncAssumption,
         NEW assignment \in [Thread -> CodexId], NEW entries \in [Thread -> PlanEntry]
  PROVE  LET read == Observed(assignment, entries) IN
         read \subseteq Observation /\ OnePerThread(read) /\ IsFiniteSet(read)
<1> DEFINE read == Observed(assignment, entries)
<1>1. NoCodex \notin CodexProject /\ "none" \notin CodexProject
        /\ "projectless" \notin CodexProject
  BY DEF SyncAssumption
<1>2. {"user_approved_plan", "codex_project_assignment"} \subseteq DOMAIN Priority
  BY DEF Priority
<1>3. \A o \in read :
        /\ o.thread \in Thread
        /\ \/ /\ entries[o.thread] \in CodexProject
              /\ o = [thread |-> o.thread, codex |-> entries[o.thread],
                      class |-> "confirmed", authority |-> "user_approved_plan"]
           \/ /\ entries[o.thread] = "projectless"
              /\ o = [thread |-> o.thread, codex |-> NoCodex,
                      class |-> "projectless", authority |-> "user_approved_plan"]
           \/ /\ entries[o.thread] = "none" /\ assignment[o.thread] # NoCodex
              /\ o = [thread |-> o.thread, codex |-> assignment[o.thread],
                      class |-> "confirmed", authority |-> "codex_project_assignment"]
  BY DEF Observed
<1>4. read \subseteq Observation
  <2> SUFFICES ASSUME NEW o \in read PROVE o \in Observation
    OBVIOUS
  <2>1. assignment[o.thread] \in CodexId
    BY <1>3
  <2> QED
    BY <1>1, <1>2, <1>3, <2>1 DEF Observation, CodexId
<1>5. OnePerThread(read)
  BY <1>1, <1>3 DEF OnePerThread
<1>6. IsFiniteSet(read)
  <2> DEFINE f == [o \in read |-> o.thread]
  <2>1. f \in Injection(read, Thread)
    BY <1>3, <1>5 DEF Injection, IsInjective, OnePerThread
  <2> QED
    BY <2>1, FS_Injection DEF SyncAssumption
<1> QED
  BY <1>4, <1>5, <1>6

LEMMA IndexIsNat ==
  ASSUME SyncAssumption, NEW read, IsFiniteSet(read), NEW o
  PROVE  IndexIn(o, read) \in Nat
<1> DEFINE before == {q \in read : q.thread < o.thread}
<1>1. Cardinality(before) \in Nat
  <2>1. IsFiniteSet(before)
    BY FS_Subset
  <2> QED
    BY <2>1, FS_CardinalityType
<1>2. BatchSize \in Nat /\ BatchSize > 0
  BY DEF SyncAssumption
<1> QED
  BY <1>1, <1>2 DEF IndexIn

LEMMA BatchesAreWellCut ==
  ASSUME SyncAssumption, NEW read, read \subseteq Observation, IsFiniteSet(read),
         OnePerThread(read), NEW b \in Batches(read)
  PROVE  b \in Batch /\ WellCut(b)
<1>1. PICK o \in read :
        b = [id |-> SnapshotId(read, IndexIn(o, read)),
             rows |-> {q \in read : IndexIn(q, read) = IndexIn(o, read)}]
  BY DEF Batches
<1>2. b.id = [read |-> read, index |-> IndexIn(o, read)] /\ b.rows = RowsOf(b.id)
  BY <1>1 DEF SnapshotId, RowsOf
<1>3. IndexIn(o, read) \in Nat
  BY IndexIsNat
<1>4. b \in Batch
  BY <1>1, <1>3 DEF Batch, SnapshotId
<1>5. b.rows # {} /\ OnePerThread(b.rows)
  BY <1>1 DEF OnePerThread
<1> QED
  BY <1>2, <1>4, <1>5 DEF WellCut

\* The snapshot of another client has one row.
LEMMA ImportIsWellCut ==
  ASSUME SyncAssumption, NEW o \in Imports
  PROVE  LET b == [id |-> SnapshotId({o}, 0), rows |-> {o}] IN b \in Batch /\ WellCut(b)
<1>1. o \in Observation /\ o.thread \in Int
  BY DEF SyncAssumption, Observation
<1>2. IndexIn(o, {o}) = 0
  <2>1. {q \in {o} : q.thread < o.thread} = {}
    BY <1>1
  <2>2. 0 \div BatchSize = 0
    BY DEF SyncAssumption
  <2> QED
    BY <2>1, <2>2, FS_EmptySet DEF IndexIn
<1> QED
  BY <1>1, <1>2 DEF Batch, SnapshotId, WellCut, RowsOf, OnePerThread

-----------------------------------------------------------------------------
(* The steps of a batch *)

LEMMA StoredIsSound ==
  ASSUME SyncAssumption, TypeOK, RowsSound, NEW o \in Observation
  PROVE  /\ Stored(o) \in Row
         /\ Consistent(Stored(o))
         /\ SameEvidence(Stored(o), o)
<1> DEFINE row == Stored(o)
<1>1. /\ row.thread = o.thread /\ row.codex = o.codex /\ row.authority = o.authority
      /\ row.project = Owner(o.codex)
      /\ row.class = IF o.class = "confirmed" /\ Owner(o.codex) = NoProject
                       THEN "candidate" ELSE o.class
  BY DEF Stored
<1>2. Owner(o.codex) # NoProject =>
        /\ Owner(o.codex) \in Project
        /\ project[Owner(o.codex)].status = "confirmed"
        /\ project[Owner(o.codex)].codex = o.codex /\ o.codex # NoCodex
  BY OwnerHasIt DEF RowsSound
<1>3. /\ o.thread \in Thread /\ o.codex \in CodexId /\ o.authority \in DOMAIN Priority
      /\ o.class \in {"confirmed", "candidate", "projectless"}
      /\ o.class = "confirmed" => o.codex # NoCodex
      /\ o.class = "projectless" => o.codex = NoCodex
  BY DEF Observation, CodexId
<1>4. row \in Row
  BY <1>2, <1>3 DEF Stored, Row
<1>5. Consistent(row)
  BY <1>1, <1>2, <1>3 DEF Consistent
<1> QED
  BY <1>1, <1>4, <1>5 DEF SameEvidence

\* What an answer does to the hooks: an open batch is closed, and imported if the
\* answer says so; nothing else.
HooksAnswered(r, imported) ==
  /\ hook' \in [Hook -> HookState]
  /\ \A h \in Hook :
       /\ hook'[h].stage = hook[h].stage
       /\ hook'[h].open \subseteq hook[h].open
       /\ hook'[h].imported \subseteq
            hook[h].imported \cup (IF imported THEN hook[h].open \cap {r.batch} ELSE {})

LEMMA AnswerStep ==
  ASSUME TypeOK, NEW r, NEW imported \in BOOLEAN, AnswerTo(r, imported)
  PROVE  HooksAnswered(r, imported)
<1>1. hook \in [Hook -> HookState]
  BY DEF TypeOK
<1>2. CASE r.from \in Hook /\ r.batch \in hook[r.from].open
  <2> DEFINE f == r.from
             answered == [hook[f] EXCEPT
                            !.open = @ \ {r.batch},
                            !.imported = @ \cup (IF imported THEN {r.batch} ELSE {})]
  <2>1. hook' = [hook EXCEPT ![f] = answered]
    BY <1>1, <1>2 DEF AnswerTo, HookState
  <2>2. r.batch \in Batch /\ hook[f] \in HookState
    BY <1>1, <1>2 DEF HookState
  <2>3. /\ answered \in HookState /\ answered.stage = hook[f].stage
        /\ answered.open \subseteq hook[f].open
        /\ answered.imported \subseteq
             hook[f].imported \cup (IF imported THEN {r.batch} ELSE {})
    BY <2>2 DEF HookState
  <2> HIDE DEF answered
  <2>4. hook' \in [Hook -> HookState]
    BY <1>1, <1>2, <2>1, <2>3
  <2>5. \A h \in Hook : hook'[h] = IF h = f THEN answered ELSE hook[h]
    BY <1>1, <2>1
  <2> QED
    BY <1>2, <2>3, <2>4, <2>5 DEF HooksAnswered
<1>3. CASE ~(r.from \in Hook /\ r.batch \in hook[r.from].open)
  BY <1>1, <1>3 DEF AnswerTo, HooksAnswered
<1> QED
  BY <1>2, <1>3

LEMMA InitSync == SyncAssumption /\ Init => SyncInv
<1> SUFFICES ASSUME SyncAssumption, Init PROVE SyncInv
  OBVIOUS
<1>1. NotStarted \in HookState /\ NotStarted.open = {} /\ NotStarted.imported = {}
  BY DEF NotStarted, HookState, CodexId
<1>2. NoImport \in ConnState /\ NoImport.stage = "idle"
  BY DEF NoImport, ConnState
<1>3. TypeOK
  <2>1. [t \in Thread |-> "none"] \in [Thread -> PlanEntry]
    BY DEF PlanEntry
  <2>2. project \in [Project -> [status: {"unknown", "confirmed", "archived"}, codex: CodexId]]
    BY DEF Init, CodexId
  <2>3. edits \in 0 .. MaxEdits
    BY DEF Init, SyncAssumption
  <2>4. threads \in [Thread -> {NoRow} \cup ThreadRow]
        /\ \A t \in Thread : threads[t] = NoRow
    BY DEF Init
  <2>5. snapshots = {o.snapshot : o \in observations} /\ observations = {} /\ inbox = {}
    BY DEF Init
  <2>6. conn \in [Conn -> ConnState] /\ hook \in [Hook -> HookState]
    BY <1>1, <1>2 DEF Init
  <2>7. assigned \in [Thread -> CodexId]
    BY DEF Init, CodexId
  <2> QED
    BY <2>1, <2>2, <2>3, <2>4, <2>5, <2>6, <2>7 DEF Init, TypeOK
<1>4. BatchesWellCut
  BY <1>1, <1>2 DEF Init, BatchesWellCut
<1>5. SnapshotsWhole
  BY <1>1 DEF Init, SnapshotsWhole
<1>6. RowsSound
  BY <1>2 DEF Init, RowsSound
<1>7. ThreadsDerived
  <2>1. \A t \in Thread : Known(t) = {} /\ threads[t] = NoRow
    BY DEF Init, Known
  <2> QED
    BY <2>1 DEF ThreadsDerived, Derived
<1> QED
  BY <1>3, <1>4, <1>5, <1>6, <1>7 DEF SyncInv

-----------------------------------------------------------------------------
(* The steps that leave the database and the imports alone *)

LEMMA WorldStep ==
  ASSUME SyncAssumption, SyncInv, World
  PROVE  SyncInv'
<1>1. UNCHANGED <<database, inbox, conn, hook>>
  BY DEF World, Assign, Approve, Register, Archive
<1>2. /\ assigned' \in [Thread -> CodexId] /\ plan' \in [Thread -> PlanEntry]
      /\ edits' \in 0 .. MaxEdits
  <2>1. CASE \E t \in Thread, k \in CodexProject \cup {NoCodex} : Assign(t, k)
    BY <2>1 DEF SyncInv, TypeOK, SyncAssumption, Assign, Edited, CodexId
  <2>2. CASE \E t \in Thread, entry \in PlanEntry : Approve(t, entry)
    BY <2>2 DEF SyncInv, TypeOK, SyncAssumption, Approve, Edited
  <2>3. CASE \E p \in Project : Archive(p) \/ \E k \in CodexProject : Register(p, k)
    BY <2>3 DEF SyncInv, TypeOK, SyncAssumption, Archive, Register, Edited
  <2> QED
    BY <2>1, <2>2, <2>3 DEF World
<1>3. /\ project' \in [Project -> [status: {"unknown", "confirmed", "archived"}, codex: CodexId]]
      /\ \A p \in Project : project'[p].status # "unknown" => project'[p].codex # NoCodex
  <2> DEFINE State == [status: {"unknown", "confirmed", "archived"}, codex: CodexId]
  <2>1. project \in [Project -> State]
        /\ \A p \in Project : project[p].status # "unknown" => project[p].codex # NoCodex
    BY DEF SyncInv, TypeOK, RowsSound
  <2>2. ASSUME NEW p \in Project, NEW k \in CodexProject, Register(p, k)
        PROVE  /\ project' \in [Project -> State]
               /\ project'[p].codex = k /\ k # NoCodex
               /\ \A q \in Project \ {p} : project'[q] = project[q]
    <3>1. k # NoCodex /\ k \in CodexId
      BY DEF SyncAssumption, CodexId
    <3> QED
      BY <2>1, <2>2, <3>1 DEF Register
  <2>3. ASSUME NEW p \in Project, Archive(p)
        PROVE  /\ project' \in [Project -> State]
               /\ project'[p].status = "archived" /\ project'[p].codex = project[p].codex
               /\ project[p].status # "unknown"
               /\ \A q \in Project \ {p} : project'[q] = project[q]
    <3>1. project' = [project EXCEPT ![p] = [project[p] EXCEPT !.status = "archived"]]
      BY <2>1, <2>3 DEF Archive
    <3>2. [project[p] EXCEPT !.status = "archived"] \in State
      BY <2>1
    <3>3. project[p] \in State
      BY <2>1
    <3> QED
      BY <2>1, <2>3, <3>1, <3>2, <3>3 DEF Archive
  <2>4. CASE project' = project
    BY <2>1, <2>4
  <2>5. CASE \E p \in Project, k \in CodexProject : Register(p, k)
    BY <2>1, <2>2, <2>5
  <2>6. CASE \E p \in Project : Archive(p)
    BY <2>1, <2>3, <2>6
  <2> QED
    BY <2>4, <2>5, <2>6 DEF World, Assign, Approve
<1>4. TypeOK'
  BY <1>1, <1>2, <1>3 DEF SyncInv, TypeOK, database
<1>5. BatchesWellCut' /\ SnapshotsWhole' /\ ThreadsDerived'
  BY <1>1 DEF SyncInv, BatchesWellCut, SnapshotsWhole, ThreadsDerived, Known, database
<1>6. RowsSound'
  BY <1>1, <1>3 DEF SyncInv, RowsSound, database
<1> QED
  BY <1>4, <1>5, <1>6 DEF SyncInv

\* A step of hooks and their requests alone.
LEMMA HooksStep ==
  ASSUME SyncInv, UNCHANGED <<assigned, plan, edits, project, database, conn>>,
         hook' \in [Hook -> HookState], inbox' \subseteq Request,
         \A r \in inbox' : WellCut(r.batch),
         \A h \in Hook : \A b \in hook'[h].open \cup hook'[h].imported : WellCut(b),
         \A h \in Hook : \A b \in hook'[h].imported : b.id \in snapshots
  PROVE  SyncInv'
<1>1. TypeOK'
  BY DEF SyncInv, TypeOK, database
<1>2. BatchesWellCut' /\ SnapshotsWhole' /\ ThreadsDerived'
  BY DEF SyncInv, BatchesWellCut, SnapshotsWhole, ThreadsDerived, Known, database
<1>3. RowsSound'
  BY DEF SyncInv, RowsSound, database
<1> QED
  BY <1>1, <1>2, <1>3 DEF SyncInv

\* A hook that moves on keeps no batch but those it gets.
LEMMA HookMoves ==
  ASSUME SyncInv, NEW h \in Hook, NEW next \in HookState,
         hook' = [hook EXCEPT ![h] = next],
         UNCHANGED <<assigned, plan, edits, project, database, conn>>,
         inbox' \subseteq Request,
         \A r \in inbox' : WellCut(r.batch),
         \A b \in next.open : WellCut(b),
         next.imported \subseteq hook[h].imported
  PROVE  SyncInv'
<1>1. hook' \in [Hook -> HookState]
      /\ \A g \in Hook : hook'[g] = IF g = h THEN next ELSE hook[g]
  BY DEF SyncInv, TypeOK
<1>2. \A g \in Hook : \A b \in hook'[g].open \cup hook'[g].imported : WellCut(b)
  BY <1>1 DEF SyncInv, BatchesWellCut
<1>3. \A g \in Hook : \A b \in hook'[g].imported : b.id \in snapshots
  BY <1>1 DEF SyncInv, SnapshotsWhole
<1> QED
  BY <1>1, <1>2, <1>3, HooksStep

\* The records that StartHook's successors set a hook to.
Restarted(stage, t, open, p) ==
  [stage |-> stage, thread |-> t, assigned |-> [u \in Thread |-> NoCodex],
   open |-> open, imported |-> {}, project |-> p]

LEMMA NotStartedUpdated ==
  ASSUME NEW stage, NEW open
  PROVE  /\ [NotStarted EXCEPT !.stage = stage] = Restarted(stage, 0, {}, NoProject)
         /\ [NotStarted EXCEPT !.stage = stage, !.open = open]
              = Restarted(stage, 0, open, NoProject)
<1> DEFINE a == [NotStarted EXCEPT !.stage = stage]
<1>1. a = Restarted(stage, 0, {}, NoProject)
  BY DEF NotStarted, Restarted
<1>2. [a EXCEPT !.open = open] = Restarted(stage, 0, open, NoProject)
  <2> HIDE DEF a
  <2> QED
    BY <1>1 DEF Restarted
<1> QED
  BY <1>1, <1>2, Zenon

LEMMA NotStartedMapped ==
  ASSUME NEW t, NEW p
  PROVE  [NotStarted EXCEPT !.stage = "mapped", !.thread = t, !.project = p]
           = Restarted("mapped", t, {}, p)
<1> DEFINE a == [NotStarted EXCEPT !.stage = "mapped"]
           b == [a EXCEPT !.thread = t]
<1>1. a = Restarted("mapped", 0, {}, NoProject)
  BY DEF NotStarted, Restarted
<1>2. b = Restarted("mapped", t, {}, NoProject)
  <2> HIDE DEF a
  <2> QED
    BY <1>1 DEF Restarted
<1>3. [b EXCEPT !.project = p] = Restarted("mapped", t, {}, p)
  <2> HIDE DEF b
  <2> QED
    BY <1>2 DEF Restarted
<1> QED
  BY <1>3, Zenon

LEMMA RestartedType ==
  ASSUME NEW stage \in {"idle", "reading", "syncing", "mapped", "unmapped"},
         NEW open \in SUBSET Batch, NEW t \in Thread \cup {0},
         NEW p \in Project \cup {NoProject}
  PROVE  /\ Restarted(stage, t, open, p) \in HookState
         /\ Restarted(stage, t, open, p).open = open
         /\ Restarted(stage, t, open, p).imported = {}
BY DEF Restarted, HookState, CodexId

LEMMA ClientStep ==
  ASSUME SyncAssumption, SyncInv, Client
  PROVE  SyncInv'
<1> USE DEF SyncInv
<1>1. hook \in [Hook -> HookState] /\ inbox \subseteq Request
      /\ \A r \in inbox : WellCut(r.batch)
  BY DEF TypeOK, BatchesWellCut
<1>2. ASSUME NEW h \in Hook, StartHook(h) PROVE SyncInv'
  <2> DEFINE next == [hook[h] EXCEPT !.stage = "reading", !.assigned = assigned]
  <2>1. next \in HookState /\ next.open = hook[h].open /\ next.imported = hook[h].imported
    <3>1. hook[h] \in HookState /\ assigned \in [Thread -> CodexId]
      BY <1>1 DEF TypeOK
    <3> QED
      BY <3>1 DEF HookState
  <2>2. hook' = [hook EXCEPT ![h] = next]
    BY <1>1, <1>2 DEF StartHook
  <2>3. \A b \in next.open : WellCut(b)
    BY <2>1 DEF BatchesWellCut
  <2> HIDE DEF next
  <2> QED
    BY <1>1, <1>2, <2>1, <2>2, <2>3, HookMoves DEF StartHook
<1>3. ASSUME NEW h \in Hook, SendBatches(h) PROVE SyncInv'
  <2> DEFINE read == Observed(hook[h].assigned, plan)
             batches == Batches(read)
             next == Restarted("syncing", 0, batches, NoProject)
  <2>1. \A b \in batches : b \in Batch /\ WellCut(b)
    <3>1. hook[h].assigned \in [Thread -> CodexId] /\ plan \in [Thread -> PlanEntry]
      BY <1>1 DEF TypeOK, HookState
    <3>2. read \subseteq Observation /\ OnePerThread(read) /\ IsFiniteSet(read)
      BY <3>1, ObservedIsReading
    <3> HIDE DEF read
    <3> QED
      BY <3>2, BatchesAreWellCut
  <2>2. hook' = [hook EXCEPT ![h] = next]
    BY <1>3, NotStartedUpdated DEF SendBatches
  <2>3. inbox' = inbox \cup {[from |-> h, batch |-> b] : b \in batches}
        /\ UNCHANGED <<assigned, plan, edits, project, database, conn>>
    BY <1>3 DEF SendBatches
  <2> HIDE DEF batches
  <2>4. next \in HookState /\ next.open = batches /\ next.imported = {}
    BY <2>1, RestartedType
  <2>5. inbox' \subseteq Request /\ \A r \in inbox' : WellCut(r.batch)
    BY <1>1, <2>1, <2>3 DEF Request
  <2> HIDE DEF next
  <2> QED
    BY <2>1, <2>2, <2>3, <2>4, <2>5, HookMoves
<1>4. ASSUME NEW h \in Hook, CollectFails(h) PROVE SyncInv'
  <2> DEFINE next == Restarted("syncing", 0, {}, NoProject)
  <2>1. hook' = [hook EXCEPT ![h] = next]
    BY <1>4, NotStartedUpdated DEF CollectFails
  <2>2. next \in HookState /\ next.open = {} /\ next.imported = {}
    BY RestartedType
  <2> HIDE DEF next
  <2> QED
    BY <1>1, <1>4, <2>1, <2>2, HookMoves DEF CollectFails
<1>5. ASSUME NEW h \in Hook, NEW t \in Thread, Bootstrap(h, t) PROVE SyncInv'
  <2> DEFINE next == IF MappedProject(t) # NoProject
                       THEN Restarted("mapped", t, {}, MappedProject(t))
                       ELSE Restarted("unmapped", 0, {}, NoProject)
  <2>1. hook' = [hook EXCEPT ![h] = next]
    <3>1. CASE MappedProject(t) # NoProject
      <4> DEFINE updated ==
                   [NotStarted EXCEPT !.stage = "mapped", !.thread = t,
                                      !.project = MappedProject(t)]
      <4>1. hook' = [hook EXCEPT ![h] = updated]
        BY <1>5, <3>1 DEF Bootstrap
      <4>2. updated = next
        BY <3>1, NotStartedMapped, Zenon
      <4> QED
        BY <4>1, <4>2
    <3>2. CASE MappedProject(t) = NoProject
      BY <1>5, <3>2, NotStartedUpdated DEF Bootstrap
    <3> QED
      BY <3>1, <3>2
  <2>2. MappedProject(t) # NoProject => MappedProject(t) \in Project
    <3> SUFFICES ASSUME MappedProject(t) # NoProject PROVE MappedProject(t) \in Project
      OBVIOUS
    <3>1. MappedProject(t) = threads[t].project /\ threads[t].class = "confirmed"
      BY DEF MappedProject
    <3>2. threads[t] \in {NoRow} \cup ThreadRow
      BY DEF TypeOK
    <3>3. threads[t] # NoRow
      BY <3>1 DEF NoRow
    <3> QED
      BY <3>1, <3>2, <3>3 DEF ThreadRow
  <2>3. next \in HookState /\ next.open = {} /\ next.imported = {}
    <3>1. CASE MappedProject(t) # NoProject
      BY <2>2, <3>1, RestartedType
    <3>2. CASE MappedProject(t) = NoProject
      BY <3>2, RestartedType
    <3> QED
      BY <3>1, <3>2
  <2> HIDE DEF next
  <2> QED
    BY <1>1, <1>5, <2>1, <2>3, HookMoves DEF Bootstrap
<1>6. ASSUME NEW h \in Hook, NEW b \in hook[h].open, GiveUp(h, b) PROVE SyncInv'
  <2> DEFINE next == [hook[h] EXCEPT !.open = @ \ {b}]
  <2>1. next \in HookState /\ next.open \subseteq hook[h].open
        /\ next.imported = hook[h].imported
    <3>1. hook[h] \in HookState
      BY <1>1
    <3> QED
      BY <3>1 DEF HookState
  <2>2. hook' = [hook EXCEPT ![h] = next]
    BY <1>1, <1>6 DEF GiveUp
  <2>3. \A c \in next.open : WellCut(c)
    BY <2>1 DEF BatchesWellCut
  <2> HIDE DEF next
  <2> QED
    BY <1>1, <1>6, <2>1, <2>2, <2>3, HookMoves DEF GiveUp
<1>7. ASSUME NEW o \in Imports, Import(o) PROVE SyncInv'
  <2> DEFINE batch == [id |-> SnapshotId({o}, 0), rows |-> {o}]
  <2>1. batch \in Batch /\ WellCut(batch)
    BY ImportIsWellCut
  <2>2. inbox' = inbox \cup {[from |-> Nobody, batch |-> batch]}
        /\ UNCHANGED <<assigned, plan, edits, project, database, conn, hook>>
    BY <1>7 DEF Import
  <2> HIDE DEF batch
  <2>3. inbox' \subseteq Request /\ \A r \in inbox' : WellCut(r.batch)
    BY <1>1, <2>1, <2>2 DEF Request
  <2>4. /\ \A h \in Hook : \A b \in hook'[h].open \cup hook'[h].imported : WellCut(b)
        /\ \A h \in Hook : \A b \in hook'[h].imported : b.id \in snapshots
    BY <2>2 DEF BatchesWellCut, SnapshotsWhole
  <2> QED
    BY <1>1, <2>2, <2>3, <2>4, HooksStep
<1> QED
  BY <1>2, <1>3, <1>4, <1>5, <1>6, <1>7 DEF Client

-----------------------------------------------------------------------------
(* The steps of the daemon *)

LEMMA DuplicateStep ==
  ASSUME SyncAssumption, SyncInv, NEW r \in inbox, Duplicate(r)
  PROVE  SyncInv'
<1> USE DEF SyncInv
<1>1. HooksAnswered(r, TRUE)
  BY AnswerStep DEF Duplicate
<1>2. r.batch.id \in snapshots /\ inbox' \subseteq inbox
      /\ UNCHANGED <<assigned, plan, edits, project, database, conn>>
  BY DEF Duplicate
<1>3. inbox' \subseteq Request /\ \A q \in inbox' : WellCut(q.batch)
  BY <1>2 DEF TypeOK, BatchesWellCut
<1>4. \A h \in Hook : \A b \in hook'[h].open \cup hook'[h].imported :
        b \in hook[h].open \cup hook[h].imported
  BY <1>1 DEF HooksAnswered
<1>5. \A h \in Hook : \A b \in hook'[h].imported :
        b \in hook[h].imported \/ b = r.batch
  BY <1>1 DEF HooksAnswered
<1>6. \A h \in Hook : \A b \in hook'[h].open \cup hook'[h].imported : WellCut(b)
  BY <1>4 DEF BatchesWellCut
<1>7. \A h \in Hook : \A b \in hook'[h].imported : b.id \in snapshots
  BY <1>2, <1>5 DEF SnapshotsWhole
<1> QED
  BY <1>1, <1>2, <1>3, <1>6, <1>7, HooksStep DEF HooksAnswered

\* What a connection that has an import in hand holds.
LEMMA ImportInHand ==
  ASSUME TypeOK, NEW w \in Conn, conn[w].stage # "idle"
  PROVE  /\ conn[w].stage \in {"inserted", "resolved"}
         /\ conn[w].request \in Request
         /\ conn[w].request.batch \in Batch
         /\ conn[w].request.batch.rows \subseteq Observation
         /\ conn[w].stage = "resolved" => conn[w].rows \subseteq Row
<1>1. conn[w] \in ConnState
  BY DEF TypeOK
<1>2. conn[w].request \in Request /\ conn[w].stage \in {"inserted", "resolved"}
      /\ (conn[w].stage = "resolved" => conn[w].rows \subseteq Row)
  BY <1>1 DEF ConnState, NoImport
<1> QED
  BY <1>2 DEF Request, Batch

LEMMA InsertSnapshotStep ==
  ASSUME SyncAssumption, SyncInv, NEW r \in inbox, NEW w \in Conn, InsertSnapshot(w, r)
  PROVE  SyncInv'
<1> USE DEF SyncInv
<1> DEFINE next == [stage |-> "inserted", request |-> r]
<1>1. /\ conn' = [conn EXCEPT ![w] = next] /\ inbox' \subseteq inbox
      /\ UNCHANGED <<assigned, plan, edits, project, database, hook>>
  BY DEF InsertSnapshot
<1>2. next \in ConnState /\ next.stage = "inserted" /\ next.request = r
  BY DEF TypeOK, ConnState
<1>3. conn' \in [Conn -> ConnState]
      /\ \A v \in Conn : conn'[v] = IF v = w THEN next ELSE conn[v]
  BY <1>1, <1>2 DEF TypeOK
<1> HIDE DEF next
<1>4. TypeOK'
  BY <1>1, <1>3 DEF TypeOK, database
<1>5. BatchesWellCut'
  BY <1>1, <1>2, <1>3 DEF BatchesWellCut
<1>6. SnapshotsWhole' /\ ThreadsDerived'
  BY <1>1 DEF SnapshotsWhole, ThreadsDerived, Known, database
<1>7. RowsSound'
  <2>1. \A v \in Conn : conn'[v].stage = "resolved" => conn'[v] = conn[v]
    BY <1>2, <1>3
  <2> QED
    BY <1>1, <2>1 DEF RowsSound, database
<1> QED
  BY <1>4, <1>5, <1>6, <1>7

LEMMA ResolveProjectsStep ==
  ASSUME SyncAssumption, SyncInv, NEW w \in Conn, ResolveProjects(w)
  PROVE  SyncInv'
<1> USE DEF SyncInv
<1> DEFINE request == conn[w].request
           rows == {Stored(o) : o \in request.batch.rows}
           next == [stage |-> "resolved", request |-> request, rows |-> rows]
<1>1. /\ conn[w].stage = "inserted" /\ conn' = [conn EXCEPT ![w] = next]
      /\ UNCHANGED <<assigned, plan, edits, project, database, inbox, hook>>
  BY DEF ResolveProjects
<1>2. request \in Request /\ request.batch.rows \subseteq Observation
      /\ WellCut(request.batch)
  BY <1>1, ImportInHand DEF BatchesWellCut
<1>3. \A o \in request.batch.rows :
        /\ Stored(o) \in Row /\ Consistent(Stored(o))
        /\ SameEvidence(Stored(o), o)
  BY <1>2, StoredIsSound
<1>4. /\ rows \subseteq Row /\ rows # {}
      /\ \A row \in rows : Consistent(row)
      /\ \A o \in request.batch.rows : \E row \in rows : SameEvidence(row, o)
  BY <1>2, <1>3 DEF WellCut
<1>5. OnePerThread(rows)
  BY <1>2, <1>3 DEF WellCut, OnePerThread, SameEvidence
<1> HIDE DEF rows
<1>6. next \in ConnState /\ next.stage = "resolved" /\ next.request = request
      /\ next.rows = rows
  BY <1>2, <1>4 DEF ConnState
<1>7. conn' \in [Conn -> ConnState]
      /\ \A v \in Conn : conn'[v] = IF v = w THEN next ELSE conn[v]
  BY <1>1, <1>6 DEF TypeOK
<1> HIDE DEF next
<1>8. TypeOK'
  BY <1>1, <1>7 DEF TypeOK, database
<1>9. BatchesWellCut'
  BY <1>1, <1>2, <1>6, <1>7 DEF BatchesWellCut
<1>10. SnapshotsWhole' /\ ThreadsDerived'
  BY <1>1 DEF SnapshotsWhole, ThreadsDerived, Known, database
<1>11. RowsSound'
  BY <1>1, <1>4, <1>5, <1>6, <1>7 DEF RowsSound, database
<1> QED
  BY <1>8, <1>9, <1>10, <1>11

LEMMA AbortImportStep ==
  ASSUME SyncAssumption, SyncInv, NEW w \in Conn, AbortImport(w)
  PROVE  SyncInv'
<1> USE DEF SyncInv
<1>1. /\ conn' = [conn EXCEPT ![w] = NoImport]
      /\ UNCHANGED <<assigned, plan, edits, project, database, inbox>>
  BY DEF AbortImport
<1>2. HooksAnswered(conn[w].request, FALSE)
  BY AnswerStep DEF AbortImport
<1>3. NoImport \in ConnState /\ NoImport.stage = "idle"
  BY DEF ConnState, NoImport
<1>4. conn' \in [Conn -> ConnState]
      /\ \A v \in Conn : conn'[v] = IF v = w THEN NoImport ELSE conn[v]
  BY <1>1, <1>3 DEF TypeOK
<1>5. TypeOK'
  BY <1>1, <1>2, <1>4 DEF TypeOK, HooksAnswered, database
<1>6. BatchesWellCut'
  BY <1>1, <1>2, <1>3, <1>4 DEF BatchesWellCut, HooksAnswered
<1>7. SnapshotsWhole' /\ ThreadsDerived'
  BY <1>1, <1>2 DEF SnapshotsWhole, ThreadsDerived, Known, HooksAnswered, database
<1>8. RowsSound'
  BY <1>1, <1>3, <1>4 DEF RowsSound, database
<1> QED
  BY <1>5, <1>6, <1>7, <1>8

\* The commit of a batch: what is known of a thread grows by the row the batch
\* has for it, if it has one.
LEMMA CommitImportStep ==
  ASSUME SyncAssumption, SyncInv, NEW w \in Conn, CommitImport(w)
  PROVE  SyncInv'
<1> USE DEF SyncInv
<1> DEFINE batch == conn[w].request.batch
           rows == conn[w].rows
<1>1. /\ conn[w].stage = "resolved" /\ conn' = [conn EXCEPT ![w] = NoImport]
      /\ snapshots' = snapshots \cup {batch.id}
      /\ observations' = observations \cup {[snapshot |-> batch.id, row |-> o] : o \in rows}
      /\ threads' = [t \in Thread |->
           IF \E o \in rows : o.thread = t
             THEN Upserted(threads[t], CHOOSE o \in rows : o.thread = t)
             ELSE threads[t]]
      /\ UNCHANGED <<assigned, plan, edits, project, inbox>>
  BY DEF CommitImport
<1>2. HooksAnswered(conn[w].request, TRUE)
  BY AnswerStep DEF CommitImport
<1>3. /\ batch \in Batch /\ WellCut(batch) /\ rows \subseteq Row /\ rows # {}
      /\ OnePerThread(rows)
      /\ \A row \in rows : Consistent(row)
      /\ \A o \in batch.rows : \E row \in rows : SameEvidence(row, o)
  BY <1>1, ImportInHand DEF BatchesWellCut, RowsSound
<1>4. NoImport \in ConnState /\ NoImport.stage = "idle"
  BY DEF ConnState, NoImport
<1>5. conn' \in [Conn -> ConnState]
      /\ \A v \in Conn : conn'[v] = IF v = w THEN NoImport ELSE conn[v]
  BY <1>1, <1>4 DEF TypeOK
<1> HIDE DEF batch, rows
<1>6. ASSUME NEW t \in Thread
      PROVE  /\ Derived(threads'[t], Known(t)')
             /\ threads'[t] \in {NoRow} \cup ThreadRow
             /\ threads'[t] # NoRow =>
                  (threads'[t].class = "confirmed"
                     <=> threads'[t].project # NoProject /\ threads'[t].class # "candidate")
  <2>1. Known(t) \in SUBSET Row /\ \A k \in Known(t) : Consistent(k)
    BY DEF TypeOK, RowsSound, Known
  <2>2. CASE ~\E o \in rows : o.thread = t
    <3>1. threads'[t] = threads[t]
      BY <1>1, <2>2
    <3>2. Known(t)' = Known(t)
      BY <1>1, <2>2 DEF Known
    <3> QED
      BY <3>1, <3>2 DEF ThreadsDerived, TypeOK
  <2>3. CASE \E o \in rows : o.thread = t
    <3> DEFINE o == CHOOSE q \in rows : q.thread = t
    <3>1. o \in rows /\ o.thread = t
      BY <2>3
    <3>2. threads'[t] = Upserted(threads[t], o)
      BY <1>1, <2>3
    <3> HIDE DEF o
    <3>3. Known(t)' = Known(t) \cup {o}
      <4> DEFINE stored == {[snapshot |-> batch.id, row |-> q] : q \in rows}
      <4>1. \A q \in stored : q.row \in rows /\ (q.row.thread = t => q.row = o)
        BY <1>3, <3>1 DEF OnePerThread
      <4>2. \E q \in stored : q.row = o
        <5>1. [snapshot |-> batch.id, row |-> o] \in stored
          BY <3>1
        <5> QED
          BY <5>1
      <4> HIDE DEF stored
      <4>3. observations' = observations \cup stored
        BY <1>1 DEF stored
      <4> QED
        BY <3>1, <4>1, <4>2, <4>3 DEF Known
    <3>4. o \in Row /\ Consistent(o)
      BY <1>3, <3>1
    <3>5. Derived(threads'[t], Known(t)')
      <4>1. Derived(threads[t], Known(t))
        BY DEF ThreadsDerived
      <4> QED
        BY <2>1, <3>2, <3>3, <3>4, <4>1, UpsertedDerives
    <3>6. threads'[t] \in {threads[t], RowOf(o), Conflicted(o.authority)}
      BY <3>2 DEF Upserted
    <3>7. RowOf(o).class = "confirmed"
            <=> RowOf(o).project # NoProject /\ RowOf(o).class # "candidate"
      BY <3>4 DEF RowOf, Row, Consistent
    <3>8. Conflicted(o.authority).class = "conflicted"
          /\ Conflicted(o.authority).project = NoProject
      BY DEF Conflicted
    <3> QED
      BY <3>4, <3>5, <3>6, <3>7, <3>8, RowIsNotNone DEF TypeOK
  <2> QED
    BY <2>2, <2>3
<1>7. TypeOK'
  <2>1. threads' \in [Thread -> {NoRow} \cup ThreadRow]
    BY <1>1, <1>6
  <2>2. snapshots' = {o.snapshot : o \in observations'}
    <3> DEFINE stored == {[snapshot |-> batch.id, row |-> q] : q \in rows}
    <3>1. stored # {} /\ \A q \in stored : q.snapshot = batch.id
      <4>1. PICK row \in rows : TRUE
        BY <1>3
      <4>2. [snapshot |-> batch.id, row |-> row] \in stored
        BY <4>1
      <4> QED
        BY <4>2
    <3> HIDE DEF stored
    <3>2. observations' = observations \cup stored
      BY <1>1 DEF stored
    <3> QED
      BY <1>1, <3>1, <3>2 DEF TypeOK
  <2>3. \A o \in observations' : o.row \in Row
    BY <1>1, <1>3 DEF TypeOK
  <2> QED
    BY <1>1, <1>2, <1>5, <1>6, <2>1, <2>2, <2>3 DEF TypeOK, HooksAnswered
<1>8. BatchesWellCut'
  BY <1>1, <1>2, <1>4, <1>5 DEF BatchesWellCut, HooksAnswered
<1>9. SnapshotsWhole'
  <2>1. \A o \in RowsOf(batch.id) :
          \E q \in observations' : q.snapshot = batch.id /\ SameEvidence(q.row, o)
    <3> SUFFICES ASSUME NEW o \in RowsOf(batch.id)
                 PROVE  \E q \in observations' :
                          q.snapshot = batch.id /\ SameEvidence(q.row, o)
      OBVIOUS
    <3>1. PICK row \in rows : SameEvidence(row, o)
      BY <1>3 DEF WellCut
    <3> DEFINE q == [snapshot |-> batch.id, row |-> row]
    <3>2. q \in observations' /\ q.snapshot = batch.id /\ q.row = row
      BY <1>1
    <3> QED
      BY <3>1, <3>2
  <2>2. \A h \in Hook : \A b \in hook'[h].imported : b \in hook[h].imported \/ b = batch
    BY <1>2 DEF HooksAnswered, batch
  <2> QED
    BY <1>1, <2>1, <2>2 DEF SnapshotsWhole
<1>10. RowsSound'
  <2>1. \A o \in observations' : Consistent(o.row)
    BY <1>1, <1>3 DEF RowsSound
  <2>2. \A v \in Conn : conn'[v].stage = "resolved" => conn'[v] = conn[v]
    BY <1>4, <1>5
  <2> QED
    BY <1>1, <2>1, <2>2 DEF RowsSound
<1>11. ThreadsDerived'
  BY <1>6 DEF ThreadsDerived
<1> QED
  BY <1>7, <1>8, <1>9, <1>10, <1>11

-----------------------------------------------------------------------------
(* The theorems *)

LEMMA NextSync == SyncAssumption /\ SyncInv /\ [Next]_vars => SyncInv'
<1> SUFFICES ASSUME SyncAssumption, SyncInv, [Next]_vars PROVE SyncInv'
  OBVIOUS
<1>1. CASE World
  BY <1>1, WorldStep
<1>2. CASE Client
  BY <1>2, ClientStep
<1>3. CASE \E r \in inbox : Duplicate(r) \/ \E w \in Conn : InsertSnapshot(w, r)
  BY <1>3, DuplicateStep, InsertSnapshotStep
<1>4. CASE \E w \in Conn : ResolveProjects(w) \/ CommitImport(w) \/ AbortImport(w)
  BY <1>4, ResolveProjectsStep, CommitImportStep, AbortImportStep
<1>5. CASE UNCHANGED vars
  BY <1>5 DEF vars, database, SyncInv, TypeOK, BatchesWellCut, SnapshotsWhole, RowsSound,
              ThreadsDerived, Known
<1> QED
  BY <1>1, <1>2, <1>3, <1>4, <1>5 DEF Next, Daemon

\* The invariant behind the theorems below: batches are well cut, snapshots are
\* stored whole, rows that name a project name a Codex id, and every thread's row
\* follows from what is known of the thread.
THEOREM SyncInvariant == Spec => []SyncInv
<1>1. Init => SyncInv
  BY InitSync, SyncAssumption
<1>2. SyncInv /\ [Next]_vars => SyncInv'
  BY NextSync, SyncAssumption
<1> QED
  BY <1>1, <1>2, PTL DEF Spec

\* Type correctness of the synchronisation.
THEOREM SyncTypeCorrect == Spec => []TypeOK
<1>1. SyncInv => TypeOK
  BY DEF SyncInv
<1> QED
  BY <1>1, SyncInvariant, PTL

LEMMA TopIsTopOfKnown == \A t : Top(t) = TopOf(Known(t))
BY DEF Top, TopOf, Known

\* A thread that is known has a highest authority, which its row follows.
LEMMA KnownHasTop ==
  ASSUME SyncInv, NEW t \in Thread
  PROVE  /\ Known(t) \in SUBSET Row /\ \A k \in Known(t) : Consistent(k)
         /\ Derived(threads[t], Known(t))
         /\ Known(t) = {} <=> Top(t) = {}
<1>1. Known(t) \in SUBSET Row /\ \A k \in Known(t) : Consistent(k)
  BY DEF SyncInv, TypeOK, RowsSound, Known
<1>2. Derived(threads[t], Known(t))
  BY DEF SyncInv, ThreadsDerived
<1>3. Known(t) # {} => TopOf(Known(t)) # {}
  BY <1>1, <1>2, DerivedFromTop
<1>4. TopOf(Known(t)) \subseteq Known(t)
  BY DEF TopOf
<1> QED
  BY <1>1, <1>2, <1>3, <1>4, TopIsTopOfKnown

\* A thread's row is what its highest authority says if it says one thing, and
\* conflicted otherwise, in whatever order the batches came.
THEOREM RowsFollowEvidence == Spec => []StateIsDerived
<1>1. SyncInv => StateIsDerived
  <2> SUFFICES ASSUME SyncInv, NEW t \in Thread, ~\E o \in Top(t) : NamesNothing(o)
               PROVE  IF Top(t) = {} THEN threads[t] = NoRow
                      ELSE IF Undisputed(Top(t)) THEN \E o \in Top(t) : threads[t] = RowOf(o)
                      ELSE \E o \in Top(t) : threads[t] = Conflicted(o.authority)
    BY DEF StateIsDerived
  <2>1. Derived(threads[t], Known(t)) /\ (Known(t) = {} <=> Top(t) = {})
    BY KnownHasTop
  <2> QED
    BY <2>1, TopIsTopOfKnown DEF Derived
<1> QED
  BY <1>1, SyncInvariant, PTL

\* What equal authorities disagree about is never decided in favour of one.
THEOREM DisputesStayOpen == Spec => []DisputedNeverConfirmed
<1>1. SyncInv => DisputedNeverConfirmed
  <2> SUFFICES ASSUME SyncInv, NEW t \in Thread, ~Undisputed(Top(t))
               PROVE  /\ threads[t].class \notin {"confirmed", "projectless"}
                      /\ threads[t].project = NoProject /\ threads[t].codex = NoCodex
    BY DEF DisputedNeverConfirmed
  <2>1. Top(t) # {} /\ Known(t) # {}
    BY KnownHasTop DEF Undisputed
  <2>2. PICK o \in Top(t) :
          threads[t] = Conflicted(o.authority) \/ (NamesNothing(o) /\ threads[t] = RowOf(o))
    BY <2>1, KnownHasTop, TopIsTopOfKnown DEF Derived
  <2>3. Consistent(o)
    BY <2>2, KnownHasTop, TopIsTopOfKnown DEF TopOf
  <2> QED
    BY <2>2, <2>3 DEF Conflicted, NamesNothing, RowOf, Consistent
<1> QED
  BY <1>1, SyncInvariant, PTL

\* A batch that was answered is stored.
THEOREM AnsweredBatchesStored == Spec => []AcknowledgedIsStored
<1>1. SyncInv => AcknowledgedIsStored
  <2> SUFFICES ASSUME SyncInv, NEW h \in Hook, NEW b \in hook[h].imported, NEW o \in b.rows
               PROVE  \E q \in observations :
                        /\ q.snapshot = b.id
                        /\ q.row.thread = o.thread /\ q.row.codex = o.codex
                        /\ q.row.authority = o.authority
    BY DEF AcknowledgedIsStored
  <2>1. b.id \in snapshots /\ o \in RowsOf(b.id)
    BY DEF SyncInv, SnapshotsWhole, BatchesWellCut, WellCut
  <2> QED
    BY <2>1 DEF SyncInv, SnapshotsWhole, SameEvidence
<1> QED
  BY <1>1, SyncInvariant, PTL

\* Only a bootstrap maps a session, by the row of the thread it names.
LEMMA MappedByRow ==
  ASSUME SyncInv, [Next]_vars, NEW h \in Hook, MappedNow(h)
  PROVE  /\ hook'[h].thread \in Thread /\ hook'[h].project # NoProject
         /\ threads[hook'[h].thread].class = "confirmed"
         /\ threads[hook'[h].thread].project = hook'[h].project
         /\ project[hook'[h].project].status = "confirmed"
<1>1. hook \in [Hook -> HookState]
  BY DEF SyncInv, TypeOK
<1>2. hook[h].stage = "syncing" /\ hook'[h].stage = "mapped"
  BY DEF MappedNow
<1>3. CASE World \/ UNCHANGED vars \/ \E o \in Imports : Import(o)
  BY <1>2, <1>3 DEF World, Assign, Approve, Register, Archive, Import, vars
<1>4. CASE \E r \in inbox : Duplicate(r)
  BY <1>2, <1>4, AnswerStep DEF Duplicate, HooksAnswered, SyncInv
<1>5. CASE \E r \in inbox, w \in Conn : InsertSnapshot(w, r)
  BY <1>2, <1>5 DEF InsertSnapshot
<1>6. CASE \E w \in Conn : ResolveProjects(w) \/ CommitImport(w) \/ AbortImport(w)
  <2>1. CASE \E w \in Conn : ResolveProjects(w)
    BY <1>2, <2>1 DEF ResolveProjects
  <2>2. CASE \E w \in Conn : CommitImport(w)
    BY <1>2, <2>2, AnswerStep DEF CommitImport, HooksAnswered, SyncInv
  <2>3. CASE \E w \in Conn : AbortImport(w)
    BY <1>2, <2>3, AnswerStep DEF AbortImport, HooksAnswered, SyncInv
  <2> QED
    BY <1>6, <2>1, <2>2, <2>3
<1>7. CASE \E g \in Hook : StartHook(g) \/ SendBatches(g) \/ CollectFails(g)
  <2>1. PICK g \in Hook : StartHook(g) \/ SendBatches(g) \/ CollectFails(g)
    BY <1>7
  <2>2. CASE g = h
    BY <1>2, <2>1, <2>2 DEF StartHook, SendBatches, CollectFails
  <2>3. CASE g # h
    BY <1>1, <1>2, <2>1, <2>3 DEF StartHook, SendBatches, CollectFails
  <2> QED
    BY <2>2, <2>3
<1>8. CASE \E g \in Hook : \E b \in hook[g].open : GiveUp(g, b)
  BY <1>1, <1>2, <1>8 DEF GiveUp, HookState
<1>9. CASE \E g \in Hook, t \in Thread : Bootstrap(g, t)
  <2>1. PICK g \in Hook, t \in Thread : Bootstrap(g, t)
    BY <1>9
  <2>2. g = h
    BY <1>1, <1>2, <2>1 DEF Bootstrap
  <2>3. MappedProject(t) # NoProject
    <3> SUFFICES ASSUME MappedProject(t) = NoProject PROVE FALSE
      OBVIOUS
    <3>1. hook' = [hook EXCEPT ![h] = [NotStarted EXCEPT !.stage = "unmapped"]]
      BY <2>1, <2>2 DEF Bootstrap
    <3>2. hook'[h] = Restarted("unmapped", 0, {}, NoProject)
      BY <1>1, <3>1, NotStartedUpdated
    <3> QED
      BY <1>2, <3>2 DEF Restarted
  <2>4. hook'[h].thread = t /\ hook'[h].project = MappedProject(t)
    <3> DEFINE updated ==
                 [NotStarted EXCEPT !.stage = "mapped", !.thread = t,
                                    !.project = MappedProject(t)]
    <3>1. hook' = [hook EXCEPT ![h] = updated]
      BY <2>1, <2>2, <2>3 DEF Bootstrap
    <3>2. updated = Restarted("mapped", t, {}, MappedProject(t))
      BY NotStartedMapped, Zenon
    <3> HIDE DEF updated
    <3> QED
      BY <1>1, <3>1, <3>2 DEF Restarted
  <2> QED
    BY <2>3, <2>4 DEF MappedProject
<1> QED
  BY <1>3, <1>4, <1>5, <1>6, <1>7, <1>8, <1>9 DEF Next, Client, Daemon

\* What a confirmed row says is what all of the highest authorities say, and its
\* project is the one that one of them was resolved to.
LEMMA ConfirmedRow ==
  ASSUME SyncInv, NEW t \in Thread, threads[t].class = "confirmed"
  PROVE  /\ Undisputed(Top(t))
         /\ \E o \in Top(t) :
              o.class = "confirmed" /\ o.project = threads[t].project
<1>1. /\ Known(t) \in SUBSET Row /\ \A k \in Known(t) : Consistent(k)
      /\ Derived(threads[t], Known(t))
  BY KnownHasTop
<1>2. threads[t] # NoRow
  BY DEF NoRow
<1>3. PICK o \in TopOf(Known(t)) :
        threads[t] = RowOf(o) \/ threads[t] = Conflicted(o.authority)
  BY <1>1, <1>2 DEF Derived
<1>4. threads[t] = RowOf(o) /\ o.class = "confirmed" /\ o.project = threads[t].project
  BY <1>3 DEF Conflicted, RowOf
<1>5. Undisputed(Top(t))
  <2> SUFFICES ASSUME ~Undisputed(Top(t)) PROVE FALSE
    OBVIOUS
  <2>1. PICK n \in TopOf(Known(t)) :
          threads[t] = Conflicted(n.authority) \/ (NamesNothing(n) /\ threads[t] = RowOf(n))
    BY <1>1, <1>2, TopIsTopOfKnown DEF Derived
  <2> QED
    BY <2>1 DEF Conflicted, NamesNothing, RowOf
<1> QED
  BY <1>3, <1>4, <1>5, TopIsTopOfKnown

\* A session is mapped to a project only if the highest authorities agree, one of
\* them named this project when it was imported, and it is still confirmed.
THEOREM MappingsUndisputed == Spec => BootstrapUndisputed
<1>1. ASSUME SyncInv, [Next]_vars, NEW h \in Hook, MappedNow(h)
      PROVE  LET p == hook'[h].project  top == Top(hook'[h].thread) IN
             /\ Undisputed(top)
             /\ project[p].status = "confirmed"
             /\ \E o \in top : o.class = "confirmed" /\ o.project = p
  BY <1>1, MappedByRow, ConfirmedRow
<1>2. SyncInv /\ [Next]_vars =>
        [\A h \in Hook : MappedNow(h) =>
           LET p == hook'[h].project  top == Top(hook'[h].thread) IN
           /\ Undisputed(top)
           /\ project[p].status = "confirmed"
           /\ \E o \in top : o.class = "confirmed" /\ o.project = p]_vars
  BY <1>1
<1> QED
  BY <1>2, SyncInvariant, PTL DEF Spec, BootstrapUndisputed

\* A reading of the hook's own that was imported is overruled only by evidence of
\* higher authority.
THEOREM ReadingsHonoured == Spec => BootstrapHonoursReading
<1>1. ASSUME SyncInv, [Next]_vars, NEW h \in Hook, MappedNow(h),
             NEW b \in hook[h].imported, NEW o \in b.rows, o.thread = hook'[h].thread
      PROVE  \E q \in Top(o.thread) :
               /\ q.project = hook'[h].project
               /\ q.codex = o.codex \/ Priority[q.authority] > Priority[o.authority]
  <2> DEFINE t == hook'[h].thread
  <2>1. t \in Thread /\ threads[t].class = "confirmed"
        /\ threads[t].project = hook'[h].project
    BY <1>1, MappedByRow
  <2>2. PICK q \in Top(t) : q.project = hook'[h].project
    BY <1>1, <2>1, ConfirmedRow
  <2>3. Undisputed(Top(t))
    BY <1>1, <2>1, ConfirmedRow
  <2>4. PICK stored \in observations : SameEvidence(stored.row, o)
    <3>1. b.id \in snapshots /\ o \in RowsOf(b.id)
      BY <1>1 DEF SyncInv, SnapshotsWhole, BatchesWellCut, WellCut
    <3> QED
      BY <1>1, <3>1 DEF SyncInv, SnapshotsWhole
  <2>5. stored.row \in Known(t)
    BY <1>1, <2>4 DEF SameEvidence, Known
  <2>6. /\ Known(t) \in SUBSET Row /\ q \in Known(t)
        /\ \A k \in Known(t) : Priority[k.authority] <= Priority[q.authority]
    BY <1>1, <2>1, <2>2, KnownHasTop, TopIsTopOfKnown DEF TopOf
  <2>7. Priority[stored.row.authority] \in Nat /\ Priority[q.authority] \in Nat
        /\ \A k \in Known(t) : Priority[k.authority] \in Nat
    BY <2>5, <2>6, PriorityFacts DEF Row
  <2>8. CASE Priority[q.authority] = Priority[stored.row.authority]
    <3>1. stored.row \in Top(t)
      BY <2>5, <2>6, <2>7, <2>8, TopIsTopOfKnown DEF TopOf
    <3> QED
      BY <1>1, <2>2, <2>3, <2>4, <3>1 DEF Undisputed, SameEvidence
  <2>9. CASE Priority[q.authority] > Priority[stored.row.authority]
    BY <1>1, <2>2, <2>4, <2>9 DEF SameEvidence
  <2> QED
    BY <2>5, <2>6, <2>7, <2>8, <2>9
<1>2. SyncInv /\ [Next]_vars =>
        [\A h \in Hook : MappedNow(h) =>
           \A b \in hook[h].imported : \A o \in b.rows : o.thread = hook'[h].thread =>
             \E q \in Top(o.thread) :
               /\ q.project = hook'[h].project
               /\ q.codex = o.codex \/ Priority[q.authority] > Priority[o.authority]]_vars
  BY <1>1
<1> QED
  BY <1>2, SyncInvariant, PTL DEF Spec, BootstrapHonoursReading
==============================================================================
