-------------------------- MODULE SessionLifecycle ---------------------------
(***************************************************************************)
(* The life of a row of agent_sessions, at the granularity PostgreSQL      *)
(* gives the daemon: requests run as READ COMMITTED transactions over a    *)
(* connection pool, now() is the time their BEGIN was received, FOR UPDATE *)
(* waits for a row and re-checks it, the sweeper skips locked rows, and    *)
(* the global ontology lock serialises activity writes only.  A            *)
(* transaction is the pair req[w], step[w] of the connection w that runs   *)
(* it; what it has written is published by the step that commits.          *)
(***************************************************************************)
EXTENDS Naturals, Sequences, FiniteSets

CONSTANTS
  Session,     \* the ids gen_random_uuid() can return (bounds the sessions)
  Thread,      \* what starts name: pairs (client, external_session_id),
  NoThread,    \* and NoThread for a start without an external session id
  Project,     \* what ensureProject answers to starts: projects,
  NoProject,   \* and NoProject for an unresolved one, a null project_id
  Key,         \* the idempotency keys of client activities (they bound the
               \* records: one without a key is as one whose key is not used again)
  ClientType,  \* the activity types clients record, free text
  ClientOutcome, \* the outcomes clients complete with
  Duration,    \* the lease lengths clients ask for
  Handler,     \* pool connections that serve requests
  Sweeper,     \* connections of the interval sweep (sweeps may overlap)
  Nobody,      \* the owner of a free lock
  SweepLimit,  \* expireStaleSessions' limit
  MaxClock     \* bound on the clock

Worker == Handler \cup Sweeper
Outcome == {"completed", "failed", "partial", "cancelled"}
SystemKey == {"none", "client-session-end", "lease-expired"}

ASSUME ConstantAssumption ==
  /\ ClientOutcome \subseteq Outcome
  /\ Key \cap SystemKey = {}
  /\ Duration \subseteq Nat \ {0} /\ Duration # {}
  /\ Sweeper \cap Handler = {} /\ Nobody \notin Worker \cup Session
  /\ SweepLimit \in Nat \ {0} /\ MaxClock \in Nat

VARIABLES
  clock,         \* the database server's wall clock
  row,           \* [Session -> committed row of agent_sessions]
  log,           \* [Session -> its committed activities, in commit order]
  rowLock,       \* [Session -> connection holding the row FOR UPDATE]
  ontologyLock,  \* connection holding lockOntologyWrites
  req,           \* [Worker -> the request its transaction serves]
  step,          \* [Worker -> where that transaction is]
  now,           \* [Worker -> the transaction's now()]
  target         \* [Worker -> the row it waits for, locks or inserts]

table == <<row, log>>
locks == <<rowLock, ontologyLock>>
transactions == <<req, step, now, target>>
vars == <<clock, table, locks, transactions>>

-----------------------------------------------------------------------------
(* Rows, activities and requests *)

Statuses == {"none", "active"} \cup Outcome
Reasons == {"open", "explicit_completion", "client_session_end", "lease_expired"}
Row == [status: Statuses, thread: Thread \cup {NoThread},
        project: Project \cup {NoProject}, duration: Nat, lease: Nat, reason: Reasons]
NoRow == [status |-> "none", thread |-> NoThread, project |-> NoProject,
          duration |-> 0, lease |-> 0, reason |-> "open"]

\* What the UPDATEs of agent_sessions make of a row r: a close, a resume by a
\* start for project p with lease length d at time t, and renewSessionLease.
Closed(r, outcome, why) == [r EXCEPT !.status = outcome, !.reason = why]
Resumed(r, p, d, t) == [r EXCEPT !.project = IF @ = NoProject THEN p ELSE @,
                                 !.duration = d, !.lease = t + d]
Renewed(r, t) == [r EXCEPT !.lease = t + r.duration]

\* A row of activities: the outcome o stands for the type session.o, which a
\* client may write too; "by" is the call that wrote the row.
Closer == {"complete", "end", "sweep"}
Activity == [type: {"intent.captured"} \cup ClientType \cup Outcome,
             key: Key \cup SystemKey, project: Project \cup {NoProject},
             by: {"start", "record"} \cup Closer]
Entry(type, key, p, by) == [type |-> type, key |-> key, project |-> p, by |-> by]

\* What a request is about.  The rest of what it says (the lease it asks for,
\* the project it resolves to, its key, its outcome) is chosen by the step
\* that first uses it: nothing looks at it before.
StartRequest == [op: {"start"}, thread: Thread]
WriteRequest == [op: {"record", "complete"}, session: Session]
EndRequest == [op: {"end"}, thread: Thread \ {NoThread}]
ClientRequest == StartRequest \cup WriteRequest \cup EndRequest
SweepRequest == [op |-> "sweep"]
NoRequest == [op |-> "none"]
Request == ClientRequest \cup {SweepRequest, NoRequest}

\* Where the transaction of a connection is.
Steps == {"idle", "sweep", "sweeping", "begin", "lookup", "waiting", "locked", "insert",
          "inserted", "ontology", "load", "loaded", "duplicate_key"}

Starts(w) == req[w].op = "start"
IsActive(s) == row[s].status = "active"
Expired(s, t) == row[s].lease <= t

\* The entry of log[s] that was written under key k, if there is one.
HasEntry(s, k) == \E i \in DOMAIN log[s] : log[s][i].key = k

\* (Mutant of Logged: the hint's text is written where the project id belongs.)
LoggedUntyped(s, e) == Append(log[s], [e EXCEPT !.project = "text of the hint"])

\* insertActivity: a keyed activity that is already there is not repeated.
Logged(s, e) ==
  IF e.key # "none" /\ HasEntry(s, e.key) THEN log[s] ELSE Append(log[s], e)

-----------------------------------------------------------------------------
(* Transaction bookkeeping *)

GoTo(w, to) == step' = [step EXCEPT ![w] = to]

\* (Mutant of Release: the ontology lock is a session lock, which neither
\* COMMIT nor ROLLBACK gives back.)
ReleaseRowsOnly(w) ==
  /\ rowLock' = [s \in Session |-> IF rowLock[s] = w THEN Nobody ELSE rowLock[s]]
  /\ UNCHANGED ontologyLock

Release(w) ==
  /\ rowLock' = [s \in Session |-> IF rowLock[s] = w THEN Nobody ELSE rowLock[s]]
  /\ ontologyLock' = IF ontologyLock = w THEN Nobody ELSE ontologyLock

\* The end of a transaction, by COMMIT or ROLLBACK: its locks go, and the
\* connection returns to the pool.
Finish(w) ==
  /\ Release(w)
  /\ GoTo(w, "idle")
  /\ req' = [req EXCEPT ![w] = NoRequest]
  /\ now' = [now EXCEPT ![w] = 0]
  /\ target' = [target EXCEPT ![w] = Nobody]

\* An error the code raises: the catch block rolls back.
Fail(w) == Finish(w) /\ UNCHANGED table

LockRow(w, s, to) ==
  /\ rowLock' = [rowLock EXCEPT ![s] = w]
  /\ target' = [target EXCEPT ![w] = s]
  /\ GoTo(w, to)

Init ==
  /\ clock = 0
  /\ row = [s \in Session |-> NoRow]
  /\ log = [s \in Session |-> << >>]
  /\ rowLock = [s \in Session |-> Nobody]
  /\ ontologyLock = Nobody
  /\ req = [w \in Worker |-> NoRequest]
  /\ step = [w \in Worker |-> "idle"]
  /\ now = [w \in Worker |-> 0]
  /\ target = [w \in Worker |-> Nobody]

Tick ==
  /\ clock < MaxClock
  /\ clock' = clock + 1
  /\ UNCHANGED <<table, locks, transactions>>

\* The ids nobody has used.  They bound the sessions: a start is accepted
\* while one is left, and an insert that finds none left fails.
Unused ==
  {s \in Session : /\ row[s].status = "none"
                   /\ \A v \in Worker : ~(step[v] = "inserted" /\ target[v] = s)}

\* BEGIN of the first transaction of a request: a start sweeps first.
Arrive(w, r) ==
  /\ step[w] = "idle"
  /\ r \in StartRequest => Unused # {}
  /\ req' = [req EXCEPT ![w] = r]
  /\ now' = [now EXCEPT ![w] = clock]
  /\ GoTo(w, CASE r.op \in {"start", "sweep"} -> "sweep"
               [] r.op = "end" -> "lookup"
               [] r.op \in {"record", "complete"} -> "ontology")
  /\ UNCHANGED <<clock, table, locks, target>>

-----------------------------------------------------------------------------
(* expireStaleSessions *)

\* (Mutant of Sweepable: no FOR UPDATE SKIP LOCKED.)
SweepableUnlocked(w) == {s \in Session : IsActive(s) /\ Expired(s, now[w])}

\* The rows the sweep's SELECT returns: active, expired at its now(), not
\* locked by another transaction, the oldest leases first.
Sweepable(w) ==
  {s \in Session : IsActive(s) /\ Expired(s, now[w]) /\ rowLock[s] = Nobody}

OldestFirst(V, S) ==
  /\ V \subseteq S
  /\ \A s \in V, r \in S \ V : row[s].lease <= row[r].lease
  /\ \/ V = S /\ Cardinality(S) <= SweepLimit
     \/ Cardinality(V) = SweepLimit

SweepSelect(w) ==
  /\ step[w] = "sweep"
  /\ \E V \in SUBSET Sweepable(w) :
       /\ OldestFirst(V, Sweepable(w))
       /\ rowLock' = [s \in Session |-> IF s \in V THEN w ELSE rowLock[s]]
  /\ GoTo(w, "sweeping")
  /\ UNCHANGED <<clock, table, ontologyLock, req, now, target>>

\* (Mutant of SweepCommit: the COMMIT is missing, the writes are lost.)
SweepWithoutCommit(w) ==
  /\ step[w] = "sweeping"
  /\ IF Starts(w)
       THEN /\ Release(w)
            /\ GoTo(w, "begin")
            /\ UNCHANGED <<req, now, target>>
       ELSE Finish(w)
  /\ UNCHANGED <<clock, table>>

\* Close every row the sweep holds and COMMIT.  A start goes on with a
\* transaction of its own; the interval's sweep is done.
SweepCommit(w) ==
  LET V == {s \in Session : rowLock[s] = w} IN
  /\ step[w] = "sweeping"
  /\ row' = [s \in Session |->
               IF s \in V THEN Closed(row[s], "partial", "lease_expired") ELSE row[s]]
  /\ log' = [s \in Session |->
               IF s \in V THEN Logged(s, Entry("partial", "lease-expired", row[s].project, "sweep"))
                          ELSE log[s]]
  /\ IF Starts(w)
       THEN /\ Release(w)
            /\ GoTo(w, "begin")
            /\ UNCHANGED <<req, now, target>>
       ELSE Finish(w)
  /\ UNCHANGED clock

-----------------------------------------------------------------------------
(* startSession and bootstrapSession *)

\* BEGIN and ensureProject.  Its UPDATE of a projects row is left out: it comes
\* before the session row in every start, and foreign keys only share that
\* row (FOR KEY SHARE), so it closes no circle.  A bootstrap is a start
\* that rolls back at once when no project resolves.
StartBegin(w) ==
  /\ step[w] = "begin"
  /\ \/ NoProject \in Project /\ Finish(w)
     \/ /\ GoTo(w, IF req[w].thread = NoThread THEN "insert" ELSE "lookup")
        /\ now' = [now EXCEPT ![w] = clock]
        /\ UNCHANGED <<locks, req, target>>
  /\ UNCHANGED <<clock, table>>

\* Where a start or a SessionEnd goes when its thread has no active session.
NotFound(w) ==
  IF Starts(w)
    THEN /\ GoTo(w, "insert")
         /\ target' = [target EXCEPT ![w] = Nobody]
         /\ UNCHANGED <<locks, req, now>>
    ELSE Finish(w)

\* SELECT ... WHERE client, external_session_id, status = 'active' FOR UPDATE
Lookup(w) ==
  LET found == {s \in Session : IsActive(s) /\ row[s].thread = req[w].thread} IN
  /\ step[w] = "lookup"
  /\ \/ \E s \in found :
          \/ /\ rowLock[s] = Nobody
             /\ LockRow(w, s, "locked")
             /\ UNCHANGED <<ontologyLock, req, now>>
          \/ /\ rowLock[s] # Nobody
             /\ target' = [target EXCEPT ![w] = s]
             /\ GoTo(w, "waiting")
             /\ UNCHANGED <<locks, req, now>>
     \/ found = {} /\ NotFound(w)
  /\ UNCHANGED <<clock, table>>

\* (Mutant of Wake: the row is not looked at again after the wait.)
WakeWithoutRecheck(w) ==
  LET s == target[w] IN
  /\ step[w] = "waiting"
  /\ rowLock[s] = Nobody
  /\ LockRow(w, s, "locked")
  /\ UNCHANGED <<clock, table, ontologyLock, req, now>>

\* The row's holder is gone: the WHERE clause is evaluated again on the row
\* as it is now, and a row that no longer qualifies is dropped.
Wake(w) ==
  LET s == target[w] IN
  /\ step[w] = "waiting"
  /\ rowLock[s] = Nobody
  /\ IF IsActive(s)
       THEN /\ LockRow(w, s, "locked")
            /\ UNCHANGED <<ontologyLock, req, now>>
       ELSE NotFound(w)
  /\ UNCHANGED <<clock, table>>

\* resolveResumedSessionProject accepts the project of the request.
SameProject(s, p) == row[s].project = NoProject \/ p \in {NoProject, row[s].project}

\* (Mutant of Resume: the project is overwritten, not coalesced.)
ResumeOverwrites(w) ==
  LET s == target[w] IN
  /\ step[w] = "locked" /\ Starts(w)
  /\ \E p \in Project, d \in Duration :
       /\ SameProject(s, p)
       /\ row' = [row EXCEPT ![s].project = p, ![s].lease = now[w] + d]
  /\ Finish(w)
  /\ UNCHANGED <<clock, log>>

Resume(w) ==
  LET s == target[w] IN
  /\ step[w] = "locked" /\ Starts(w)
  /\ \E p \in Project, d \in Duration :
       IF SameProject(s, p)
         THEN /\ row' = [row EXCEPT ![s] = Resumed(row[s], p, d, now[w])]
              /\ Finish(w)
              /\ UNCHANGED log
         ELSE Fail(w)
  /\ UNCHANGED clock

\* An uncommitted insert under the same (client, external_session_id) makes
\* the unique index wait for its transaction.
IndexWaits(w) ==
  /\ req[w].thread # NoThread
  /\ \E v \in Worker : step[v] = "inserted" /\ req[v].thread = req[w].thread

\* (Mutant of IndexRejects: migration 007 drops the old unique constraint and
\* does not create the partial index.)
IndexMissing(w) == FALSE

IndexRejects(w) ==
  /\ req[w].thread # NoThread
  /\ \E s \in Session : IsActive(s) /\ row[s].thread = req[w].thread

\* INSERT INTO intentions and agent_sessions: a fresh id, or the violation
\* of agent_sessions_active_external_idx.
Insert(w) ==
  /\ step[w] = "insert"
  /\ ~IndexWaits(w)
  /\ \/ /\ IndexRejects(w)
        /\ GoTo(w, "duplicate_key")
        /\ UNCHANGED <<locks, req, now, target>>
     \/ /\ ~IndexRejects(w)
        /\ \E s \in Unused : target' = [target EXCEPT ![w] = s]
        /\ GoTo(w, "inserted")
        /\ UNCHANGED <<locks, req, now>>
     \/ ~IndexRejects(w) /\ Unused = {} /\ Finish(w)
  /\ UNCHANGED <<clock, table>>

\* insertActivity('intent.captured') and COMMIT: the session is visible.
InsertCommit(w) ==
  LET s == target[w] IN
  /\ step[w] = "inserted"
  /\ \E p \in Project, d \in Duration :
       /\ row' = [row EXCEPT ![s] =
                    [status |-> "active", thread |-> req[w].thread, project |-> p,
                     duration |-> d, lease |-> now[w] + d, reason |-> "open"]]
       /\ log' = [log EXCEPT ![s] = <<Entry("intent.captured", "none", p, "start")>>]
  /\ Finish(w)
  /\ UNCHANGED clock

-----------------------------------------------------------------------------
(* recordActivity and completeSession *)

TakeOntologyLock(w) ==
  /\ step[w] = "ontology"
  /\ ontologyLock = Nobody
  /\ ontologyLock' = w
  /\ GoTo(w, "load")
  /\ UNCHANGED <<clock, table, rowLock, req, now, target>>

\* (Mutants of Load: without FOR UPDATE; with the row locked first and the
\* ontology lock asked for while it is held.)
LoadWithoutRowLock(w) ==
  LET s == req[w].session IN
  /\ step[w] = "load"
  /\ IF IsActive(s)
       THEN /\ target' = [target EXCEPT ![w] = s]
            /\ GoTo(w, "loaded")
            /\ UNCHANGED <<table, locks, req, now>>
       ELSE Fail(w)
  /\ UNCHANGED clock

LoadRowFirst(w) ==
  /\ step[w] = "load"
  /\ rowLock[req[w].session] = Nobody
  /\ LockRow(w, req[w].session, "ontology")
  /\ ontologyLock' = Nobody
  /\ UNCHANGED <<clock, table, req, now>>

\* loadSession: the row must exist and be active; its lease is not looked at.
Load(w) ==
  LET s == req[w].session IN
  /\ step[w] = "load"
  /\ rowLock[s] = Nobody
  /\ IF IsActive(s)
       THEN /\ LockRow(w, s, "loaded")
            /\ UNCHANGED <<table, ontologyLock, req, now>>
       ELSE Fail(w)
  /\ UNCHANGED clock

UsedElsewhere(s, k) == \E r \in Session \ {s} : HasEntry(r, k)

\* recordActivity's checks pass: write the activity, of whatever type the client
\* says, unless it is a retry of one this session already has, renew the lease
\* and COMMIT.  A hint for another project, or a key another session used, fails.
Record(w) ==
  LET s == target[w] IN
  /\ step[w] = "loaded" /\ req[w].op = "record"
  /\ \E k \in Key, type \in ClientType, p \in Project \cup {NoProject} :
       IF p \in {NoProject, row[s].project} /\ ~UsedElsewhere(s, k)
         THEN /\ row' = [row EXCEPT ![s] = Renewed(row[s], now[w])]
              /\ log' = [log EXCEPT ![s] =
                            Logged(s, Entry(type, k, row[s].project, "record"))]
              /\ Finish(w)
         ELSE Fail(w)
  /\ UNCHANGED clock

\* The same with a completion: the closing activity has no idempotency key.
Complete(w) ==
  LET s == target[w] IN
  /\ step[w] = "loaded" /\ req[w].op = "complete"
  /\ \E o \in ClientOutcome :
       /\ row' = [row EXCEPT ![s] =
                    Closed(Renewed(row[s], now[w]), o, "explicit_completion")]
       /\ log' = [log EXCEPT ![s] =
                    Logged(s, Entry(o, "none", row[s].project, "complete"))]
  /\ Finish(w)
  /\ UNCHANGED clock

\* Any other refusal of the write: a different digest under the same key, a
\* timestamp in the future, a failed precondition, an ontology rejection.
Refuse(w) ==
  /\ step[w] = "loaded"
  /\ Fail(w)
  /\ UNCHANGED clock

-----------------------------------------------------------------------------
(* endSessionFromClientLifecycle *)

EndCommit(w) ==
  LET s == target[w] IN
  /\ step[w] = "locked" /\ req[w].op = "end"
  /\ row' = [row EXCEPT ![s] = Closed(row[s], "partial", "client_session_end")]
  /\ log' = [log EXCEPT ![s] =
               Logged(s, Entry("partial", "client-session-end", row[s].project, "end"))]
  /\ Finish(w)
  /\ UNCHANGED clock

-----------------------------------------------------------------------------
(* Failure *)

\* The ROLLBACK after the unique index refused the insert.
Rollback(w) ==
  /\ step[w] = "duplicate_key"
  /\ Finish(w)
  /\ UNCHANGED <<clock, table>>

\* A statement error, a lost connection or the daemon's death in the middle:
\* nothing of the open transaction survives.  (A crash of the daemon is this
\* step taken by every connection.)
Abort(w) ==
  /\ step[w] \notin {"idle", "duplicate_key"}
  /\ Finish(w)
  /\ UNCHANGED <<clock, table>>

-----------------------------------------------------------------------------
(* The specification *)

Advance(w) ==
  \/ SweepSelect(w) \/ SweepCommit(w)
  \/ StartBegin(w) \/ Lookup(w) \/ Wake(w) \/ Resume(w) \/ Insert(w) \/ InsertCommit(w)
  \/ TakeOntologyLock(w) \/ Load(w) \/ Record(w) \/ Complete(w) \/ Refuse(w)
  \/ EndCommit(w)
  \/ Rollback(w)

Next ==
  \/ Tick
  \/ \E w \in Handler, r \in ClientRequest : Arrive(w, r)
  \/ \E w \in Sweeper : Arrive(w, SweepRequest)
  \/ \E w \in Worker : Advance(w) \/ Abort(w)

\* The interval timer fires for ever; a transaction that can go on infinitely
\* often goes on (PostgreSQL's lock queues are first come first served); a
\* sweep is not cut off by an error every time.
Fairness ==
  /\ \A w \in Sweeper : WF_vars(Arrive(w, SweepRequest)) /\ SF_vars(SweepCommit(w))
  /\ \A w \in Worker : SF_vars(Advance(w))

Spec == Init /\ [][Next]_vars
FairSpec == Spec /\ Fairness
-----------------------------------------------------------------------------
(* Properties *)

\* The type of every variable.
TypeOK ==
  /\ clock \in Nat
  /\ row \in [Session -> Row]
  /\ log \in [Session -> Seq(Activity)]
  /\ rowLock \in [Session -> Worker \cup {Nobody}]
  /\ ontologyLock \in Worker \cup {Nobody}
  /\ req \in [Worker -> Request]
  /\ step \in [Worker -> Steps]
  /\ now \in [Worker -> Nat]
  /\ target \in [Worker -> Session \cup {Nobody}]

\* A client thread never has two active sessions, whatever the interleaving
\* of starts, completions and sweeps: a repeated begin resumes.
OneActivePerThread ==
  \A r, s \in Session :
    IsActive(r) /\ IsActive(s) /\ row[r].thread = row[s].thread /\ row[r].thread # NoThread
      => r = s

\* The journal and the status agree: a call that closes has written nothing to
\* an active session's journal; to a closed one's, exactly the last entry, of
\* its outcome, and it is the call its closure_reason names.  So no write that
\* raced the close was accepted behind it, and no session was closed twice.
\* (Clients may record any type: an entry is told by the call that wrote it.)
ClosedBy == [explicit_completion |-> "complete", client_session_end |-> "end",
             lease_expired |-> "sweep"]

ClosedOnce ==
  \A s \in Session :
    LET last == Len(log[s])  Closes(i) == log[s][i].by \in Closer IN
    /\ row[s].status = "none" => log[s] = << >>
    /\ IsActive(s) => log[s] # << >> /\ \A i \in DOMAIN log[s] : ~Closes(i)
    /\ row[s].status \in Outcome =>
         /\ log[s] # << >> /\ log[s][last].type = row[s].status
         /\ row[s].reason \in DOMAIN ClosedBy
         /\ log[s][last].by = ClosedBy[row[s].reason]
         /\ \A i \in DOMAIN log[s] : Closes(i) => i = last

\* Every activity carries its session's project, or none if it was written
\* before the session adopted one; and no project is ever lost again.
JournalKeepsProject ==
  \A s \in Session : \A i \in DOMAIN log[s] :
    /\ log[s][i].project \in {NoProject, row[s].project}
    /\ i > 1 /\ log[s][i - 1].project # NoProject => log[s][i].project # NoProject

\* The sweep closes only a session whose lease has run out at the moment of
\* the close, even when the sweep was chosen long before it commits.
SweptOnlyExpired ==
  [][\A s \in Session :
       row'[s].reason = "lease_expired" /\ IsActive(s) => Expired(s, clock)]_vars

\* The tables implement the contract: sessions open, adopt a project, take
\* work and close as it says, and nothing else happens to them.
statusOf == [s \in Session |-> row[s].status]
threadOf == [s \in Session |-> row[s].thread]
projectOf == [s \in Session |-> row[s].project]
Contract == INSTANCE SessionContract WITH
  NoKey <- "none", status <- statusOf, thread <- threadOf, project <- projectOf, journal <- log
ImplementsContract == Contract!Spec

\* Whom the transaction of w waits for: the holder of the row or of the
\* ontology lock it wants, or the inserts the unique index makes it wait for.
WaitsFor(w) ==
  CASE step[w] = "waiting" -> {rowLock[target[w]]} \ {Nobody}
    [] step[w] = "load" -> {rowLock[req[w].session]} \ {Nobody}
    [] step[w] = "ontology" -> {ontologyLock} \ {Nobody}
    [] step[w] = "insert" /\ req[w].thread # NoThread ->
         {v \in Worker : step[v] = "inserted" /\ req[v].thread = req[w].thread}
    [] OTHER -> {}

\* No transactions wait for each other in a circle: the row locks, the
\* ontology lock and the unique index are never taken in opposite orders.
NoDeadlock ==
  \A D \in (SUBSET Worker) \ {{}} : \E w \in D : WaitsFor(w) \cap D = {}

\* Every request ends: whatever it waits for is given up some time.
EveryRequestEnds == \A w \in Handler : step[w] # "idle" ~> step[w] = "idle"

\* A session that no request holds any more does not stay active beyond its
\* lease: "abandoned sessions close as partial".
AbandonedSessionsClose ==
  \A s \in Session :
    <>[](rowLock[s] \notin Handler) => <>[]~(IsActive(s) /\ Expired(s, clock))

\* "Repeated begin in one active Codex thread resumes": no start is refused
\* by the unique index of active sessions.
RepeatedBeginResumes == \A w \in Handler : step[w] # "duplicate_key"
==============================================================================
