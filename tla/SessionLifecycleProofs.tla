----------------------- MODULE SessionLifecycleProofs ------------------------
(***************************************************************************)
(* Proofs about SessionLifecycle, for any sets of sessions, threads,       *)
(* projects, keys and connections and any clock.  The inductive invariant  *)
(* Inv says who holds which lock at which step of its transaction, and     *)
(* what the uncommitted inserts exclude; the safety invariants the runs    *)
(* check follow from it, and so does the refinement of SessionContract.    *)
(***************************************************************************)
EXTENDS SessionLifecycle, TLAPS

\* TypeOK in two halves: the tables, and the locks and transactions.
TableTyped ==
  /\ row \in [Session -> Row]
  /\ log \in [Session -> Seq(Activity)]

TransactionsTyped ==
  /\ clock \in Nat
  /\ rowLock \in [Session -> Worker \cup {Nobody}]
  /\ ontologyLock \in Worker \cup {Nobody}
  /\ req \in [Worker -> Request]
  /\ step \in [Worker -> Steps]
  /\ now \in [Worker -> Nat]
  /\ target \in [Worker -> Session \cup {Nobody}]

\* A transaction at a given step serves a request of the kind that has the
\* step, and its target is a session when the step uses it.
Control ==
  \A w \in Worker :
    /\ step[w] \in {"begin", "insert", "inserted", "duplicate_key"} =>
         req[w] \in StartRequest
    /\ step[w] \in {"lookup", "waiting", "locked"} =>
         req[w] \in StartRequest \cup EndRequest /\ req[w].thread # NoThread
    /\ step[w] \in {"ontology", "load", "loaded"} => req[w] \in WriteRequest
    /\ step[w] \in {"sweep", "sweeping"} => req[w] \in StartRequest \cup {SweepRequest}
    /\ step[w] \in {"waiting", "locked", "loaded", "inserted"} => target[w] \in Session

\* Only active rows are locked, by transactions that are about to write them;
\* a sweep's rows have expired.  The ontology lock is held to the end of a
\* write's transaction.
LockDiscipline ==
  /\ \A s \in Session, w \in Worker : rowLock[s] = w =>
       /\ IsActive(s)
       /\ \/ step[w] \in {"locked", "loaded"} /\ target[w] = s
          \/ step[w] = "sweeping" /\ Expired(s, now[w])
  /\ \A w \in Worker : step[w] \in {"locked", "loaded"} => rowLock[target[w]] = w
  /\ \A w \in Worker : ontologyLock = w => step[w] \in {"load", "loaded"}
  /\ \A w \in Worker : now[w] <= clock

\* An uncommitted insert owns an id nobody else has, and no active row and no
\* other uncommitted insert has its thread.
InsertsExclude ==
  /\ \A w \in Worker : step[w] = "inserted" =>
       /\ row[target[w]].status = "none"
       /\ \A s \in Session : IsActive(s) /\ row[s].thread = req[w].thread
                               => req[w].thread = NoThread
  /\ \A v, w \in Worker : v # w /\ step[v] = "inserted" /\ step[w] = "inserted" =>
       /\ target[v] # target[w]
       /\ req[v].thread = req[w].thread => req[w].thread = NoThread

\* The entries of clients have clients' keys, and that of a start has none.
KeysByCall ==
  \A s \in Session : \A i \in DOMAIN log[s] :
    /\ log[s][i].by = "record" => log[s][i].key \in Key
    /\ log[s][i].by = "start" => log[s][i].key = "none"

\* ClosedOnce in two parts: what the contract sees of it, and that the reason
\* of the closure names the call that wrote the closing entry.
ClosedByLast ==
  \A s \in Session :
    LET last == Len(log[s])  Closes(i) == log[s][i].by \in Closer IN
    /\ row[s].status = "none" => log[s] = << >>
    /\ IsActive(s) => log[s] # << >> /\ \A i \in DOMAIN log[s] : ~Closes(i)
    /\ row[s].status \in Outcome =>
         /\ log[s] # << >> /\ log[s][last].type = row[s].status
         /\ \A i \in DOMAIN log[s] : Closes(i) => i = last

ReasonIsCall ==
  \A s \in Session : row[s].status \in Outcome =>
    /\ row[s].reason \in DOMAIN ClosedBy
    /\ log[s][Len(log[s])].by = ClosedBy[row[s].reason]

\* An active row has no closure reason yet.
OpenReason == \A s \in Session : IsActive(s) => row[s].reason = "open"

Inv ==
  /\ TypeOK /\ Control /\ LockDiscipline /\ InsertsExclude /\ OpenReason
  /\ OneActivePerThread /\ KeysByCall /\ ClosedByLast /\ ReasonIsCall
  /\ JournalKeepsProject
-----------------------------------------------------------------------------
(* The invariant holds initially. *)

LEMMA InitInv == Init => Inv
<1> SUFFICES ASSUME Init PROVE Inv
  OBVIOUS
<1> USE ConstantAssumption DEF Init
<1>1. TypeOK
  BY DEF TypeOK, Row, NoRow, Statuses, Reasons, Request, Steps
<1>2. Control
  BY DEF Control
<1>3. LockDiscipline
  BY DEF LockDiscipline
<1>4. InsertsExclude
  BY DEF InsertsExclude
<1>9. OpenReason
  BY DEF OpenReason, IsActive, NoRow
<1>5. OneActivePerThread
  BY DEF OneActivePerThread, IsActive, NoRow
<1>6. KeysByCall
  BY DEF KeysByCall
<1>7. ClosedByLast
  BY DEF ClosedByLast, NoRow, IsActive, Outcome
<1>10. ReasonIsCall
  BY DEF ReasonIsCall, NoRow, Outcome
<1>8. JournalKeepsProject
  BY DEF JournalKeepsProject
<1> QED
  BY <1>1, <1>2, <1>3, <1>4, <1>5, <1>6, <1>7, <1>8, <1>9, <1>10 DEF Inv
-----------------------------------------------------------------------------
(* The writes of agent_sessions. *)

LEMMA ClosedRow ==
  ASSUME NEW r \in Row, NEW o \in Outcome, NEW why \in Reasons
  PROVE  /\ Closed(r, o, why) \in Row
         /\ Closed(r, o, why).status = o
         /\ Closed(r, o, why).reason = why
         /\ Closed(r, o, why).thread = r.thread
         /\ Closed(r, o, why).project = r.project
BY DEF Closed, Row, Statuses

LEMMA RenewedRow ==
  ASSUME NEW r \in Row, NEW t \in Nat
  PROVE  /\ Renewed(r, t) \in Row
         /\ Renewed(r, t).status = r.status
         /\ Renewed(r, t).reason = r.reason
         /\ Renewed(r, t).thread = r.thread
         /\ Renewed(r, t).project = r.project
BY DEF Renewed, Row

LEMMA ResumedRow ==
  ASSUME NEW r \in Row, NEW p \in Project, NEW d \in Nat, NEW t \in Nat
  PROVE  /\ Resumed(r, p, d, t) \in Row
         /\ Resumed(r, p, d, t).status = r.status
         /\ Resumed(r, p, d, t).reason = r.reason
         /\ Resumed(r, p, d, t).thread = r.thread
         /\ Resumed(r, p, d, t).project = IF r.project = NoProject THEN p ELSE r.project
<1> DEFINE q == IF r.project = NoProject THEN p ELSE r.project
           r1 == [r EXCEPT !.project = q]
           r2 == [r1 EXCEPT !.duration = d]
           r3 == [r2 EXCEPT !.lease = t + d]
<1>1. Resumed(r, p, d, t) = r3
  BY DEF Resumed
<1>2. r1 \in Row /\ r1.project = q /\ r1.status = r.status /\ r1.reason = r.reason /\ r1.thread = r.thread
  BY DEF Row
<1> HIDE DEF r1
<1>3. r2 \in Row /\ r2.project = r1.project /\ r2.status = r1.status /\ r2.reason = r1.reason /\ r2.thread = r1.thread
  BY <1>2 DEF Row
<1> HIDE DEF r2
<1>4. r3 \in Row /\ r3.project = r2.project /\ r3.status = r2.status /\ r3.reason = r2.reason /\ r3.thread = r2.thread
  BY <1>3 DEF Row
<1> QED
  BY <1>1, <1>2, <1>3, <1>4

-----------------------------------------------------------------------------
(* Types. *)

\* Every step keeps the types of the locks and transactions.
LEMMA TransactionsTypedStep ==
  ASSUME TransactionsTyped, Control, [Next]_vars
  PROVE  TransactionsTyped'
<1>1. CASE Tick
  BY <1>1, ConstantAssumption DEF TransactionsTyped, table, locks, transactions, Tick
<1>2. ASSUME NEW w \in Worker, NEW r \in ClientRequest \cup {SweepRequest}, Arrive(w, r)
      PROVE  TransactionsTyped'
  BY <1>2, ConstantAssumption DEF TransactionsTyped, table, locks, transactions, Arrive, Steps, GoTo, ClientRequest, StartRequest, WriteRequest, EndRequest, SweepRequest, Request
<1>3. ASSUME NEW w \in Worker, Advance(w)
      PROVE  TransactionsTyped'
  <2>1. CASE SweepSelect(w)
    BY <2>1, ConstantAssumption DEF TransactionsTyped, table, locks, transactions, SweepSelect, Sweepable, Steps, GoTo
  <2>2. CASE SweepCommit(w)
    <3>1. Release(w) /\ step' \in [Worker -> Steps]
      BY <2>2 DEF SweepCommit, Finish, GoTo, TransactionsTyped, Steps
    <3>2. req' \in [Worker -> Request] /\ now' \in [Worker -> Nat]
          /\ target' \in [Worker -> Session \cup {Nobody}] /\ clock' = clock
      <4>1. CASE Starts(w)
        BY <2>2, <4>1 DEF SweepCommit, TransactionsTyped
      <4>2. CASE ~Starts(w)
        <5>1. Finish(w) /\ clock' = clock
          BY <2>2, <4>2 DEF SweepCommit
        <5> QED
          BY <5>1 DEF Finish, TransactionsTyped, Request
      <4> QED
        BY <4>1, <4>2
    <3> QED
      BY <3>1, <3>2 DEF Release, TransactionsTyped
  <2>3. CASE StartBegin(w)
    BY <2>3, ConstantAssumption DEF TransactionsTyped, table, locks, transactions, StartBegin, Steps, GoTo, Finish, Release, Request
  <2>4. CASE Lookup(w)
    BY <2>4, ConstantAssumption DEF TransactionsTyped, table, locks, transactions, Lookup, Steps, GoTo, Finish, Release, Request, LockRow, NotFound
  <2>5. CASE Wake(w)
    BY <2>5, ConstantAssumption DEF TransactionsTyped, table, locks, transactions, Wake, Control, Steps, GoTo, Finish, Release, Request, LockRow, NotFound
  <2>6. CASE Resume(w)
    BY <2>6, ConstantAssumption DEF TransactionsTyped, table, locks, transactions, Resume, Fail, Steps, GoTo, Finish, Release, Request
  <2>7. CASE Insert(w)
    BY <2>7, ConstantAssumption DEF TransactionsTyped, table, locks, transactions, Insert, Unused, Steps, GoTo, Finish, Release, Request
  <2>8. CASE InsertCommit(w)
    BY <2>8, ConstantAssumption DEF TransactionsTyped, table, locks, transactions, InsertCommit, Steps, GoTo, Finish, Release, Request
  <2>9. CASE TakeOntologyLock(w)
    BY <2>9, ConstantAssumption DEF TransactionsTyped, table, locks, transactions, TakeOntologyLock, Steps, GoTo
  <2>10. CASE Load(w)
    BY <2>10, ConstantAssumption DEF TransactionsTyped, table, locks, transactions, Load, Control, Worker, WriteRequest, Fail, LockRow, Steps, GoTo, Finish, Release, Request
  <2>11. CASE Record(w)
    BY <2>11, ConstantAssumption DEF TransactionsTyped, table, locks, transactions, Record, Fail, Steps, GoTo, Finish, Release, Request
  <2>12. CASE Complete(w)
    BY <2>12, ConstantAssumption DEF TransactionsTyped, table, locks, transactions, Complete, Steps, GoTo, Finish, Release, Request
  <2>13. CASE Refuse(w)
    BY <2>13, ConstantAssumption DEF TransactionsTyped, table, locks, transactions, Refuse, Fail, Steps, GoTo, Finish, Release, Request
  <2>14. CASE EndCommit(w)
    BY <2>14, ConstantAssumption DEF TransactionsTyped, table, locks, transactions, EndCommit, Steps, GoTo, Finish, Release, Request
  <2>15. CASE Rollback(w)
    BY <2>15, ConstantAssumption DEF TransactionsTyped, table, locks, transactions, Rollback, Steps, GoTo, Finish, Release, Request
  <2> QED
    BY <1>3, <2>1, <2>2, <2>3, <2>4, <2>5, <2>6, <2>7, <2>8, <2>9, <2>10, <2>11, <2>12, <2>13, <2>14, <2>15 DEF Advance
<1>4. ASSUME NEW w \in Worker, Abort(w)
      PROVE  TransactionsTyped'
  BY <1>4, ConstantAssumption DEF TransactionsTyped, table, locks, transactions, Abort, Steps, GoTo, Finish, Release, Request
<1>5. CASE UNCHANGED vars
  BY <1>5, ConstantAssumption DEF TransactionsTyped, table, locks, transactions, vars
<1> QED
  BY <1>1, <1>2, <1>3, <1>4, <1>5 DEF Next, Worker

\* Only these steps write the tables.
Write(w) ==
  SweepCommit(w) \/ Resume(w) \/ InsertCommit(w) \/ Record(w) \/ Complete(w) \/ EndCommit(w)

LEMMA Writes ==
  ASSUME [Next]_vars
  PROVE  UNCHANGED table \/ \E w \in Worker : Write(w)
<1>1. CASE Tick
  BY <1>1 DEF Tick
<1>2. ASSUME NEW w \in Worker, NEW r \in ClientRequest \cup {SweepRequest}, Arrive(w, r)
      PROVE  UNCHANGED table
  BY <1>2 DEF Arrive
<1>3. ASSUME NEW w \in Worker, Advance(w)
      PROVE  UNCHANGED table \/ Write(w)
  BY <1>3 DEF Advance, Write, SweepSelect, StartBegin, Lookup, Wake, Insert,
       TakeOntologyLock, Load, Refuse, Rollback, Fail
<1>4. ASSUME NEW w \in Worker, Abort(w)
      PROVE  UNCHANGED table
  BY <1>4 DEF Abort
<1>5. CASE UNCHANGED vars
  BY <1>5 DEF vars
<1> QED
  BY <1>1, <1>2, <1>3, <1>4, <1>5 DEF Next, Worker

\* An entry appended to the log of a session under its project is typed.
LEMMA LoggedTyped ==
  ASSUME TableTyped, NEW s \in Session, NEW e \in Activity
  PROVE  Logged(s, e) \in Seq(Activity)
BY DEF Logged, TableTyped

LEMMA TableTypedStep ==
  ASSUME TableTyped, TransactionsTyped, Control, [Next]_vars
  PROVE  TableTyped'
<1>1. CASE UNCHANGED table
  BY <1>1 DEF table, TableTyped
<1>2. ASSUME NEW w \in Worker, Write(w)
      PROVE  TableTyped'
  <2> USE ConstantAssumption
  <2>1. CASE SweepCommit(w)
    <3> DEFINE V == {s \in Session : rowLock[s] = w}
    <3>1. ASSUME NEW s \in Session
          PROVE  /\ Closed(row[s], "partial", "lease_expired") \in Row
                 /\ Entry("partial", "lease-expired", row[s].project, "sweep") \in Activity
      BY ClosedRow DEF TableTyped, Outcome, Reasons, Row, Activity, Entry, SystemKey, Closer
    <3>2. row' \in [Session -> Row]
      BY <2>1, <3>1 DEF SweepCommit, TableTyped
    <3>3. log' \in [Session -> Seq(Activity)]
      BY <2>1, <3>1, LoggedTyped DEF SweepCommit, TableTyped
    <3> QED
      BY <3>2, <3>3 DEF TableTyped
  <2>2. CASE Resume(w)
    <3> DEFINE s == target[w]
    <3>1. s \in Session /\ row[s] \in Row /\ now[w] \in Nat
      BY <2>2 DEF Resume, Control, TableTyped, TransactionsTyped
    <3>2. \A p \in Project, d \in Duration : Resumed(row[s], p, d, now[w]) \in Row
      BY <3>1, ResumedRow
    <3>3. \/ UNCHANGED table
          \/ /\ UNCHANGED log
             /\ \E p \in Project, d \in Duration :
                  row' = [row EXCEPT ![s] = Resumed(row[s], p, d, now[w])]
      BY <2>2 DEF Resume, Fail
    <3> HIDE DEF s
    <3>4. ASSUME NEW p \in Project, NEW d \in Duration, UNCHANGED log,
                 row' = [row EXCEPT ![s] = Resumed(row[s], p, d, now[w])]
          PROVE  TableTyped'
      BY <3>1, <3>2, <3>4 DEF TableTyped
    <3> QED
      BY <3>3, <3>4 DEF TableTyped, table
  <2>3. CASE InsertCommit(w)
    <3>1. PICK p \in Project, d \in Duration :
            /\ row' = [row EXCEPT ![target[w]] =
                    [status |-> "active", thread |-> req[w].thread, project |-> p,
                     duration |-> d, lease |-> now[w] + d, reason |-> "open"]]
            /\ log' = [log EXCEPT ![target[w]] = <<Entry("intent.captured", "none", p, "start")>>]
      BY <2>3 DEF InsertCommit
    <3>2. req[w].thread \in Thread
      BY <2>3 DEF InsertCommit, Control, StartRequest
    <3>3. [status |-> "active", thread |-> req[w].thread, project |-> p,
           duration |-> d, lease |-> now[w] + d, reason |-> "open"] \in Row
      BY <3>2 DEF TransactionsTyped, Row, Statuses, Reasons
    <3>4. Entry("intent.captured", "none", p, "start") \in Activity
      BY DEF Entry, Activity, SystemKey, Closer
    <3>5. <<Entry("intent.captured", "none", p, "start")>> \in Seq(Activity)
      BY <3>4
    <3> QED
      BY <3>1, <3>3, <3>5 DEF TableTyped
  <2>4. CASE Record(w)
    <3> DEFINE s == target[w]
    <3>1. s \in Session /\ row[s] \in Row /\ row[s].project \in Project \cup {NoProject}
      BY <2>4 DEF Record, Control, TableTyped, Row
    <3>2. \A k \in Key, type \in ClientType : Entry(type, k, row[s].project, "record") \in Activity
      BY <3>1 DEF Entry, Activity, Closer
    <3>3. Renewed(row[s], now[w]) \in Row
      BY <3>1, RenewedRow DEF TransactionsTyped
    <3>4. \/ UNCHANGED table
          \/ \E k \in Key, type \in ClientType :
               /\ row' = [row EXCEPT ![s] = Renewed(row[s], now[w])]
               /\ log' = [log EXCEPT ![s] = Logged(s, Entry(type, k, row[s].project, "record"))]
      BY <2>4 DEF Record, Fail
    <3> HIDE DEF s
    <3>5. ASSUME NEW k \in Key, NEW type \in ClientType,
                 row' = [row EXCEPT ![s] = Renewed(row[s], now[w])],
                 log' = [log EXCEPT ![s] = Logged(s, Entry(type, k, row[s].project, "record"))]
          PROVE  TableTyped'
      BY <3>1, <3>2, <3>3, <3>5, LoggedTyped DEF TableTyped
    <3> QED
      BY <3>4, <3>5 DEF TableTyped, table
  <2>5. CASE Complete(w)
    <3> DEFINE s == target[w]
    <3>1. s \in Session /\ row[s] \in Row /\ row[s].project \in Project \cup {NoProject}
      BY <2>5 DEF Complete, Control, TableTyped, Row
    <3>2. \A o \in ClientOutcome :
            /\ Entry(o, "none", row[s].project, "complete") \in Activity
            /\ Closed(Renewed(row[s], now[w]), o, "explicit_completion") \in Row
      BY <3>1, ClosedRow, RenewedRow DEF Entry, Activity, SystemKey, Closer, TransactionsTyped, Reasons
    <3> QED
      BY <2>5, <3>1, <3>2, LoggedTyped DEF Complete, TableTyped, table
  <2>6. CASE EndCommit(w)
    <3> DEFINE s == target[w]
    <3>1. s \in Session /\ row[s] \in Row /\ row[s].project \in Project \cup {NoProject}
      BY <2>6 DEF EndCommit, Control, TableTyped, Row
    <3>2. /\ Entry("partial", "client-session-end", row[s].project, "end") \in Activity
          /\ Closed(row[s], "partial", "client_session_end") \in Row
      BY <3>1, ClosedRow DEF Entry, Activity, SystemKey, Closer, Outcome, Reasons
    <3> QED
      BY <2>6, <3>1, <3>2, LoggedTyped DEF EndCommit, TableTyped, table
  <2> QED
    BY <1>2, <2>1, <2>2, <2>3, <2>4, <2>5, <2>6 DEF Write
<1> QED
  BY <1>1, <1>2, Writes

-----------------------------------------------------------------------------
(* The steps of a transaction serve its request. *)

LEMMA ControlStep ==
  ASSUME TransactionsTyped, Control, [Next]_vars
  PROVE  Control'
<1>1. CASE Tick
  BY <1>1, ConstantAssumption DEF TransactionsTyped, Control, table, locks, transactions, Tick
<1>2. ASSUME NEW w \in Worker, NEW r \in ClientRequest \cup {SweepRequest}, Arrive(w, r)
      PROVE  Control'
  BY <1>2, ConstantAssumption DEF TransactionsTyped, Control, table, locks, transactions, Arrive, GoTo, ClientRequest, StartRequest, WriteRequest, EndRequest, SweepRequest
<1>3. ASSUME NEW w \in Worker, Advance(w)
      PROVE  Control'
  <2>1. CASE SweepSelect(w)
    BY <2>1, ConstantAssumption DEF TransactionsTyped, Control, table, locks, transactions, SweepSelect, GoTo
  <2>2. CASE SweepCommit(w)
    <3>1. CASE Starts(w)
      BY <2>2, <3>1 DEF SweepCommit, GoTo, Starts, SweepRequest, Control, TransactionsTyped
    <3>2. CASE ~Starts(w)
      <4>1. Finish(w)
        BY <2>2, <3>2 DEF SweepCommit
      <4> QED
        BY <4>1 DEF Finish, GoTo, Control, TransactionsTyped
    <3> QED
      BY <3>1, <3>2
  <2>3. CASE StartBegin(w)
    BY <2>3, ConstantAssumption DEF TransactionsTyped, Control, table, locks, transactions, StartBegin, GoTo, Finish, StartRequest, EndRequest
  <2>4. CASE Lookup(w)
    BY <2>4, ConstantAssumption DEF TransactionsTyped, Control, table, locks, transactions, Lookup, GoTo, Finish, LockRow, NotFound, Starts, EndRequest, StartRequest
  <2>5. CASE Wake(w)
    BY <2>5, ConstantAssumption DEF TransactionsTyped, Control, table, locks, transactions, Wake, GoTo, Finish, LockRow, NotFound, Starts, EndRequest, StartRequest
  <2>6. CASE Resume(w)
    BY <2>6, ConstantAssumption DEF TransactionsTyped, Control, table, locks, transactions, Resume, Fail, GoTo, Finish
  <2>7. CASE Insert(w)
    BY <2>7, ConstantAssumption DEF TransactionsTyped, Control, table, locks, transactions, Insert, GoTo, Finish, Unused
  <2>8. CASE InsertCommit(w)
    BY <2>8, ConstantAssumption DEF TransactionsTyped, Control, table, locks, transactions, InsertCommit, GoTo, Finish
  <2>9. CASE TakeOntologyLock(w)
    BY <2>9, ConstantAssumption DEF TransactionsTyped, Control, table, locks, transactions, TakeOntologyLock, GoTo
  <2>10. CASE Load(w)
    BY <2>10, ConstantAssumption DEF TransactionsTyped, Control, table, locks, transactions, Load, Fail, GoTo, Finish, LockRow, WriteRequest
  <2>11. CASE Record(w)
    BY <2>11, ConstantAssumption DEF TransactionsTyped, Control, table, locks, transactions, Record, Fail, GoTo, Finish
  <2>12. CASE Complete(w)
    BY <2>12, ConstantAssumption DEF TransactionsTyped, Control, table, locks, transactions, Complete, GoTo, Finish
  <2>13. CASE Refuse(w)
    BY <2>13, ConstantAssumption DEF TransactionsTyped, Control, table, locks, transactions, Refuse, Fail, GoTo, Finish
  <2>14. CASE EndCommit(w)
    BY <2>14, ConstantAssumption DEF TransactionsTyped, Control, table, locks, transactions, EndCommit, GoTo, Finish
  <2>15. CASE Rollback(w)
    BY <2>15, ConstantAssumption DEF TransactionsTyped, Control, table, locks, transactions, Rollback, GoTo, Finish
  <2> QED
    BY <1>3, <2>1, <2>2, <2>3, <2>4, <2>5, <2>6, <2>7, <2>8, <2>9, <2>10, <2>11, <2>12, <2>13, <2>14, <2>15 DEF Advance
<1>4. ASSUME NEW w \in Worker, Abort(w)
      PROVE  Control'
  BY <1>4, ConstantAssumption DEF TransactionsTyped, Control, table, locks, transactions, Abort, GoTo, Finish
<1>5. CASE UNCHANGED vars
  BY <1>5, ConstantAssumption DEF TransactionsTyped, Control, table, locks, transactions, vars
<1> QED
  BY <1>1, <1>2, <1>3, <1>4, <1>5 DEF Next, Worker

-----------------------------------------------------------------------------
(* Locks. *)

LEMMA LockDisciplineStep ==
  ASSUME TableTyped, TransactionsTyped, Control, LockDiscipline, InsertsExclude, [Next]_vars
  PROVE  LockDiscipline'
<1>1. CASE Tick
  BY <1>1, ConstantAssumption DEF TransactionsTyped, Control, LockDiscipline, IsActive, Expired, table, locks, transactions, Tick
<1>2. ASSUME NEW w \in Worker, NEW r \in ClientRequest \cup {SweepRequest}, Arrive(w, r)
      PROVE  LockDiscipline'
  BY <1>2, ConstantAssumption DEF TransactionsTyped, Control, LockDiscipline, IsActive, Expired, table, locks, transactions, Arrive, GoTo, ClientRequest, StartRequest, WriteRequest, EndRequest, SweepRequest
<1>3. ASSUME NEW w \in Worker, Advance(w)
      PROVE  LockDiscipline'
  <2>1. CASE SweepSelect(w)
    BY <2>1, ConstantAssumption DEF TransactionsTyped, Control, LockDiscipline, IsActive, Expired, table, locks, transactions, SweepSelect, GoTo, Sweepable
  <2>2. CASE SweepCommit(w)
    BY <2>2, ConstantAssumption DEF TransactionsTyped, Control, LockDiscipline, IsActive, Expired, table, locks, transactions, SweepCommit, Release, GoTo, Finish
  <2>3. CASE StartBegin(w)
    BY <2>3, ConstantAssumption DEF TransactionsTyped, Control, LockDiscipline, IsActive, Expired, table, locks, transactions, StartBegin, Release, GoTo, Finish
  <2>4. CASE Lookup(w)
    BY <2>4, ConstantAssumption DEF TransactionsTyped, Control, LockDiscipline, IsActive, Expired, table, locks, transactions, Lookup, Release, GoTo, Finish, LockRow, NotFound
  <2>5. CASE Wake(w)
    BY <2>5, ConstantAssumption DEF TransactionsTyped, Control, LockDiscipline, IsActive, Expired, table, locks, transactions, Wake, Release, GoTo, Finish, LockRow, NotFound
  <2>6. CASE Resume(w)
    <3>1. Finish(w) /\ clock' = clock /\ target[w] \in Session
      BY <2>6 DEF Resume, Fail, Control
    <3>2. \A r \in Session : r # target[w] => row'[r] = row[r]
      BY <2>6 DEF Resume, Fail, table, TableTyped
    <3>3. rowLock[target[w]] \in {w, Nobody} \/ ~IsActive(target[w])
      BY <2>6 DEF Resume, Control, LockDiscipline
    <3> QED
      BY <3>1, <3>2, <3>3, ConstantAssumption
        DEF TransactionsTyped, Control, LockDiscipline, IsActive, Expired, Finish, Release, GoTo
  <2>7. CASE Insert(w)
    BY <2>7, ConstantAssumption DEF TransactionsTyped, Control, LockDiscipline, IsActive, Expired, table, locks, transactions, Insert, Release, GoTo, Finish, Unused
  <2>8. CASE InsertCommit(w)
    <3>1. Finish(w) /\ clock' = clock /\ target[w] \in Session
      BY <2>8 DEF InsertCommit, Fail, Control
    <3>2. \A r \in Session : r # target[w] => row'[r] = row[r]
      BY <2>8 DEF InsertCommit, Fail, table, TableTyped
    <3>3. rowLock[target[w]] \in {w, Nobody} \/ ~IsActive(target[w])
      BY <2>8 DEF InsertCommit, Control, LockDiscipline, InsertsExclude, IsActive
    <3> QED
      BY <3>1, <3>2, <3>3, ConstantAssumption
        DEF TransactionsTyped, Control, LockDiscipline, IsActive, Expired, Finish, Release, GoTo
  <2>9. CASE TakeOntologyLock(w)
    BY <2>9, ConstantAssumption DEF TransactionsTyped, Control, LockDiscipline, IsActive, Expired, table, locks, transactions, TakeOntologyLock, GoTo
  <2>10. CASE Load(w)
    BY <2>10, ConstantAssumption DEF TransactionsTyped, Control, LockDiscipline, IsActive, Expired, table, locks, transactions, Load, Release, Fail, GoTo, Finish, LockRow, WriteRequest
  <2>11. CASE Record(w)
    <3>1. Finish(w) /\ clock' = clock /\ target[w] \in Session
      BY <2>11 DEF Record, Fail, Control
    <3>2. \A r \in Session : r # target[w] => row'[r] = row[r]
      BY <2>11 DEF Record, Fail, table, TableTyped
    <3>3. rowLock[target[w]] \in {w, Nobody} \/ ~IsActive(target[w])
      BY <2>11 DEF Record, Control, LockDiscipline
    <3> QED
      BY <3>1, <3>2, <3>3, ConstantAssumption
        DEF TransactionsTyped, Control, LockDiscipline, IsActive, Expired, Finish, Release, GoTo
  <2>12. CASE Complete(w)
    BY <2>12, ConstantAssumption DEF TransactionsTyped, Control, LockDiscipline, IsActive, Expired, table, locks, transactions, Complete, Release, GoTo, Finish
  <2>13. CASE Refuse(w)
    BY <2>13, ConstantAssumption DEF TransactionsTyped, Control, LockDiscipline, IsActive, Expired, table, locks, transactions, Refuse, Release, Fail, GoTo, Finish
  <2>14. CASE EndCommit(w)
    BY <2>14, ConstantAssumption DEF TransactionsTyped, Control, LockDiscipline, IsActive, Expired, table, locks, transactions, EndCommit, Release, GoTo, Finish
  <2>15. CASE Rollback(w)
    BY <2>15, ConstantAssumption DEF TransactionsTyped, Control, LockDiscipline, IsActive, Expired, table, locks, transactions, Rollback, Release, GoTo, Finish
  <2> QED
    BY <1>3, <2>1, <2>2, <2>3, <2>4, <2>5, <2>6, <2>7, <2>8, <2>9, <2>10, <2>11, <2>12, <2>13, <2>14, <2>15 DEF Advance
<1>4. ASSUME NEW w \in Worker, Abort(w)
      PROVE  LockDiscipline'
  BY <1>4, ConstantAssumption DEF TransactionsTyped, Control, LockDiscipline, IsActive, Expired, table, locks, transactions, Abort, Release, GoTo, Finish
<1>5. CASE UNCHANGED vars
  BY <1>5, ConstantAssumption DEF TransactionsTyped, Control, LockDiscipline, IsActive, Expired, table, locks, transactions, vars
<1> QED
  BY <1>1, <1>2, <1>3, <1>4, <1>5 DEF Next, Worker

-----------------------------------------------------------------------------
(* What a write does to rows and transactions, whichever write it is. *)

Frame(w) ==
  /\ \A v \in Worker \ {w} : /\ step'[v] = step[v] /\ req'[v] = req[v]
                             /\ target'[v] = target[v]
  /\ step'[w] # "inserted"
  /\ \A s \in Session :
       \/ row'[s] = row[s]
       \/ /\ IsActive(s)
          /\ row'[s].status # "none"
          /\ row'[s].thread = row[s].thread
       \/ step[w] = "inserted" /\ s = target[w] /\ row'[s].thread = req[w].thread

LEMMA WriteFrame ==
  ASSUME TableTyped, TransactionsTyped, Control, LockDiscipline,
         NEW w \in Worker, Write(w)
  PROVE  Frame(w)
<1> USE ConstantAssumption
<1>1. ASSUME Finish(w)
      PROVE  /\ \A v \in Worker \ {w} : /\ step'[v] = step[v] /\ req'[v] = req[v]
                                        /\ target'[v] = target[v]
             /\ step'[w] # "inserted"
  BY <1>1 DEF Finish, GoTo, TransactionsTyped
<1>2. ASSUME step[w] \in {"locked", "loaded"}
      PROVE  target[w] \in Session /\ IsActive(target[w]) /\ row[target[w]] \in Row
             /\ now[w] \in Nat
  BY <1>2 DEF Control, LockDiscipline, TableTyped, TransactionsTyped
<1>3. CASE SweepCommit(w)
  <2>1. /\ \A v \in Worker \ {w} : /\ step'[v] = step[v] /\ req'[v] = req[v]
                                   /\ target'[v] = target[v]
        /\ step'[w] # "inserted"
    BY <1>1, <1>3 DEF SweepCommit, GoTo, TransactionsTyped
  <2>2. ASSUME NEW s \in Session, row'[s] # row[s]
        PROVE  IsActive(s) /\ row'[s] = Closed(row[s], "partial", "lease_expired")
    BY <1>3, <2>2 DEF SweepCommit, LockDiscipline
  <2>3. \A s \in Session : LET r == Closed(row[s], "partial", "lease_expired") IN
          r.status = "partial" /\ r.thread = row[s].thread
    BY ClosedRow DEF TableTyped, Outcome, Reasons
  <2> QED
    BY <2>1, <2>2, <2>3 DEF Frame
<1>4. CASE Resume(w)
  <2> DEFINE s == target[w]
  <2>1. Finish(w)
    BY <1>4 DEF Resume, Fail
  <2>2. \/ row' = row
        \/ \E p \in Project, d \in Duration :
             row' = [row EXCEPT ![s] = Resumed(row[s], p, d, now[w])]
    BY <1>4 DEF Resume, Fail, table
  <2>3. s \in Session /\ IsActive(s) /\ row[s] \in Row /\ now[w] \in Nat
    BY <1>2, <1>4 DEF Resume
  <2>4. \A p \in Project, d \in Duration : LET r == Resumed(row[s], p, d, now[w]) IN
          r.status = row[s].status /\ r.thread = row[s].thread
    <3> SUFFICES ASSUME NEW p \in Project, NEW d \in Duration
                 PROVE  /\ Resumed(row[s], p, d, now[w]).status = row[s].status
                        /\ Resumed(row[s], p, d, now[w]).thread = row[s].thread
      OBVIOUS
    <3>1. d \in Nat
      OBVIOUS
    <3> QED
      BY <2>3, <3>1, ResumedRow
  <2> QED
    BY <1>1, <2>1, <2>2, <2>3, <2>4 DEF Frame, IsActive, TableTyped
<1>5. CASE InsertCommit(w)
  <2>1. Finish(w) /\ step[w] = "inserted" /\ target[w] \in Session
    BY <1>5 DEF InsertCommit, Control
  <2>2. \A s \in Session \ {target[w]} : row'[s] = row[s]
    BY <1>5 DEF InsertCommit, TableTyped
  <2>3. row'[target[w]].thread = req[w].thread
    BY <1>5, <2>1 DEF InsertCommit, TableTyped
  <2> QED
    BY <1>1, <2>1, <2>2, <2>3 DEF Frame
<1>6. CASE Record(w)
  <2> DEFINE s == target[w]
  <2>1. Finish(w) /\ (row' = row \/ row' = [row EXCEPT ![s] = Renewed(row[s], now[w])])
    BY <1>6 DEF Record, Fail, table
  <2>2. s \in Session /\ IsActive(s) /\ row[s] \in Row /\ now[w] \in Nat
    BY <1>2, <1>6 DEF Record
  <2>3. /\ Renewed(row[s], now[w]).status = row[s].status
        /\ Renewed(row[s], now[w]).thread = row[s].thread
    BY <2>2, RenewedRow
  <2> QED
    BY <1>1, <2>1, <2>2, <2>3 DEF Frame, IsActive, TableTyped
<1>7. CASE Complete(w)
  <2> DEFINE s == target[w]
             closed(o) == Closed(Renewed(row[s], now[w]), o, "explicit_completion")
  <2>1. Finish(w) /\ \E o \in ClientOutcome : row' = [row EXCEPT ![s] = closed(o)]
    BY <1>7 DEF Complete
  <2>2. s \in Session /\ IsActive(s) /\ row[s] \in Row /\ now[w] \in Nat
    BY <1>2, <1>7 DEF Complete
  <2>3. ASSUME NEW o \in ClientOutcome
        PROVE  closed(o).status \in Outcome /\ closed(o).thread = row[s].thread
    <3>1. Renewed(row[s], now[w]) \in Row /\ Renewed(row[s], now[w]).thread = row[s].thread
      BY <2>2, RenewedRow
    <3>2. o \in Outcome /\ "explicit_completion" \in Reasons
      BY DEF Reasons
    <3> QED
      BY <3>1, <3>2, ClosedRow
  <2> HIDE DEF closed
  <2> QED
    BY <1>1, <2>1, <2>2, <2>3 DEF Frame, TableTyped, Outcome
<1>8. CASE EndCommit(w)
  <2> DEFINE s == target[w]
  <2>1. Finish(w) /\ row' = [row EXCEPT ![s] = Closed(row[s], "partial", "client_session_end")]
    BY <1>8 DEF EndCommit
  <2>2. s \in Session /\ IsActive(s) /\ row[s] \in Row /\ now[w] \in Nat
    BY <1>2, <1>8 DEF EndCommit
  <2>3. LET r == Closed(row[s], "partial", "client_session_end") IN
          r.status = "partial" /\ r.thread = row[s].thread
    BY <2>2, ClosedRow DEF Outcome, Reasons
  <2> QED
    BY <1>1, <2>1, <2>2, <2>3 DEF Frame, TableTyped
<1> QED
  BY <1>3, <1>4, <1>5, <1>6, <1>7, <1>8 DEF Write

\* Nothing else moves an uncommitted insert.
LEMMA InsertedStays ==
  ASSUME TransactionsTyped, Control, \A w \in Worker : ~Insert(w) /\ ~Write(w), [Next]_vars
  PROVE  \A v \in Worker : step'[v] = "inserted" =>
           step[v] = "inserted" /\ req'[v] = req[v] /\ target'[v] = target[v]
<1>1. CASE Tick
  BY <1>1, ConstantAssumption DEF TransactionsTyped, locks, transactions, table, Tick
<1>2. ASSUME NEW w \in Worker, NEW r \in ClientRequest \cup {SweepRequest}, Arrive(w, r)
      PROVE  \A v \in Worker : step'[v] = "inserted" =>
           step[v] = "inserted" /\ req'[v] = req[v] /\ target'[v] = target[v]
  BY <1>2, ConstantAssumption DEF TransactionsTyped, locks, transactions, table, Arrive, GoTo, ClientRequest, StartRequest, WriteRequest, EndRequest, SweepRequest
<1>3. ASSUME NEW w \in Worker, Advance(w)
      PROVE  \A v \in Worker : step'[v] = "inserted" =>
           step[v] = "inserted" /\ req'[v] = req[v] /\ target'[v] = target[v]
  <2>1. CASE SweepSelect(w)
    BY <2>1, ConstantAssumption DEF TransactionsTyped, locks, transactions, table, SweepSelect, GoTo, Finish
  <2>2. CASE SweepCommit(w)
    BY <2>2 DEF Write
  <2>3. CASE StartBegin(w)
    BY <2>3, ConstantAssumption DEF TransactionsTyped, locks, transactions, table, StartBegin, GoTo, Finish
  <2>4. CASE Lookup(w)
    BY <2>4, ConstantAssumption DEF TransactionsTyped, locks, transactions, table, Lookup, GoTo, Finish, NotFound, LockRow
  <2>5. CASE Wake(w)
    BY <2>5, ConstantAssumption DEF TransactionsTyped, locks, transactions, table, Wake, GoTo, Finish, NotFound, LockRow
  <2>6. CASE Resume(w)
    BY <2>6 DEF Write
  <2>7. CASE Insert(w)
    BY <2>7
  <2>8. CASE InsertCommit(w)
    BY <2>8 DEF Write
  <2>9. CASE TakeOntologyLock(w)
    BY <2>9, ConstantAssumption DEF TransactionsTyped, locks, transactions, table, TakeOntologyLock, GoTo, Finish
  <2>10. CASE Load(w)
    BY <2>10, ConstantAssumption DEF TransactionsTyped, locks, transactions, table, Load, Fail, LockRow, GoTo, Finish
  <2>11. CASE Record(w)
    BY <2>11 DEF Write
  <2>12. CASE Complete(w)
    BY <2>12 DEF Write
  <2>13. CASE Refuse(w)
    BY <2>13, ConstantAssumption DEF TransactionsTyped, locks, transactions, table, Refuse, Fail, GoTo, Finish
  <2>14. CASE EndCommit(w)
    BY <2>14 DEF Write
  <2>15. CASE Rollback(w)
    BY <2>15, ConstantAssumption DEF TransactionsTyped, locks, transactions, table, Rollback, GoTo, Finish
  <2> QED
    BY <1>3, <2>1, <2>2, <2>3, <2>4, <2>5, <2>6, <2>7, <2>8, <2>9, <2>10, <2>11, <2>12, <2>13, <2>14, <2>15 DEF Advance
<1>4. ASSUME NEW w \in Worker, Abort(w)
      PROVE  \A v \in Worker : step'[v] = "inserted" =>
           step[v] = "inserted" /\ req'[v] = req[v] /\ target'[v] = target[v]
  BY <1>4, ConstantAssumption DEF TransactionsTyped, locks, transactions, table, Abort, GoTo, Finish
<1>5. CASE UNCHANGED vars
  BY <1>5, ConstantAssumption DEF TransactionsTyped, locks, transactions, table, vars
<1> QED
  BY <1>1, <1>2, <1>3, <1>4, <1>5 DEF Next, Worker

\* The uncommitted inserts go on excluding each other and active rows.
LEMMA InsertsExcludeStep ==
  ASSUME TableTyped, TransactionsTyped, Control, LockDiscipline, InsertsExclude, [Next]_vars
  PROVE  InsertsExclude'
<1>1. ASSUME NEW w \in Worker, Write(w)
      PROVE  InsertsExclude'
  <2>1. Frame(w)
    BY <1>1, WriteFrame
  <2>2. ASSUME NEW v \in Worker, step'[v] = "inserted"
        PROVE  v # w /\ step[v] = "inserted" /\ req'[v] = req[v] /\ target'[v] = target[v]
               /\ target[v] \in Session
    BY <2>1, <2>2 DEF Frame, Control
  <2>3. ASSUME NEW v \in Worker, step'[v] = "inserted"
        PROVE  row'[target'[v]].status = "none"
    BY <2>1, <2>2, <2>3 DEF Frame, InsertsExclude, IsActive
  <2>4. ASSUME NEW v \in Worker, step'[v] = "inserted", NEW s \in Session,
               IsActive(s)', row'[s].thread = req'[v].thread
        PROVE  req'[v].thread = NoThread
    BY <2>1, <2>2, <2>4 DEF Frame, InsertsExclude, IsActive
  <2>5. ASSUME NEW u \in Worker, NEW v \in Worker, u # v,
               step'[u] = "inserted", step'[v] = "inserted"
        PROVE  target'[u] # target'[v] /\ (req'[u].thread = req'[v].thread
                                             => req'[v].thread = NoThread)
    BY <2>2, <2>5 DEF InsertsExclude
  <2> QED
    BY <2>3, <2>4, <2>5 DEF InsertsExclude
<1>2. ASSUME UNCHANGED table, NEW w \in Worker, Insert(w)
      PROVE  InsertsExclude'
  BY <1>2 DEF Insert, InsertsExclude, Unused, IndexWaits, IndexRejects, IsActive, GoTo,
       Finish, TransactionsTyped, table, locks
<1>3. ASSUME UNCHANGED table, \A w \in Worker : ~Insert(w) /\ ~Write(w)
      PROVE  InsertsExclude'
  <2>1. \A v \in Worker : step'[v] = "inserted" =>
               step[v] = "inserted" /\ req'[v] = req[v] /\ target'[v] = target[v]
    BY <1>3, InsertedStays
  <2> QED
    BY <1>3, <2>1 DEF InsertsExclude, IsActive, table
<1> QED
  BY <1>1, <1>2, <1>3, Writes

-----------------------------------------------------------------------------
(* Every step is a step of the contract, or changes nothing it can see. *)

LEMMA NoClosingEntry ==
  ASSUME TableTyped, KeysByCall, ClosedByLast, NEW s \in Session, IsActive(s)
  PROVE  ~HasEntry(s, "lease-expired") /\ ~HasEntry(s, "client-session-end")
<1>1. ASSUME NEW i \in DOMAIN log[s]
      PROVE  log[s][i].key \in Key \cup {"none"}
  <2>1. log[s][i] \in Activity
    BY DEF TableTyped
  <2>2. log[s][i].by \in {"start", "record"}
    BY <2>1 DEF ClosedByLast, Activity
  <2> QED
    BY <2>2 DEF KeysByCall
<1> QED
  BY <1>1, ConstantAssumption DEF HasEntry, SystemKey

\* The parts of a row and a log that the contract sees.
Same(s) ==
  /\ row'[s].status = row[s].status
  /\ row'[s].thread = row[s].thread
  /\ row'[s].project = row[s].project
  /\ log'[s] = log[s]

LEMMA SameIsStutter ==
  ASSUME TableTyped, TableTyped', \A s \in Session : Same(s)
  PROVE  UNCHANGED Contract!contractVars
<1>1. statusOf' = statusOf /\ threadOf' = threadOf /\ projectOf' = projectOf
  BY DEF Same, statusOf, threadOf, projectOf
<1>2. log' = log
  BY DEF Same, TableTyped
<1> QED
  BY <1>1, <1>2 DEF Contract!contractVars

LEMMA CloseStep ==
  ASSUME TableTyped, TableTyped', NEW S \in SUBSET Session, S # {}, NEW o \in Outcome, NEW k \in SystemKey,
         NEW by \in Closer,
         \A s \in S : /\ IsActive(s)
                      /\ row'[s].status = o
                      /\ row'[s].thread = row[s].thread
                      /\ row'[s].project = row[s].project
                      /\ log'[s] = Append(log[s], Entry(o, k, row[s].project, by)),
         \A s \in Session \ S : Same(s)
  PROVE  Contract!Next
<1>1. statusOf' = [s \in Session |-> IF s \in S THEN o ELSE statusOf[s]]
  BY DEF Same, statusOf
<1>2. threadOf' = threadOf /\ projectOf' = projectOf
  BY DEF Same, threadOf, projectOf
<1>3. log' = [s \in Session |->
                IF s \in S THEN Append(log[s], Contract!Entry(o, k, projectOf[s], by))
                           ELSE log[s]]
  BY DEF Same, TableTyped, projectOf, Entry, Contract!Entry
<1>4. \A s \in S : Contract!IsOpen(s)
  BY DEF Contract!IsOpen, statusOf, IsActive
<1>5. Contract!Close(S, o)
  BY <1>1, <1>2, <1>3, <1>4 DEF Contract!Close
<1> QED
  BY <1>5 DEF Contract!Next

LEMMA ContractStep ==
  ASSUME Inv, [Next]_vars
  PROVE  [Contract!Next]_(Contract!contractVars)
<1> USE ConstantAssumption DEF Inv
<1>0. TableTyped /\ TransactionsTyped /\ TableTyped'
  BY TableTypedStep DEF TypeOK, TableTyped, TransactionsTyped
<1>1. CASE UNCHANGED table
  <2>1. \A s \in Session : Same(s)
    BY <1>1 DEF table, Same
  <2> QED
    BY <2>1, <1>0, SameIsStutter
<1>2. ASSUME NEW w \in Worker, SweepCommit(w)
      PROVE  [Contract!Next]_(Contract!contractVars)
  <2> DEFINE V == {s \in Session : rowLock[s] = w}
  <2>1. ASSUME NEW s \in Session \ V
        PROVE  Same(s)
    BY <1>2 DEF SweepCommit, Same
  <2>2. ASSUME NEW s \in V
        PROVE  /\ IsActive(s)
               /\ row'[s].status = "partial"
               /\ row'[s].thread = row[s].thread
               /\ row'[s].project = row[s].project
               /\ log'[s] = Append(log[s], Entry("partial", "lease-expired", row[s].project, "sweep"))
    <3>1. IsActive(s) /\ row[s] \in Row
      BY <1>0 DEF LockDiscipline, TableTyped
    <3>2. row'[s] = Closed(row[s], "partial", "lease_expired")
      BY <1>2 DEF SweepCommit
    <3>3. log'[s] = Logged(s, Entry("partial", "lease-expired", row[s].project, "sweep"))
      BY <1>2 DEF SweepCommit
    <3>4. ~HasEntry(s, "lease-expired")
      BY <1>0, <3>1, NoClosingEntry
    <3> QED
      BY <3>1, <3>2, <3>3, <3>4, ClosedRow DEF Logged, Entry, Outcome, Reasons
  <2>3. CASE V = {}
    BY <2>1, <2>3, <1>0, SameIsStutter
  <2>4. CASE V # {}
    <3>1. "partial" \in Outcome /\ "lease-expired" \in SystemKey /\ "sweep" \in Closer
      BY DEF Outcome, SystemKey, Closer
    <3>2. V \in SUBSET Session
      OBVIOUS
    <3> HIDE DEF V
    <3> QED
      BY <2>1, <2>2, <2>4, <3>1, <3>2, <1>0, CloseStep
  <2> QED
    BY <2>3, <2>4
<1>3. ASSUME NEW w \in Worker, step[w] \in {"locked", "loaded"}
      PROVE  /\ target[w] \in Session
             /\ IsActive(target[w])
             /\ row[target[w]] \in Row
             /\ row[target[w]].project \in Project \cup {NoProject}
             /\ now[w] \in Nat
  BY <1>0, <1>3 DEF Control, LockDiscipline, TableTyped, TransactionsTyped, Row
<1>4. ASSUME NEW w \in Worker, Resume(w)
      PROVE  [Contract!Next]_(Contract!contractVars)
  <2> DEFINE s == target[w]
  <2>1. CASE UNCHANGED table
    BY <1>1, <2>1
  <2>2. ASSUME NEW p \in Project, NEW d \in Duration, UNCHANGED log,
               row' = [row EXCEPT ![s] = Resumed(row[s], p, d, now[w])]
        PROVE  [Contract!Next]_(Contract!contractVars)
    <3>1. /\ s \in Session /\ IsActive(s) /\ row[s] \in Row /\ now[w] \in Nat
      BY <1>3, <1>4 DEF Resume
    <3>2. \A r \in Session \ {s} : Same(r)
      BY <1>0, <2>2 DEF Same, TableTyped
    <3>3. /\ row'[s].status = row[s].status
          /\ row'[s].thread = row[s].thread
          /\ row'[s].project = IF row[s].project = NoProject THEN p ELSE row[s].project
          /\ log'[s] = log[s]
      <4> DEFINE r == Resumed(row[s], p, d, now[w])
      <4>1. /\ r.status = row[s].status
            /\ r.thread = row[s].thread
            /\ r.project = IF row[s].project = NoProject THEN p ELSE row[s].project
        <5>1. d \in Nat
          OBVIOUS
        <5>2. r.status = row[s].status /\ r.thread = row[s].thread
          BY <3>1, <5>1, ResumedRow
        <5>3. CASE row[s].project = NoProject
          BY <3>1, <5>1, <5>3, ResumedRow
        <5>4. CASE row[s].project # NoProject
          BY <3>1, <5>1, <5>4, ResumedRow
        <5> QED
          BY <5>2, <5>3, <5>4
      <4> QED
        BY <1>0, <2>2, <3>1, <4>1 DEF TableTyped
    <3>4. CASE row[s].project # NoProject \/ p = NoProject
      <4>1. \A r \in Session : Same(r)
        BY <3>2, <3>3, <3>4 DEF Same
      <4> QED
        BY <4>1, <1>0, SameIsStutter
    <3>5. CASE row[s].project = NoProject /\ p # NoProject
      <4> HIDE DEF s
      <4>2. projectOf' = [projectOf EXCEPT ![s] = p]
        BY <3>1, <3>2, <3>3, <3>5 DEF projectOf, Same
      <4>3. statusOf' = statusOf /\ threadOf' = threadOf
        BY <3>1, <3>2, <3>3 DEF statusOf, threadOf, Same
      <4>4. Contract!IsOpen(s) /\ projectOf[s] = NoProject
        BY <3>1, <3>5 DEF Contract!IsOpen, statusOf, projectOf, IsActive
      <4>1. Contract!Adopt(s, p)
        BY <2>2, <4>2, <4>3, <4>4 DEF Contract!Adopt
      <4> QED
        BY <3>1, <4>1 DEF Contract!Next
    <3> QED
      BY <3>4, <3>5
  <2> QED
    BY <1>4, <2>1, <2>2 DEF Resume, Fail
<1>5. ASSUME NEW w \in Worker, InsertCommit(w)
      PROVE  [Contract!Next]_(Contract!contractVars)
  <2> DEFINE s == target[w]
             t == req[w].thread
  <2>1. PICK p \in Project, d \in Duration :
          /\ row' = [row EXCEPT ![s] =
                  [status |-> "active", thread |-> t, project |-> p,
                   duration |-> d, lease |-> now[w] + d, reason |-> "open"]]
          /\ log' = [log EXCEPT ![s] = <<Entry("intent.captured", "none", p, "start")>>]
    BY <1>5 DEF InsertCommit
  <2>2. s \in Session /\ t \in Thread /\ row[s].status = "none"
    BY <1>5 DEF InsertCommit, Control, StartRequest, InsertsExclude
  <2>3. \A r \in Session : IsActive(r) => row[r].thread # t \/ t = NoThread
    BY <1>5 DEF InsertCommit, InsertsExclude
  <2>4. \A r \in Session \ {s} : Same(r)
    BY <1>0, <2>1 DEF Same, TableTyped
  <2>5. /\ row'[s].status = "active" /\ row'[s].thread = t /\ row'[s].project = p
        /\ log'[s] = <<Entry("intent.captured", "none", p, "start")>>
    BY <1>0, <2>1, <2>2 DEF TableTyped
  <2> HIDE DEF s, t
  <2>6. /\ statusOf' = [statusOf EXCEPT ![s] = "active"]
        /\ threadOf' = [threadOf EXCEPT ![s] = t]
        /\ projectOf' = [projectOf EXCEPT ![s] = p]
    BY <2>2, <2>4, <2>5 DEF statusOf, threadOf, projectOf, Same
  <2>7. log' = [log EXCEPT ![s] = <<Contract!Entry("intent.captured", "none", p, "start")>>]
    BY <1>0, <2>2, <2>4, <2>5 DEF TableTyped, Same, Entry, Contract!Entry
  <2>8. /\ statusOf[s] = "none"
        /\ \A r \in Session : Contract!IsOpen(r) => threadOf[r] # t \/ t = NoThread
    BY <2>2, <2>3 DEF Contract!IsOpen, statusOf, threadOf, IsActive
  <2>9. Contract!Open(s, t, p)
    BY <2>6, <2>7, <2>8 DEF Contract!Open
  <2> QED
    BY <2>2, <2>9 DEF Contract!Next
<1>6. ASSUME NEW w \in Worker, Record(w)
      PROVE  [Contract!Next]_(Contract!contractVars)
  <2> DEFINE s == target[w]
  <2>1. CASE UNCHANGED table
    BY <1>1, <2>1
  <2>2. ASSUME NEW k \in Key, NEW type \in ClientType, ~UsedElsewhere(s, k),
               row' = [row EXCEPT ![s] = Renewed(row[s], now[w])],
               log' = [log EXCEPT ![s] = Logged(s, Entry(type, k, row[s].project, "record"))]
        PROVE  [Contract!Next]_(Contract!contractVars)
    <3>1. s \in Session /\ IsActive(s) /\ row[s] \in Row /\ now[w] \in Nat
      BY <1>3, <1>6 DEF Record
    <3>2. \A r \in Session \ {s} : Same(r)
      BY <1>0, <2>2 DEF Same, TableTyped
    <3>3. /\ row'[s].status = row[s].status
          /\ row'[s].thread = row[s].thread
          /\ row'[s].project = row[s].project
      BY <1>0, <2>2, <3>1, RenewedRow DEF TableTyped
    <3>4. log'[s] = IF HasEntry(s, k) THEN log[s]
                    ELSE Append(log[s], Entry(type, k, row[s].project, "record"))
      BY <1>0, <2>2, <3>1 DEF TableTyped, Logged, Entry, SystemKey
    <3>5. CASE HasEntry(s, k)
      <4>1. \A r \in Session : Same(r)
        BY <3>2, <3>3, <3>4, <3>5 DEF Same
      <4> QED
        BY <4>1, <1>0, SameIsStutter
    <3>6. CASE ~HasEntry(s, k)
      <4>1. \A r \in Session : ~HasEntry(r, k)
        BY <2>2, <3>6 DEF UsedElsewhere
      <4> HIDE DEF s
      <4>3. statusOf' = statusOf /\ threadOf' = threadOf /\ projectOf' = projectOf
        BY <3>1, <3>2, <3>3 DEF statusOf, threadOf, projectOf, Same
      <4>4. log' = [log EXCEPT ![s] = Append(log[s], Contract!Entry(type, k, projectOf[s], "record"))]
        BY <1>0, <3>1, <3>2, <3>4, <3>6 DEF TableTyped, Same, Entry, Contract!Entry, projectOf
      <4>5. Contract!IsOpen(s) /\ \A r \in Session : \A i \in DOMAIN log[r] : log[r][i].key # k
        BY <3>1, <4>1 DEF Contract!IsOpen, statusOf, IsActive, HasEntry
      <4>2. Contract!Work(s, type, k)
        BY <4>3, <4>4, <4>5 DEF Contract!Work
      <4> QED
        BY <3>1, <4>2 DEF Contract!Next
    <3> QED
      BY <3>5, <3>6
  <2> QED
    BY <1>6, <2>1, <2>2 DEF Record, Fail
<1>7. ASSUME NEW w \in Worker, Complete(w)
      PROVE  [Contract!Next]_(Contract!contractVars)
  <2> DEFINE s == target[w]
             closed(o) == Closed(Renewed(row[s], now[w]), o, "explicit_completion")
  <2>1. PICK o \in ClientOutcome :
          /\ row' = [row EXCEPT ![s] = closed(o)]
          /\ log' = [log EXCEPT ![s] = Logged(s, Entry(o, "none", row[s].project, "complete"))]
    BY <1>7 DEF Complete
  <2>2. s \in Session /\ IsActive(s) /\ row[s] \in Row /\ now[w] \in Nat
    BY <1>3, <1>7 DEF Complete
  <2>3. \A r \in Session \ {s} : Same(r)
    BY <1>0, <2>1 DEF Same, TableTyped
  <2>4. /\ closed(o).status = o
        /\ closed(o).thread = row[s].thread
        /\ closed(o).project = row[s].project
    <3>1. /\ Renewed(row[s], now[w]) \in Row
          /\ Renewed(row[s], now[w]).thread = row[s].thread
          /\ Renewed(row[s], now[w]).project = row[s].project
      BY <2>2, RenewedRow
    <3>2. o \in Outcome /\ "explicit_completion" \in Reasons
      BY DEF Reasons
    <3> QED
      BY <3>1, <3>2, ClosedRow
  <2> HIDE DEF closed
  <2>5. row'[s] = closed(o)
    BY <1>0, <2>1, <2>2 DEF TableTyped
  <2>6. log'[s] = Append(log[s], Entry(o, "none", row[s].project, "complete"))
    BY <1>0, <2>1, <2>2 DEF TableTyped, Logged, Entry
  <2>7. /\ {s} \in SUBSET Session /\ {s} # {} /\ o \in Outcome /\ "none" \in SystemKey
        /\ "complete" \in Closer
    BY <2>2 DEF SystemKey, Closer
  <2>8. ASSUME NEW r \in {s}
        PROVE  /\ IsActive(r)
               /\ row'[r].status = o
               /\ row'[r].thread = row[r].thread
               /\ row'[r].project = row[r].project
               /\ log'[r] = Append(log[r], Entry(o, "none", row[r].project, "complete"))
    BY <2>2, <2>4, <2>5, <2>6
  <2> HIDE DEF s
  <2> QED
    BY <1>0, <2>3, <2>7, <2>8, CloseStep
<1>8. ASSUME NEW w \in Worker, EndCommit(w)
      PROVE  [Contract!Next]_(Contract!contractVars)
  <2> DEFINE s == target[w]
             closed == Closed(row[s], "partial", "client_session_end")
             e == Entry("partial", "client-session-end", row[s].project, "end")
  <2>1. s \in Session /\ IsActive(s) /\ row[s] \in Row
    BY <1>3, <1>8 DEF EndCommit
  <2>2. \A r \in Session \ {s} : Same(r)
    BY <1>0, <1>8 DEF EndCommit, Same, TableTyped
  <2>3. closed.status = "partial" /\ closed.thread = row[s].thread
        /\ closed.project = row[s].project
    BY <2>1, ClosedRow DEF Outcome, Reasons
  <2>4. row'[s] = closed
    BY <1>0, <1>8, <2>1 DEF EndCommit, TableTyped
  <2>5. log'[s] = Append(log[s], e)
    <3>1. ~HasEntry(s, "client-session-end")
      BY <1>0, <2>1, NoClosingEntry
    <3>2. e.key = "client-session-end"
      BY DEF Entry
    <3>3. log'[s] = Logged(s, e)
      BY <1>0, <1>8, <2>1 DEF EndCommit, TableTyped
    <3> QED
      BY <3>1, <3>2, <3>3 DEF Logged
  <2>6. "partial" \in Outcome /\ "client-session-end" \in SystemKey /\ "end" \in Closer
    BY DEF Outcome, SystemKey, Closer
  <2> HIDE DEF closed
  <2>7. ASSUME NEW r \in {s}
        PROVE  /\ IsActive(r)
               /\ row'[r].status = "partial"
               /\ row'[r].thread = row[r].thread
               /\ row'[r].project = row[r].project
               /\ log'[r] = Append(log[r], Entry("partial", "client-session-end",
                                                row[r].project, "end"))
    BY <2>1, <2>3, <2>4, <2>5
  <2>8. {s} \in SUBSET Session /\ {s} # {}
    BY <2>1
  <2> HIDE DEF s
  <2> QED
    BY <1>0, <2>2, <2>6, <2>7, <2>8, CloseStep
<1> QED
  BY <1>1, <1>2, <1>4, <1>5, <1>6, <1>7, <1>8, Writes DEF Write

-----------------------------------------------------------------------------
(* The contract's steps keep the invariants of the tables. *)

\* log'[s] is log[s] and one entry more, under the project of s.
Extends(s, type, k, by) ==
  LET last == Len(log'[s]) IN
  /\ log'[s] # << >> /\ last \in DOMAIN log'[s]
  /\ log'[s][last] = [type |-> type, key |-> k, project |-> row[s].project, by |-> by]
  /\ \A i \in DOMAIN log'[s] :
       /\ i # last => i \in DOMAIN log[s] /\ log'[s][i] = log[s][i]
       /\ i > 1 => i - 1 \in DOMAIN log[s] /\ log'[s][i - 1] = log[s][i - 1]

LEMMA ExtendedEntry ==
  ASSUME NEW s \in Session, NEW type, NEW k, NEW by, Extends(s, type, k, by), NEW i \in DOMAIN log'[s]
  PROVE  \/ i = Len(log'[s]) /\ log'[s][i].type = type /\ log'[s][i].key = k
            /\ log'[s][i].by = by
         \/ i \in DOMAIN log[s] /\ log'[s][i] = log[s][i]
BY DEF Extends

LEMMA AppendExtends ==
  ASSUME NEW s \in Session, log[s] \in Seq(Activity), NEW type, NEW k, NEW by,
         log'[s] = Append(log[s], [type |-> type, key |-> k, project |-> row[s].project,
                                   by |-> by])
  PROVE  Extends(s, type, k, by)
BY DEF Extends

\* What an extension keeps of the session's journal.
LEMMA ExtendedJournal ==
  ASSUME NEW s \in Session, NEW type, NEW k, NEW by, Extends(s, type, k, by),
         row'[s].project = row[s].project, JournalKeepsProject
  PROVE  \A i \in DOMAIN log'[s] :
           /\ log'[s][i].project \in {NoProject, row'[s].project}
           /\ i > 1 /\ log'[s][i - 1].project # NoProject => log'[s][i].project # NoProject
<1> SUFFICES ASSUME NEW i \in DOMAIN log'[s]
             PROVE  /\ log'[s][i].project \in {NoProject, row[s].project}
                    /\ i > 1 /\ log'[s][i - 1].project # NoProject
                         => log'[s][i].project # NoProject
  OBVIOUS
<1>1. CASE i = Len(log'[s])
  <2>1. log'[s][i].project = row[s].project
    BY <1>1 DEF Extends
  <2>2. i > 1 => log'[s][i - 1].project \in {NoProject, row[s].project}
    BY DEF Extends, JournalKeepsProject
  <2> QED
    BY <2>1, <2>2
<1>2. CASE i # Len(log'[s])
  <2>1. i \in DOMAIN log[s] /\ log'[s][i] = log[s][i]
        /\ (i > 1 => log'[s][i - 1] = log[s][i - 1])
    BY <1>2 DEF Extends
  <2> QED
    BY <2>1 DEF JournalKeepsProject
<1> QED
  BY <1>1, <1>2

TableInv == OneActivePerThread /\ KeysByCall /\ ClosedByLast /\ JournalKeepsProject

LEMMA TableInvStep ==
  ASSUME TableTyped, TableTyped', TableInv, [Contract!Next]_(Contract!contractVars)
  PROVE  TableInv'
<1> USE ConstantAssumption
<1>1. \A s \in Session : /\ statusOf[s] = row[s].status /\ statusOf'[s] = row'[s].status
                         /\ threadOf[s] = row[s].thread /\ threadOf'[s] = row'[s].thread
                         /\ projectOf[s] = row[s].project /\ projectOf'[s] = row'[s].project
  BY DEF statusOf, threadOf, projectOf
<1>2. \A s \in Session : /\ row[s].status \in Statuses /\ row[s].project \in Project \cup {NoProject}
                         /\ log[s] \in Seq(Activity)
  BY DEF TableTyped, Row
<1>3. CASE UNCHANGED Contract!contractVars
  <2>1. log' = log /\ \A s \in Session : /\ row'[s].status = row[s].status
                                         /\ row'[s].thread = row[s].thread
                                         /\ row'[s].project = row[s].project
    BY <1>1, <1>3 DEF Contract!contractVars
  <2> QED
    BY <2>1 DEF TableInv, OneActivePerThread, KeysByCall, ClosedByLast, JournalKeepsProject, IsActive
<1>4. ASSUME NEW s \in Session, NEW t \in Thread \cup {NoThread},
             NEW p \in Project \cup {NoProject}, Contract!Open(s, t, p)
      PROVE  TableInv'
  <2>1. /\ row[s].status = "none" /\ row'[s].status = "active"
        /\ row'[s].thread = t /\ row'[s].project = p
        /\ \A r \in Session \ {s} : /\ row'[r].status = row[r].status
                                    /\ row'[r].thread = row[r].thread
                                    /\ row'[r].project = row[r].project
                                    /\ log'[r] = log[r]
    BY <1>1, <1>4 DEF Contract!Open, TableTyped, statusOf, threadOf, projectOf
  <2>2. log'[s] = <<Contract!Entry("intent.captured", "none", p, "start")>>
    BY <1>4 DEF Contract!Open, TableTyped
  <2>3. \A r \in Session : IsActive(r) => row[r].thread # t \/ t = NoThread
    BY <1>1, <1>4 DEF Contract!Open, Contract!IsOpen, IsActive
  <2>4. OneActivePerThread'
    BY <2>1, <2>3 DEF TableInv, OneActivePerThread, IsActive
  <2>5. KeysByCall'
    BY <2>1, <2>2 DEF TableInv, KeysByCall, Contract!Entry
  <2>6. ClosedByLast'
    BY <2>1, <2>2 DEF TableInv, ClosedByLast, IsActive, Contract!Entry, Outcome, Closer
  <2>7. JournalKeepsProject'
    BY <2>1, <2>2 DEF TableInv, JournalKeepsProject, Contract!Entry
  <2> QED
    BY <2>4, <2>5, <2>6, <2>7 DEF TableInv
<1>5. ASSUME NEW s \in Session, NEW p \in Project, Contract!Adopt(s, p)
      PROVE  TableInv'
  <2>1. /\ row[s].project = NoProject /\ row'[s].project = p
        /\ \A r \in Session : /\ row'[r].status = row[r].status
                              /\ row'[r].thread = row[r].thread
                              /\ r # s => row'[r].project = row[r].project
                              /\ log'[r] = log[r]
    BY <1>1, <1>5 DEF Contract!Adopt, projectOf
  <2>2. OneActivePerThread' /\ KeysByCall' /\ ClosedByLast'
    BY <2>1 DEF TableInv, OneActivePerThread, KeysByCall, ClosedByLast, IsActive
  <2>3. JournalKeepsProject'
    BY <2>1 DEF TableInv, JournalKeepsProject
  <2> QED
    BY <2>2, <2>3 DEF TableInv
<1>6. ASSUME NEW s \in Session, NEW type \in ClientType, NEW k \in Key,
             Contract!Work(s, type, k)
      PROVE  TableInv'
  <2>1. IsActive(s) /\ \A r \in Session : /\ row'[r].status = row[r].status
                                          /\ row'[r].thread = row[r].thread
                                          /\ row'[r].project = row[r].project
                                          /\ r # s => log'[r] = log[r]
    BY <1>1, <1>6 DEF Contract!Work, Contract!IsOpen, IsActive, TableTyped
  <2>2. log'[s] = Append(log[s], Contract!Entry(type, k, row[s].project, "record"))
    BY <1>1, <1>6 DEF Contract!Work, TableTyped
  <2>3. OneActivePerThread'
    BY <2>1 DEF TableInv, OneActivePerThread, IsActive
  <2>7. Extends(s, type, k, "record")
    BY <1>2, <2>2, AppendExtends DEF Contract!Entry
  <2>4. KeysByCall'
    BY <2>1, <2>7 DEF TableInv, KeysByCall, Extends
  <2>5. ClosedByLast'
    <3>1. log'[s] # << >> /\ \A i \in DOMAIN log'[s] : log'[s][i].by \notin Closer
      BY <2>1, <2>7 DEF TableInv, ClosedByLast, IsActive, Extends, Closer
    <3>2. row'[s].status = "active"
      BY <2>1 DEF IsActive
    <3> QED
      BY <2>1, <3>1, <3>2 DEF TableInv, ClosedByLast, IsActive, Outcome
  <2>6. JournalKeepsProject'
    BY <2>1, <2>7, ExtendedJournal DEF TableInv, JournalKeepsProject
  <2> QED
    BY <2>3, <2>4, <2>5, <2>6 DEF TableInv
<1>7. ASSUME NEW S \in SUBSET Session, NEW o \in Outcome, Contract!Close(S, o)
      PROVE  TableInv'
  <2>1. PICK k \in SystemKey, by \in Closer :
          log' = [s \in Session |->
                    IF s \in S THEN Append(log[s], Contract!Entry(o, k, projectOf[s], by))
                               ELSE log[s]]
    BY <1>7 DEF Contract!Close
  <2>2. \A s \in Session : /\ row'[s].thread = row[s].thread
                           /\ row'[s].project = row[s].project
                           /\ s \in S => IsActive(s) /\ row'[s].status = o
                           /\ s \notin S => row'[s].status = row[s].status
    BY <1>1, <1>7 DEF Contract!Close, Contract!IsOpen, IsActive
  <2>3. \A s \in Session : IF s \in S
          THEN log'[s] = Append(log[s], Contract!Entry(o, k, row[s].project, by))
          ELSE log'[s] = log[s]
    BY <1>1, <2>1
  <2>4. OneActivePerThread'
    BY <2>2 DEF TableInv, OneActivePerThread, IsActive, Outcome
  <2>8. ASSUME NEW s \in S
        PROVE  Extends(s, o, k, by)
    BY <1>2, <2>3, AppendExtends DEF Contract!Entry
  <2>9. \A s \in Session : s \notin S => log'[s] = log[s]
    BY <2>3
  <2>5. KeysByCall'
    <3>1. ASSUME NEW s \in Session, NEW i \in DOMAIN log'[s]
          PROVE  /\ log'[s][i].by = "record" => log'[s][i].key \in Key
                 /\ log'[s][i].by = "start" => log'[s][i].key = "none"
      <4>1. CASE s \in S
        <5>1. \/ log'[s][i].by \in Closer
              \/ i \in DOMAIN log[s] /\ log'[s][i] = log[s][i]
          BY <2>8, <4>1, ExtendedEntry
        <5> QED
          BY <5>1 DEF TableInv, KeysByCall, Closer
      <4>2. CASE s \notin S
        BY <2>9, <4>2 DEF TableInv, KeysByCall
      <4> QED
        BY <4>1, <4>2
    <3> QED
      BY <3>1 DEF KeysByCall
  <2>6. ClosedByLast'
    <3>1. ASSUME NEW s \in Session
          PROVE  LET last == Len(log'[s])  Closes(i) == log'[s][i].by \in Closer IN
                 /\ row'[s].status = "none" => log'[s] = << >>
                 /\ row'[s].status = "active" =>
                      log'[s] # << >> /\ \A i \in DOMAIN log'[s] : ~Closes(i)
                 /\ row'[s].status \in Outcome =>
                      /\ log'[s] # << >> /\ log'[s][last].type = row'[s].status
                      /\ \A i \in DOMAIN log'[s] : Closes(i) => i = last
      <4>1. CASE s \in S
        <5>1. /\ row'[s].status = o /\ o \notin {"none", "active"}
              /\ \A i \in DOMAIN log[s] : log[s][i].by \notin Closer
          BY <2>2, <4>1 DEF TableInv, ClosedByLast, Outcome
        <5>2. log'[s] # << >> /\ log'[s][Len(log'[s])].type = o
          <6>1. Extends(s, o, k, by)
            BY <2>8, <4>1
          <6> QED
            BY <6>1 DEF Extends
        <5>3. \A i \in DOMAIN log'[s] : log'[s][i].by \in Closer => i = Len(log'[s])
          BY <2>8, <4>1, <5>1, ExtendedEntry
        <5> QED
          BY <5>1, <5>2, <5>3
      <4>2. CASE s \notin S
        BY <2>2, <2>3, <4>2 DEF TableInv, ClosedByLast, IsActive
      <4> QED
        BY <4>1, <4>2
    <3> QED
      BY <3>1 DEF ClosedByLast, IsActive
  <2>7. JournalKeepsProject'
    <3>1. ASSUME NEW s \in Session, NEW i \in DOMAIN log'[s]
          PROVE  /\ log'[s][i].project \in {NoProject, row'[s].project}
                 /\ i > 1 /\ log'[s][i - 1].project # NoProject
                      => log'[s][i].project # NoProject
      <4>1. CASE s \in S
        BY <2>2, <2>8, <4>1, ExtendedJournal DEF TableInv
      <4>2. CASE s \notin S
        BY <2>2, <2>9, <4>2 DEF TableInv, JournalKeepsProject
      <4> QED
        BY <4>1, <4>2
    <3> QED
      BY <3>1 DEF JournalKeepsProject
  <2> QED
    BY <2>4, <2>5, <2>6, <2>7 DEF TableInv
<1> QED
  BY <1>3, <1>4, <1>5, <1>6, <1>7 DEF Contract!Next

-----------------------------------------------------------------------------
(* How the reason of a closure changes. *)

ReasonChange(s) ==
  \/ row'[s].reason = row[s].reason /\ (row'[s].status = "active" => IsActive(s))
  \/ row'[s].reason = "open"
  \/ row'[s].status # "active" /\ row'[s].reason # "lease_expired"
  \/ row'[s].status # "active" /\ Expired(s, clock)

LEMMA ReasonStep ==
  ASSUME Inv, [Next]_vars, NEW s \in Session
  PROVE  ReasonChange(s)
<1> USE ConstantAssumption DEF Inv
<1>0. TableTyped /\ TransactionsTyped
  BY DEF TypeOK, TableTyped, TransactionsTyped
<1>1. CASE row'[s] = row[s]
  BY <1>1 DEF ReasonChange, IsActive
<1>2. ASSUME NEW w \in Worker, step[w] \in {"locked", "loaded"}
      PROVE  /\ target[w] \in Session /\ IsActive(target[w])
             /\ row[target[w]] \in Row /\ now[w] \in Nat
  BY <1>0, <1>2 DEF Control, LockDiscipline, TableTyped, TransactionsTyped
<1>3. ASSUME NEW w \in Worker, SweepCommit(w), row'[s] # row[s]
      PROVE  ReasonChange(s)
  <2>1. rowLock[s] = w /\ step[w] = "sweeping"
        /\ row'[s] = Closed(row[s], "partial", "lease_expired")
    BY <1>3 DEF SweepCommit
  <2>2. row'[s].status = "partial"
    BY <1>0, <2>1, ClosedRow DEF TableTyped, Outcome, Reasons
  <2>3. row[s].lease <= now[w] /\ now[w] <= clock
    BY <2>1 DEF LockDiscipline, Expired
  <2>4. row[s].lease \in Nat /\ now[w] \in Nat /\ clock \in Nat
    BY <1>0 DEF TableTyped, TransactionsTyped, Row
  <2> QED
    BY <2>2, <2>3, <2>4 DEF ReasonChange, Expired
<1>4. ASSUME NEW w \in Worker, Resume(w), row'[s] # row[s]
      PROVE  ReasonChange(s)
  <2>1. IsActive(s) /\ row[s] \in Row /\ now[w] \in Nat
        /\ \E p \in Project, d \in Duration : row'[s] = Resumed(row[s], p, d, now[w])
    BY <1>0, <1>2, <1>4 DEF Resume, Fail, table, TableTyped
  <2>2. row'[s].reason = row[s].reason
    <3>1. PICK p \in Project, d \in Duration : row'[s] = Resumed(row[s], p, d, now[w])
      BY <2>1
    <3>2. d \in Nat /\ row[s] \in Row /\ now[w] \in Nat
      BY <2>1
    <3>3. Resumed(row[s], p, d, now[w]).reason = row[s].reason
      BY <3>2, ResumedRow
    <3> QED
      BY <3>1, <3>3
  <2> QED
    BY <2>1, <2>2 DEF ReasonChange
<1>5. ASSUME NEW w \in Worker, InsertCommit(w), row'[s] # row[s]
      PROVE  ReasonChange(s)
  BY <1>0, <1>5 DEF InsertCommit, TableTyped, ReasonChange
<1>6. ASSUME NEW w \in Worker, Record(w), row'[s] # row[s]
      PROVE  ReasonChange(s)
  <2>1. IsActive(s) /\ row[s] \in Row /\ now[w] \in Nat
        /\ row'[s] = Renewed(row[s], now[w])
    BY <1>0, <1>2, <1>6 DEF Record, Fail, table, TableTyped
  <2>2. row'[s].reason = row[s].reason
    BY <2>1, RenewedRow
  <2> QED
    BY <2>1, <2>2 DEF ReasonChange
<1>7. ASSUME NEW w \in Worker, Complete(w), row'[s] # row[s]
      PROVE  ReasonChange(s)
  <2>1. PICK o \in ClientOutcome :
          row'[s] = Closed(Renewed(row[s], now[w]), o, "explicit_completion")
    BY <1>0, <1>7 DEF Complete, TableTyped
  <2>2. Renewed(row[s], now[w]) \in Row
    BY <1>0, RenewedRow DEF TableTyped, TransactionsTyped
  <2>4. o \in Outcome /\ "explicit_completion" \in Reasons
    BY DEF Reasons
  <2>3. row'[s].status = o /\ row'[s].reason = "explicit_completion"
    BY <2>1, <2>2, <2>4, ClosedRow
  <2> QED
    BY <2>3 DEF ReasonChange, Outcome
<1>8. ASSUME NEW w \in Worker, EndCommit(w), row'[s] # row[s]
      PROVE  ReasonChange(s)
  <2>1. row'[s] = Closed(row[s], "partial", "client_session_end")
    BY <1>0, <1>8 DEF EndCommit, TableTyped
  <2>2. row'[s].status = "partial" /\ row'[s].reason = "client_session_end"
    BY <1>0, <2>1, ClosedRow DEF TableTyped, Outcome, Reasons
  <2> QED
    BY <2>2 DEF ReasonChange
<1> QED
  BY <1>1, <1>3, <1>4, <1>5, <1>6, <1>7, <1>8, Writes DEF Write, table

-----------------------------------------------------------------------------
(* Which call closes. *)

CallOfClosure(s) ==
  \/ row'[s].status \notin Outcome
  \/ row'[s] = row[s] /\ log'[s] = log[s]
  \/ /\ row'[s].reason \in DOMAIN ClosedBy
     /\ log'[s][Len(log'[s])].by = ClosedBy[row'[s].reason]

LEMMA AppendedCall ==
  ASSUME NEW s \in Session, log[s] \in Seq(Activity), NEW e, log'[s] = Append(log[s], e)
  PROVE  log'[s][Len(log'[s])] = e
OBVIOUS

LEMMA CallStep ==
  ASSUME Inv, [Next]_vars, NEW s \in Session
  PROVE  CallOfClosure(s)
<1> USE ConstantAssumption DEF Inv
<1>0. TableTyped /\ TransactionsTyped
  BY DEF TypeOK, TableTyped, TransactionsTyped
<1>1. CASE row'[s] = row[s] /\ log'[s] = log[s]
  BY <1>1 DEF CallOfClosure
<1>2. ASSUME NEW w \in Worker, step[w] \in {"locked", "loaded"}
      PROVE  /\ target[w] \in Session /\ IsActive(target[w])
             /\ row[target[w]] \in Row /\ now[w] \in Nat
  BY <1>0, <1>2 DEF Control, LockDiscipline, TableTyped, TransactionsTyped
<1>3. log[s] \in Seq(Activity)
  BY <1>0 DEF TableTyped
<1>4. ASSUME NEW w \in Worker, SweepCommit(w), ~(row'[s] = row[s] /\ log'[s] = log[s])
      PROVE  CallOfClosure(s)
  <2> DEFINE e == Entry("partial", "lease-expired", row[s].project, "sweep")
  <2>1. rowLock[s] = w /\ row'[s] = Closed(row[s], "partial", "lease_expired")
        /\ log'[s] = Logged(s, e)
    BY <1>4 DEF SweepCommit
  <2>2. IsActive(s) /\ row[s] \in Row
    BY <1>0, <2>1 DEF LockDiscipline, TableTyped
  <2>3. ~HasEntry(s, "lease-expired") /\ e.key = "lease-expired" /\ e.by = "sweep"
    BY <1>0, <2>2, NoClosingEntry DEF Entry
  <2>4. log'[s] = Append(log[s], e)
    BY <2>1, <2>3 DEF Logged
  <2>5. row'[s].reason = "lease_expired"
    BY <2>1, <2>2, ClosedRow DEF Outcome, Reasons
  <2> QED
    BY <1>3, <2>3, <2>4, <2>5, AppendedCall DEF CallOfClosure, ClosedBy
<1>5. ASSUME NEW w \in Worker, Resume(w), ~(row'[s] = row[s] /\ log'[s] = log[s])
      PROVE  CallOfClosure(s)
  <2>1. IsActive(s) /\ row[s] \in Row /\ now[w] \in Nat
        /\ \E p \in Project, d \in Duration : row'[s] = Resumed(row[s], p, d, now[w])
    BY <1>0, <1>2, <1>5 DEF Resume, Fail, table, TableTyped
  <2>2. row'[s].status = row[s].status
    <3>1. PICK p \in Project, d \in Duration : row'[s] = Resumed(row[s], p, d, now[w])
      BY <2>1
    <3>2. d \in Nat /\ row[s] \in Row /\ now[w] \in Nat
      BY <2>1
    <3>3. Resumed(row[s], p, d, now[w]).status = row[s].status
      BY <3>2, ResumedRow
    <3> QED
      BY <3>1, <3>3
  <2> QED
    BY <2>1, <2>2 DEF CallOfClosure, IsActive, Outcome
<1>6. ASSUME NEW w \in Worker, InsertCommit(w), ~(row'[s] = row[s] /\ log'[s] = log[s])
      PROVE  CallOfClosure(s)
  <2>1. row'[s].status = "active"
    BY <1>0, <1>6 DEF InsertCommit, TableTyped
  <2> QED
    BY <2>1 DEF CallOfClosure, Outcome
<1>7. ASSUME NEW w \in Worker, Record(w), ~(row'[s] = row[s] /\ log'[s] = log[s])
      PROVE  CallOfClosure(s)
  <2>1. IsActive(s) /\ row[s] \in Row /\ now[w] \in Nat
        /\ row'[s] = Renewed(row[s], now[w])
    BY <1>0, <1>2, <1>7 DEF Record, Fail, table, TableTyped
  <2>2. row'[s].status = row[s].status
    <3>1. Renewed(row[s], now[w]).status = row[s].status
      BY <2>1, RenewedRow
    <3> QED
      BY <2>1, <3>1
  <2> QED
    BY <2>1, <2>2 DEF CallOfClosure, IsActive, Outcome
<1>8. ASSUME NEW w \in Worker, Complete(w), ~(row'[s] = row[s] /\ log'[s] = log[s])
      PROVE  CallOfClosure(s)
  <2>1. PICK o \in ClientOutcome :
          /\ row' = [row EXCEPT ![target[w]] =
                       Closed(Renewed(row[target[w]], now[w]), o, "explicit_completion")]
          /\ log' = [log EXCEPT ![target[w]] =
                       Logged(target[w],
                              Entry(o, "none", row[target[w]].project, "complete"))]
    BY <1>8 DEF Complete
  <2> DEFINE e == Entry(o, "none", row[s].project, "complete")
  <2>2. /\ s = target[w] /\ row[s] \in Row /\ now[w] \in Nat
        /\ row'[s] = Closed(Renewed(row[s], now[w]), o, "explicit_completion")
        /\ log'[s] = Logged(s, e)
    BY <1>0, <1>2, <1>8, <2>1 DEF Complete, TableTyped
  <2>3. e.key = "none" /\ e.by = "complete"
    BY DEF Entry
  <2>4. log'[s] = Append(log[s], e)
    BY <2>2, <2>3 DEF Logged
  <2>5. o \in Outcome /\ "explicit_completion" \in Reasons
    BY DEF Reasons
  <2>6. row'[s].reason = "explicit_completion"
    <3>1. Renewed(row[s], now[w]) \in Row
      BY <2>2, RenewedRow
    <3> QED
      BY <2>2, <2>5, <3>1, ClosedRow
  <2> QED
    BY <1>3, <2>3, <2>4, <2>6, AppendedCall DEF CallOfClosure, ClosedBy
<1>9. ASSUME NEW w \in Worker, EndCommit(w), ~(row'[s] = row[s] /\ log'[s] = log[s])
      PROVE  CallOfClosure(s)
  <2> DEFINE e == Entry("partial", "client-session-end", row[s].project, "end")
  <2>1. /\ s = target[w] /\ IsActive(s) /\ row[s] \in Row
        /\ row'[s] = Closed(row[s], "partial", "client_session_end")
        /\ log'[s] = Logged(s, e)
    BY <1>0, <1>2, <1>9 DEF EndCommit, TableTyped
  <2>2. ~HasEntry(s, "client-session-end") /\ e.key = "client-session-end" /\ e.by = "end"
    BY <1>0, <2>1, NoClosingEntry DEF Entry
  <2>3. log'[s] = Append(log[s], e)
    BY <2>1, <2>2 DEF Logged
  <2>4. row'[s].reason = "client_session_end"
    BY <2>1, ClosedRow DEF Outcome, Reasons
  <2> QED
    BY <1>3, <2>2, <2>3, <2>4, AppendedCall DEF CallOfClosure, ClosedBy
<1> QED
  BY <1>1, <1>4, <1>5, <1>6, <1>7, <1>8, <1>9, Writes DEF Write, table

-----------------------------------------------------------------------------
(* Theorems *)

LEMMA InvStep == Inv /\ [Next]_vars => Inv'
<1> SUFFICES ASSUME Inv, [Next]_vars PROVE Inv'
  OBVIOUS
<1>1. TableTyped /\ TransactionsTyped /\ TableInv
  BY DEF Inv, TypeOK, TableTyped, TransactionsTyped, TableInv
<1>2. Control /\ LockDiscipline /\ InsertsExclude /\ OpenReason /\ ReasonIsCall
  BY DEF Inv
<1>3. TransactionsTyped' /\ TableTyped' /\ Control'
  BY <1>1, <1>2, TransactionsTypedStep, TableTypedStep, ControlStep
<1>4. LockDiscipline' /\ InsertsExclude'
  BY <1>1, <1>2, LockDisciplineStep, InsertsExcludeStep
<1>5. TableInv'
  BY <1>1, <1>3, ContractStep, TableInvStep
<1>7. OpenReason'
  <2>1. \A s \in Session : ReasonChange(s)
    BY ReasonStep
  <2> QED
    BY <1>2, <2>1 DEF OpenReason, ReasonChange, IsActive
<1>8. ReasonIsCall'
  <2>1. \A s \in Session : CallOfClosure(s)
    BY CallStep
  <2> QED
    BY <1>2, <2>1 DEF ReasonIsCall, CallOfClosure
<1>6. TypeOK'
  BY <1>3 DEF TypeOK, TableTyped, TransactionsTyped
<1> QED
  BY <1>3, <1>4, <1>5, <1>6, <1>7, <1>8 DEF Inv, TableInv

\* The inductive invariant holds in every reachable state.
THEOREM Invariance == Spec => []Inv
BY InitInv, InvStep, PTL DEF Spec

\* Every variable has its type, always.
THEOREM TypeCorrect == Spec => []TypeOK
<1>1. Inv => TypeOK
  BY DEF Inv
<1> QED
  BY <1>1, Invariance, PTL

\* Two active sessions never belong to the same client thread, however many
\* starts, sweeps and completions race.
THEOREM OneActive == Spec => []OneActivePerThread
<1>1. Inv => OneActivePerThread
  BY DEF Inv
<1> QED
  BY <1>1, Invariance, PTL

\* A session is closed at most once, by one call, which its reason names and
\* which wrote the last entry of the journal, whatever clients recorded before.
THEOREM ClosedAtMostOnce == Spec => []ClosedOnce
<1>1. Inv => ClosedOnce
  BY DEF Inv, ClosedByLast, ReasonIsCall, ClosedOnce
<1> QED
  BY <1>1, Invariance, PTL

\* The journal of a session only ever names the project of the session.
THEOREM JournalProject == Spec => []JournalKeepsProject
<1>1. Inv => JournalKeepsProject
  BY DEF Inv
<1> QED
  BY <1>1, Invariance, PTL

\* No set of transactions wait for each other: a holder of rows waits for
\* nothing, and a holder of the ontology lock waits at most for a row.
THEOREM DeadlockFree == Spec => []NoDeadlock
<1>1. ASSUME Inv PROVE NoDeadlock
  <2> USE <1>1 DEF Inv
  <2>1. SUFFICES ASSUME NEW D \in SUBSET Worker, D # {}
                 PROVE  \E w \in D : WaitsFor(w) \cap D = {}
    BY DEF NoDeadlock
  <2>2. ASSUME NEW w \in Worker, step[w] \in {"locked", "loaded", "sweeping", "inserted"}
        PROVE  WaitsFor(w) = {}
    BY <2>2 DEF WaitsFor
  <2>3. ASSUME NEW w \in Worker, step[w] # "ontology", NEW v \in WaitsFor(w), v \in D
        PROVE  WaitsFor(v) = {}
    BY <2>2, <2>3 DEF WaitsFor, Control, LockDiscipline, WriteRequest
  <2>4. ASSUME NEW w \in Worker, step[w] = "ontology", NEW v \in WaitsFor(w), v \in D
        PROVE  step[v] # "ontology"
    BY <2>4 DEF WaitsFor, LockDiscipline
  <2>5. PICK w : w \in D
    BY <2>1
  <2>6. CASE WaitsFor(w) \cap D = {}
    BY <2>5, <2>6
  <2>7. ASSUME NEW v \in WaitsFor(w) \cap D
        PROVE  \E u \in D : WaitsFor(u) \cap D = {}
    <3>1. CASE step[w] # "ontology"
      BY <2>3, <2>5, <2>7, <3>1
    <3>2. CASE step[w] = "ontology"
      <4>1. step[v] # "ontology"
        BY <2>4, <2>5, <2>7, <3>2
      <4>2. \A u \in WaitsFor(v) \cap D : WaitsFor(u) = {}
        BY <2>3, <2>7, <4>1
      <4> QED
        BY <2>7, <4>2
    <3> QED
      BY <3>1, <3>2
  <2> QED
    BY <2>6, <2>7
<1> QED
  BY <1>1, Invariance, PTL

\* A step that closes an active session for its lease happens after the lease
\* has run out.
THEOREM SweepsOnlyExpired == Spec => SweptOnlyExpired
<1> DEFINE A == \A s \in Session :
                  row'[s].reason = "lease_expired" /\ IsActive(s) => Expired(s, clock)
<1>1. ASSUME Inv, [Next]_vars PROVE A
  <2>1. \A s \in Session : ReasonChange(s)
    BY <1>1, ReasonStep
  <2> QED
    BY <1>1, <2>1 DEF ReasonChange, Inv, OpenReason, IsActive
<1> QED
  BY <1>1, Invariance, PTL DEF Spec, SweptOnlyExpired

\* The daemon implements the contract of SessionContract.
THEOREM Refinement == Spec => ImplementsContract
<1>1. Init => Contract!Init
  BY DEF Init, Contract!Init, statusOf, threadOf, projectOf, NoRow
<1>2. Inv /\ [Next]_vars => [Contract!Next]_(Contract!contractVars)
  BY ContractStep
<1> QED
  BY <1>1, <1>2, Invariance, PTL DEF Spec, ImplementsContract, Contract!Spec
==============================================================================
