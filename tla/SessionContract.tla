--------------------------- MODULE SessionContract ---------------------------
(***************************************************************************)
(* What Boron promises about its sessions, with no transaction, lock or    *)
(* clock in sight.  A session is opened once, for at most one open session *)
(* per client thread; while it is open, work is written to its journal,    *)
(* once per idempotency key; it is closed once, with one entry of a call   *)
(* that closes, which names its outcome; and after that nothing about it   *)
(* changes.  Work is whatever a client records: its type is the client's,  *)
(* who may also write the types that closing entries have.                 *)
(* SessionLifecycle implements this specification.                         *)
(***************************************************************************)
EXTENDS Sequences

CONSTANTS Session, Thread, NoThread, Project, NoProject,
          Outcome,       \* outcomes a session can be closed with
          ClientType,    \* activity types clients write
          Closer,        \* the calls that close sessions
          Key,           \* idempotency keys of client activities
          NoKey,         \* an entry without a key
          SystemKey      \* keys of closing entries (NoKey among them)

VARIABLES status,        \* [Session -> "none", "active" or an outcome]
          thread,        \* [Session -> the client thread it was opened for]
          project,       \* [Session -> the project it belongs to]
          journal        \* [Session -> the sequence of its activities]

contractVars == <<status, thread, project, journal>>

IsOpen(s) == status[s] = "active"

\* An activity: its type, its key, its project and the call that wrote it.
Entry(type, key, p, by) == [type |-> type, key |-> key, project |-> p, by |-> by]

Init ==
  /\ status = [s \in Session |-> "none"]
  /\ thread = [s \in Session |-> NoThread]
  /\ project = [s \in Session |-> NoProject]
  /\ journal = [s \in Session |-> << >>]

\* Open a session; a thread that has an open session gets no second one.
Open(s, t, p) ==
  /\ status[s] = "none"
  /\ \A r \in Session : IsOpen(r) => thread[r] # t \/ t = NoThread
  /\ status' = [status EXCEPT ![s] = "active"]
  /\ thread' = [thread EXCEPT ![s] = t]
  /\ project' = [project EXCEPT ![s] = p]
  /\ journal' = [journal EXCEPT ![s] = <<Entry("intent.captured", NoKey, p, "start")>>]

\* An open session without a project may adopt one; it never changes it.
Adopt(s, p) ==
  /\ IsOpen(s)
  /\ project[s] = NoProject
  /\ project' = [project EXCEPT ![s] = p]
  /\ UNCHANGED <<status, thread, journal>>

\* Work is journalled under the session's project, once per key.
Work(s, type, k) ==
  /\ IsOpen(s)
  /\ \A r \in Session : \A i \in DOMAIN journal[r] : journal[r][i].key # k
  /\ journal' = [journal EXCEPT ![s] = Append(@, Entry(type, k, project[s], "record"))]
  /\ UNCHANGED <<status, thread, project>>

\* Close open sessions: one entry each of the call that closes, of the outcome.
Close(S, o) ==
  /\ S # {} /\ \A s \in S : IsOpen(s)
  /\ status' = [s \in Session |-> IF s \in S THEN o ELSE status[s]]
  /\ \E k \in SystemKey, by \in Closer :
       journal' = [s \in Session |->
                     IF s \in S THEN Append(journal[s], Entry(o, k, project[s], by))
                                ELSE journal[s]]
  /\ UNCHANGED <<thread, project>>

Next ==
  \/ \E s \in Session, t \in Thread \cup {NoThread}, p \in Project \cup {NoProject} :
       Open(s, t, p)
  \/ \E s \in Session, p \in Project : Adopt(s, p)
  \/ \E s \in Session, type \in ClientType, k \in Key : Work(s, type, k)
  \/ \E S \in SUBSET Session, o \in Outcome : Close(S, o)

Spec == Init /\ [][Next]_contractVars
==============================================================================
