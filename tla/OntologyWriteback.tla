-------------------------- MODULE OntologyWriteback --------------------------
(***************************************************************************)
(* recordActivity as its clients and the ontology see it: guarded writes,  *)
(* idempotent retries, governance, and the relation effects that are       *)
(* applied one by one inside a transaction nobody else can see.  All       *)
(* writers of the ontology hold one advisory lock to the end of their      *)
(* transaction, so there is one draft at a time; the life of the sessions  *)
(* the writes belong to is in SessionLifecycle.  The other writer is       *)
(* reconcileCodexRegistry, whose transaction rejects and revives objects,  *)
(* closes relations and inserts its own, none of it through the journal.   *)
(***************************************************************************)
EXTENDS Naturals, Sequences, FiniteSets, SequencesExt

CONSTANTS
  Client,        \* agents and helpers that read the ontology and write to it
  Nobody,        \* the holder of a free ontology lock
  Session,       \* active sessions, and the project of each
  ProjectOf,
  Project,
  NoProject,     \* the project of an unscoped session or of a new object
  Key, NoKey,    \* idempotency keys, and NoKey for a write without one
  Uri,           \* canonical URIs of objects
  RelationType,  \* relation types a client may name
  Registered,    \* those ontology_type_registry has, with their entity kinds
  Batch,         \* the lists of relation effects clients send
  Guarded,       \* the subjects they guard
  Manifest,      \* what the registry's plans come to on the ontology
  NoGuard,       \* a write without relationPreconditions
  MaxActivities, \* bound on the writes
  MaxRows        \* bound on the rows the registry inserts

Authority == {"agent_inference", "user_confirmation", "deterministic_source",
              "operator", "legacy_unspecified"}
Effect == [op: {"assert", "retract"}, subject: Uri, type: RelationType, target: Uri,
           state: {"candidate", "confirmed"}, authority: Authority]

\* The types of the registry's own relations, which agents may name as well,
\* and the state in which the registry inserts them.
RegistryType == {"HAS_REGISTERED_ROOT", "HAS_REGISTERED_WORKSPACE", "MAY_INCLUDE_WORKSPACE"}
RegistryState(type) == IF type = "MAY_INCLUDE_WORKSPACE" THEN "candidate" ELSE "confirmed"

\* Objects to supersede and their successors; objects to adopt; the objects that
\* are given a project, and the relations between them.
Reconciliation ==
  [supersede: SUBSET [object: Uri, by: Uri], adopted: SUBSET Uri,
   ensured: UNION {[U -> Project] : U \in SUBSET Uri},
   relations: SUBSET [subject: Uri, type: RegistryType \cap RelationType, target: Uri]]

ASSUME ConstantAssumption ==
  /\ Nobody \notin Client /\ NoKey \notin Key /\ Session # {}
  /\ Registered \subseteq RelationType
  /\ ProjectOf \in [Session -> Project \cup {NoProject}]
  /\ Batch \subseteq Seq(Effect) /\ Guarded \subseteq Uri
  /\ Manifest \subseteq Reconciliation
  /\ \A m \in Manifest :
       /\ m.adopted \subseteq DOMAIN m.ensured /\ IsFiniteSet(m.relations)
       /\ \A w \in m.relations : {w.subject, w.target} \subseteq DOMAIN m.ensured
  /\ MaxActivities \in Nat /\ MaxRows \in Nat

VARIABLES
  objects,     \* [Uri -> state and project of the row of objects]
  relations,   \* the rows of relations, in order of insertion
  effects,     \* the rows of relation_effects, in order
  activities,  \* the activities, in commit order
  audited,     \* clients with ontology_governance_events of a rejected request
  holder,      \* the client whose transaction holds the ontology lock
  draft,       \* what that transaction has written so far
  next,        \* the relation effect it applies next
  phase,       \* [Client -> where its request is]
  request,     \* [Client -> its request]
  seen,        \* [Client -> the current relations it has read]
  answer       \* [Client -> the answer to its last request]

committed == <<objects, relations, effects, activities>>
transaction == <<holder, draft, next>>
clients == <<phase, request, seen, answer>>
vars == <<committed, audited, transaction, clients>>

-----------------------------------------------------------------------------
(* Rows *)

Object == [state: {"none", "candidate", "confirmed", "rejected"},
           project: Project \cup {NoProject}]

\* authority is provenance.relationAuthority, which the registry does not set;
\* source is what inserted the row, superseded whether the registry closed it.
Relation == [subject: Uri, type: RelationType, target: Uri, version: Nat,
             state: {"candidate", "confirmed"}, authority: Authority \cup {"none"},
             source: {"activity", "registry"}, open: BOOLEAN, superseded: BOOLEAN]

SameTriple(r, e) == r.subject = e.subject /\ r.type = e.type /\ r.target = e.target
Touches(r, u) == u \in {r.subject, r.target}

\* The rows of the triple of e that are open; current_relations.
OpenRows(rows, e) == {i \in DOMAIN rows : rows[i].open /\ SameTriple(rows[i], e)}
Current(rows) == {i \in DOMAIN rows : rows[i].open}

Largest(S) == CHOOSE n \in S : \A m \in S : m <= n

\* COALESCE(MAX(version), 0) + 1
NextVersion(rows, e) ==
  1 + Largest({0} \cup {rows[i].version : i \in {j \in DOMAIN rows : SameTriple(rows[j], e)}})

-----------------------------------------------------------------------------
(* applyRelationEffect *)

\* (Mutants of Upgraded: a CASE without ELSE gives null; the latest state wins.)
UpgradedOrNull(old, new) ==
  CASE old = "rejected" -> "rejected"
    [] old # "rejected" /\ new = "confirmed" -> "confirmed"
    [] OTHER -> "null"

LatestState(old, new) == IF old = "rejected" THEN old ELSE new

\* ensureObject's CASE: rejected stays, confirmed is never taken back.
Upgraded(old, new) ==
  CASE old = "rejected" -> "rejected"
    [] old # "rejected" /\ new = "confirmed" -> "confirmed"
    [] old = "none" /\ new = "candidate" -> "candidate"
    [] OTHER -> old

\* ensureObject: a new object gets the session's project, an old one keeps its.
Ensured(objs, u, p, new) ==
  [objs EXCEPT ![u] = [state |-> Upgraded(@.state, new),
                       project |-> IF @.project = NoProject THEN p ELSE @.project]]

\* What an assertion makes of the row that is open already: confirmed stays
\* confirmed, while the provenance is merged and takes the new authority.
Merged(r, e) == [r EXCEPT !.state = IF @ = "confirmed" THEN @ ELSE e.state,
                          !.authority = e.authority]

\* (Mutant of Retracted: it closes candidates only.)
RetractedCandidates(rows, e) ==
  [i \in DOMAIN rows |->
     IF i \in OpenRows(rows, e) /\ rows[i].state = "candidate"
       THEN [rows[i] EXCEPT !.open = FALSE] ELSE rows[i]]

Retracted(rows, e) ==
  [i \in DOMAIN rows |->
     IF i \in OpenRows(rows, e) THEN [rows[i] EXCEPT !.open = FALSE] ELSE rows[i]]

\* (Mutant of Asserted: the open row is not looked for.)
AssertedAnew(rows, e) ==
  Append(rows, [subject |-> e.subject, type |-> e.type, target |-> e.target,
                version |-> NextVersion(rows, e), state |-> e.state,
                authority |-> e.authority, source |-> "activity",
                open |-> TRUE, superseded |-> FALSE])

Asserted(rows, e) ==
  IF OpenRows(rows, e) # {}
    THEN LET last == CHOOSE i \in OpenRows(rows, e) :
                       \A j \in OpenRows(rows, e) : rows[j].version <= rows[i].version
         IN  [rows EXCEPT ![last] = Merged(@, e)]
    ELSE Append(rows, [subject |-> e.subject, type |-> e.type, target |-> e.target,
                       version |-> NextVersion(rows, e), state |-> e.state,
                       authority |-> e.authority, source |-> "activity",
                       open |-> TRUE, superseded |-> FALSE])

Applied(d, e, p, activity) ==
  [objects |-> Ensured(Ensured(d.objects, e.subject, p, e.state), e.target, p, e.state),
   relations |-> IF e.op = "retract" THEN Retracted(d.relations, e)
                                     ELSE Asserted(d.relations, e),
   effects |-> Append(d.effects, [activity |-> activity, effect |-> e])]

-----------------------------------------------------------------------------
(* Clients *)

NoRequest == [session |-> CHOOSE s \in Session : TRUE, key |-> NoKey, guard |-> NoGuard,
              effects |-> << >>]
NoObject == [state |-> "none", project |-> NoProject]
NoDraft == [objects |-> [u \in Uri |-> NoObject], relations |-> << >>, effects |-> << >>]

Init ==
  /\ objects = [u \in Uri |-> NoObject]
  /\ relations = << >> /\ effects = << >> /\ activities = << >> /\ audited = {}
  /\ holder = Nobody /\ draft = NoDraft /\ next = 1
  /\ phase = [c \in Client |-> "idle"]
  /\ request = [c \in Client |-> NoRequest]
  /\ seen = [c \in Client |-> {}]
  /\ answer = [c \in Client |-> "none"]

GoTo(c, to) == phase' = [phase EXCEPT ![c] = to]

\* The inspector's ontology graph: ids of the current relations.
Read(c) ==
  /\ phase[c] \in {"idle", "read", "answered"}
  /\ seen' = [seen EXCEPT ![c] = Current(relations)]
  /\ request' = [request EXCEPT ![c] = NoRequest]
  /\ answer' = [answer EXCEPT ![c] = "none"]
  /\ audited' = audited \ {c}
  /\ GoTo(c, "read")
  /\ UNCHANGED <<committed, transaction>>

\* A guard on the relations of u names the ids the client has read.
Guards(c) ==
  {NoGuard} \cup
  {[subject |-> u, expected |-> {i \in seen[c] : relations[i].subject = u}] : u \in Guarded}

Submit(c, r) ==
  /\ phase[c] = "read"
  /\ Len(activities) < MaxActivities
  /\ request' = [request EXCEPT ![c] = r]
  /\ seen' = [seen EXCEPT ![c] = {}]
  /\ GoTo(c, "sent")
  /\ UNCHANGED <<committed, audited, transaction, answer>>

\* The answer got lost or was an error: the client sends the same again.
Resend(c) ==
  /\ phase[c] = "answered"
  /\ Len(activities) < MaxActivities
  /\ answer' = [answer EXCEPT ![c] = "none"]
  /\ GoTo(c, "sent")
  /\ UNCHANGED <<committed, audited, transaction, request, seen>>

-----------------------------------------------------------------------------
(* recordActivity *)

\* The end of the transaction: the lock is given back, the draft is gone.
Release == holder' = Nobody /\ draft' = NoDraft /\ next' = 1

Respond(c, a) ==
  /\ answer' = [answer EXCEPT ![c] = a]
  /\ GoTo(c, "answered")
  /\ UNCHANGED <<request, seen>>

\* The lock is granted to c.  What the write decides before it changes
\* anything is one step: it reads tables that nobody else can write now.
Locked(c) == phase[c] = "sent" /\ holder = Nobody

\* The activities with the request's idempotency key.
Prior(c) == {a \in DOMAIN activities :
               request[c].key # NoKey /\ activities[a].key = request[c].key}

\* (Mutant of SameRequest: the key alone identifies a retry.)
SameKey(c, a) == TRUE

\* findActivityRetry's comparison of session and request digest.
SameRequest(c, a) == activities[a] = request[c]

\* A retry is answered without being looked at again; a key that stands for
\* something else is a conflict.
AnswerRetry(c) ==
  /\ Locked(c)
  /\ Prior(c) # {}
  /\ Respond(c, IF \A a \in Prior(c) : SameRequest(c, a) THEN "duplicate" ELSE "conflict")
  /\ UNCHANGED <<committed, audited, transaction>>

\* (Mutant of GuardHolds: the expected relations must still be current, but
\* others may have come.)
GuardStillThere(r) ==
  r.guard # NoGuard =>
    /\ ProjectOf[r.session] # NoProject
    /\ objects[r.guard.subject].project = ProjectOf[r.session]
    /\ r.guard.expected \subseteq {i \in Current(relations) : relations[i].subject = r.guard.subject}

\* verifyRelationPreconditions: the subject is the session's project's, and
\* its current relations are the ones the client has read.
GuardHolds(r) ==
  r.guard # NoGuard =>
    /\ ProjectOf[r.session] # NoProject
    /\ objects[r.guard.subject].project = ProjectOf[r.session]
    /\ r.guard.expected = {i \in Current(relations) : relations[i].subject = r.guard.subject}

RefuseGuard(c) ==
  /\ Locked(c)
  /\ Prior(c) = {}
  /\ ~GuardHolds(request[c])
  /\ Respond(c, "conflict")
  /\ UNCHANGED <<committed, audited, transaction>>

\* (Mutant of Allowed: an inference may confirm.)
AllowedToAnyone(e) ==
  /\ e.type \in Registered
  /\ e.op = "retract" => OpenRows(relations, e) # {}

\* assessRelationEffects: each effect is judged against the tables as they
\* are before the first one is applied.
Allowed(e) ==
  /\ e.type \in Registered
  /\ ~(e.state = "confirmed" /\ e.authority = "agent_inference")
  /\ e.op = "retract" => OpenRows(relations, e) # {}

Governed(c) == \A i \in DOMAIN request[c].effects : Allowed(request[c].effects[i])

\* ROLLBACK; the decisions are written afterwards, outside of it.
Reject(c) ==
  /\ Locked(c)
  /\ Prior(c) = {} /\ GuardHolds(request[c]) /\ ~Governed(c)
  /\ GoTo(c, "auditing")
  /\ UNCHANGED <<committed, audited, transaction, request, seen, answer>>

AuditRejection(c) ==
  /\ phase[c] = "auditing"
  /\ audited' = audited \cup {c}
  /\ Respond(c, "rejected")
  /\ UNCHANGED <<committed, transaction>>

Accept(c) ==
  /\ Locked(c)
  /\ Prior(c) = {} /\ GuardHolds(request[c]) /\ Governed(c)
  /\ holder' = c
  /\ draft' = [objects |-> objects, relations |-> relations, effects |-> effects]
  /\ GoTo(c, "applying")
  /\ UNCHANGED <<committed, audited, next, request, seen, answer>>

\* One round of the loop over relationEffects.
ApplyEffect(c) ==
  LET e == request[c].effects[next] IN
  /\ phase[c] = "applying"
  /\ next \in DOMAIN request[c].effects
  /\ \A u \in {e.subject, e.target} : draft.objects[u].state # "rejected"
  /\ draft' = Applied(draft, e, ProjectOf[request[c].session], Len(activities) + 1)
  /\ next' = next + 1
  /\ UNCHANGED <<committed, audited, holder, clients>>

\* (Mutant of Commit: it does not wait for the loop over the effects.)
CommitEarly(c) ==
  /\ phase[c] = "applying"
  /\ objects' = draft.objects
  /\ relations' = draft.relations
  /\ effects' = draft.effects
  /\ activities' = Append(activities, request[c])
  /\ Respond(c, "applied")
  /\ Release
  /\ UNCHANGED audited

Commit(c) ==
  /\ phase[c] = "applying"
  /\ next > Len(request[c].effects)
  /\ objects' = draft.objects
  /\ relations' = draft.relations
  /\ effects' = draft.effects
  /\ activities' = Append(activities, request[c])
  /\ Respond(c, "applied")
  /\ Release
  /\ UNCHANGED audited

\* ensureObject meets a rejected entity, a statement fails, the session is
\* not active, the connection is lost: ROLLBACK.
Abort(c) ==
  /\ phase[c] \in {"sent", "applying"}
  /\ Respond(c, "error")
  /\ IF phase[c] = "applying" THEN Release ELSE UNCHANGED transaction
  /\ UNCHANGED <<committed, audited>>

\* The insert of the rejected decisions fails, or the daemon dies before it.
LoseAudit(c) ==
  /\ phase[c] = "auditing"
  /\ Respond(c, "error")
  /\ UNCHANGED <<committed, audited, transaction>>

-----------------------------------------------------------------------------
(* reconcileCodexRegistry *)

\* supersedeObjects closes whatever is open on a rejected object, and a
\* registered workspace is no candidate any more.
Ended(m, r) ==
  /\ r.open
  /\ \/ \E rule \in m.supersede : Touches(r, rule.object)
     \/ /\ r.type = "MAY_INCLUDE_WORKSPACE" /\ r.state = "candidate"
        /\ \E w \in m.relations : /\ w.type = "HAS_REGISTERED_WORKSPACE"
                                  /\ w.subject = r.subject /\ w.target = r.target

Superseded(rows, m) ==
  [i \in DOMAIN rows |->
     IF Ended(m, rows[i]) THEN [rows[i] EXCEPT !.open = FALSE, !.superseded = TRUE]
                          ELSE rows[i]]

\* ensureRelation looks only for an open row of the state it would insert.
Missing(rows, m) ==
  {w \in m.relations : \A i \in OpenRows(rows, w) : rows[i].state # RegistryState(w.type)}

RegistryRow(rows, w) ==
  [subject |-> w.subject, type |-> w.type, target |-> w.target,
   version |-> NextVersion(rows, w), state |-> RegistryState(w.type), authority |-> "none",
   source |-> "registry", open |-> TRUE, superseded |-> FALSE]

Inserted(rows, m) ==
  LET missing == SetToSeq(Missing(rows, m)) IN
  rows \o [k \in DOMAIN missing |-> RegistryRow(rows, missing[k])]

\* The registry's ensureObject and adoptGroupObject confirm an object and move
\* it to the project, whatever its state was.
Reconciled(objs, m) ==
  [u \in Uri |->
     IF u \in DOMAIN m.ensured THEN [state |-> "confirmed", project |-> m.ensured[u]]
     ELSE IF \E rule \in m.supersede : rule.object = u
       THEN [objs[u] EXCEPT !.state = "rejected"]
     ELSE objs[u]]

\* The plan is made under the lock, and throws if what it names is not there.
Plannable(m) ==
  /\ \A rule \in m.supersede :
       /\ rule.object # rule.by /\ objects[rule.object].state # "none"
       /\ objects[rule.by].state \notin {"none", "rejected"}
  /\ \A u \in m.adopted : objects[u].state \notin {"none", "rejected"}

Reconcile(m) ==
  /\ holder = Nobody
  /\ Plannable(m)
  /\ objects' = Reconciled(objects, m)
  /\ relations' = Inserted(Superseded(relations, m), m)
  /\ Cardinality({i \in DOMAIN relations' : relations'[i].source = "registry"}) <= MaxRows
  /\ UNCHANGED <<effects, activities, audited, transaction, clients>>

-----------------------------------------------------------------------------
(* The specification *)

RecordActivity(c) ==
  \/ AnswerRetry(c) \/ RefuseGuard(c) \/ Reject(c) \/ AuditRejection(c)
  \/ Accept(c) \/ ApplyEffect(c) \/ Commit(c) \/ Abort(c) \/ LoseAudit(c)

Next ==
  \/ \E c \in Client :
       \/ Read(c) \/ Resend(c) \/ RecordActivity(c)
       \/ \E s \in Session, k \in Key \cup {NoKey}, g \in Guards(c), b \in Batch :
            Submit(c, [session |-> s, key |-> k, guard |-> g, effects |-> b])
  \/ \E m \in Manifest : Reconcile(m)

Spec == Init /\ [][Next]_vars
-----------------------------------------------------------------------------
(* Properties *)

Request == [session: Session, key: Key \cup {NoKey},
            guard: {NoGuard} \cup [subject: Uri, expected: SUBSET Nat], effects: Batch \cup {<< >>}]
Journal == Seq([activity: Nat, effect: Effect])
Tables == [objects: [Uri -> Object], relations: Seq(Relation), effects: Journal]

\* The type of every variable.
TypeOK ==
  /\ [objects |-> objects, relations |-> relations, effects |-> effects] \in Tables
  /\ activities \in Seq(Request)
  /\ audited \subseteq Client
  /\ holder \in Client \cup {Nobody} /\ draft \in Tables /\ next \in Nat
  /\ phase \in [Client -> {"idle", "read", "sent", "applying", "auditing", "answered"}]
  /\ request \in [Client -> Request] /\ seen \in [Client -> SUBSET Nat]
  /\ answer \in [Client -> {"none", "applied", "duplicate", "conflict", "rejected", "error"}]

\* A triple has one open row, and it is the newest version, but for the types
\* the registry writes too: it looks for a row of its own state only, so that an
\* older row in the other state may stay open beside the one it inserts, and a
\* candidate it has inserted may be superseded beside one an agent confirmed.
OneOpenVersion ==
  \A i, j \in DOMAIN relations :
    LET r == relations[i]  s == relations[j] IN
    i # j /\ SameTriple(r, s) =>
      /\ r.version # s.version
      /\ r.open /\ r.version < s.version =>
           /\ s.open => /\ r.type \in RegistryType /\ r.state # RegistryState(r.type)
                        /\ s.state \in {RegistryState(s.type), "confirmed"}
           /\ ~s.open => r.type = "MAY_INCLUDE_WORKSPACE" /\ s.superseded

\* "A confirmed relation confirms that its non-rejected endpoints exist", also
\* while candidates about the same objects come and go; and no relation stays
\* current on an object the registry has rejected.
ConfirmedEndpoints ==
  \A i \in Current(relations), u \in Uri :
    Touches(relations[i], u) =>
      /\ objects[u].state # "rejected"
      /\ relations[i].state = "confirmed" => objects[u].state = "confirmed"

\* No inference confirms itself: the registry has inserted a current confirmed
\* relation as confirmed, or it was asserted as confirmed under an authority that
\* is not inference, after the last time it was retracted.
ConfirmedByAuthority ==
  \A i \in Current(relations) : relations[i].state = "confirmed" =>
    \/ relations[i].source = "registry" /\ RegistryState(relations[i].type) = "confirmed"
    \/ \E n \in DOMAIN effects :
         LET e == effects[n].effect IN
         /\ SameTriple(relations[i], e) /\ e.op = "assert"
         /\ e.state = "confirmed" /\ e.authority # "agent_inference"
         /\ \A m \in n + 1 .. Len(effects) :
              effects[m].effect.op = "retract" => ~SameTriple(effects[m].effect, e)

\* "Current state is derived from active links": a triple is current if the last
\* effect on it asserted it, unless the registry has superseded its newest row;
\* and after a retraction it is current only if the registry has inserted it
\* again.
HistoryExplainsState ==
  \A n \in DOMAIN effects :
    LET e == effects[n].effect
        rows == {i \in DOMAIN relations : SameTriple(relations[i], e)} IN
    (\A m \in n + 1 .. Len(effects) : ~SameTriple(effects[m].effect, e)) =>
      /\ e.op = "retract" => \A i \in OpenRows(relations, e) :
                               relations[i].source = "registry"
                                 /\ relations[i].type \in RegistryType
      /\ e.op = "assert" =>
           \/ OpenRows(relations, e) # {}
           \/ \E i \in rows : /\ relations[i].superseded
                             /\ \A j \in rows : relations[j].version <= relations[i].version

\* A write happens once and whole: no two activities share a key, and the
\* journal has the effects of each activity in one piece, all of them, in their
\* order.
OnceAndWhole ==
  /\ \A a, b \in DOMAIN activities :
       activities[a].key = activities[b].key /\ a # b => activities[a].key = NoKey
  /\ \A a \in DOMAIN activities :
       \E k \in 0 .. Len(effects) :
         /\ {n \in DOMAIN effects : effects[n].activity = a}
              = k + 1 .. k + Len(activities[a].effects)
         /\ \A i \in DOMAIN activities[a].effects :
              effects[k + i].effect = activities[a].effects[i]

\* The answers are true: a client that is told its write is applied, now or
\* earlier, finds its very request among the activities, and one whose write
\* is rejected finds the decision in the audit, though the write was undone.
AnswersAreTrue ==
  \A c \in Client :
    /\ answer[c] \in {"applied", "duplicate"} =>
         \E a \in DOMAIN activities : activities[a] = request[c]
    /\ answer[c] = "rejected" => c \in audited

\* A guarded write is applied to just the relations its client has read: no
\* write in between is lost.
GuardedWritesSeeWhatTheyRead ==
  [][\A c \in Client :
       activities' # activities /\ holder = c /\ request[c].guard # NoGuard =>
         \A i \in 1 .. Len(relations) :
           relations[i].subject = request[c].guard.subject =>
             (relations[i].open <=> i \in request[c].guard.expected)]_vars

\* "A retraction must match an active relation": what the journal retracts was
\* asserted since it was retracted before.
RetractionsMatch ==
  \A n \in DOMAIN effects : effects[n].effect.op = "retract" =>
    \E m \in 1 .. n - 1 :
      /\ SameTriple(effects[m].effect, effects[n].effect)
      /\ effects[m].effect.op = "assert"
      /\ \A k \in m + 1 .. n - 1 :
           SameTriple(effects[k].effect, effects[n].effect) => effects[k].effect.op = "assert"

\* "Only deterministic authoritative evidence or explicit human approval
\* becomes confirmed": a confirmed relation never names inference as the
\* authority it rests on.
ConfirmedNamesItsAuthority ==
  \A i \in Current(relations) :
    relations[i].state = "confirmed" => relations[i].authority # "agent_inference"
==============================================================================
