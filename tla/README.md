# TLA+ models of boron-context

boron-context is a local daemon (TypeScript, PostgreSQL) that gives coding
agents a durable context: agents open *sessions*, record *activities* in them,
change an *ontology* of objects and relations through those activities, and
read *capsules* of evidence back.  Several agents, hooks, scripts and an
interval timer talk to one database through one pool of connections, so most of
what can go wrong is a matter of order: which transaction saw what, who waited
for whom, what was committed when something failed.  This directory models that
in TLA+, checks small instances with TLC, and proves the safety properties for
instances of every size with TLAPS.

Paths below are relative to the repository.

## The system and what is modelled

| component | code | state it keeps | operations | modules |
|---|---|---|---|---|
| agent sessions | `src/db/activity-repository.ts`, `src/runtime.ts` | `agent_sessions`, `activities` | start, bootstrap, record, complete, SessionEnd, lease sweep | `SessionLifecycle`, `SessionContract`, `SessionLifecycleProofs` |
| activity writeback and ontology | `src/db/activity-repository.ts`, `src/db/continuity-writeback.ts` | `objects`, `relations`, `relation_effects`, `ontology_governance_events` | recordActivity: retry, guard, governance, effects, audit | `OntologyWriteback`, `OntologyWritebackProofs` |
| project registry | `src/db/project-registry.ts`, `project-identity.ts`, `project-roots.ts` | projects, aliases, objects, relations | plan and apply a manifest, resolve a name | `ProjectTables`, `ProjectRegistry`, `ProjectTablesProofs`, `ProjectRegistryProofs`; `OntologyWriteback!Reconcile` |
| project supersession | `src/db/project-supersession.ts` | the same, sessions, capsules | move history, archive | `ProjectRegistry`, `ProjectRegistryProofs` |
| Codex thread sync | `src/db/codex-thread-repository.ts`, SessionStart hook | snapshots, observations, thread state | read, sync a snapshot, map a session | `CodexThreadSync`, `CodexThreadSyncProofs` |
| GitHub reconciliation | `scripts/reconcile_github_pr.py` | a plan file | plan, apply, verify | `GithubReconcile`, `GithubReconcileProofs` |
| context resolution | `src/core/resolver.ts` | none | stages, ranking, packing | `ContextCapsule`, `ContextClients`, `DaemonClientsProofs` |
| capsules and meter | `src/db/activity-repository.ts` | `context_capsules`, meter samples, observations, uses | save, record a use, observe | `ContextClients`, `DaemonClientsProofs`; health queries not modelled |
| gateway, inspector | `src/gateway/server.ts`, `src/db/inspector-repository.ts` | tickets, sessions, corrections | routes, correct, resolve | routes in the modules of what they call; the inspector not modelled |
| LAN pairing | `src/gateway/lan-mr-auth.ts`, `lan-mr-server.ts`, `src/lan-mr-runtime.ts` | two secret files, failures | start, show a code, pair, read | `PairingGateway`, `PairingGatewayProofs` |
| Codex hooks, MCP server | `plugins/boron-context/` | a queue | bootstrap, end, observe, tools | `CodexThreadSync`, `ContextClients` |
| the daemon's process | `src/platform/launchd.ts` | up or down | dies, is started again | `DaemonProcess`, `DaemonClients`, `DaemonClientsProofs` |
| adapters | `src/adapters/`, `src/db/ontology-repository.ts` | none | search | what a capsule depends on, in `ContextCapsule` |
| migrations, front ends, CLI, installers, evaluations | the rest | files and processes of one machine | I/O, rendering, scoring | not modelled |

How they interact: the gateway turns each HTTP request into a call of a
repository, and each call is one or two transactions on a connection of the
pool.  Hooks and the MCP server are HTTP clients; hooks give up after a time-out
and go on without an answer, the MCP server waits for its tool calls.  The registry, the supersession and the activity
writes share one advisory lock (`lockOntologyWrites`); the sweep, starts and
SessionEnds do not take it and meet the others at row locks and at a unique
index only.  `PROJECT.json` lists the hazards that follow, each at its line.

## SessionLifecycle

One row of `agent_sessions` per element of `Session`, and its journal `log[s]`
of activities.  A transaction is what a connection `w` of the pool is doing:
`req[w]` is the request, `step[w]` where it is, `now[w]` its `now()`, `target[w]`
the row it waits for, holds or inserts.

* Transactions are READ COMMITTED.  What one has written becomes visible in the
  step that commits; an uncommitted insert (`step = "inserted"`) is invisible to
  lookups and only felt through the unique index, which waits for it
  (`IndexWaits`) and then rejects (`IndexRejects`).
* `SELECT ... FOR UPDATE` locks a free row at once (`Lookup`) or waits and
  evaluates its WHERE clause again on the row as it is then (`Wake`).  The sweep's
  `SKIP LOCKED` passes over locked rows (`Sweepable`).
* `now()` is the time of BEGIN.  `clock` is the server's clock; a sweep that a
  start runs first is a transaction of its own and the start takes a new `now()`.
* `Fail` is a refusal by the code, `Abort` anything else that ends a transaction
  (statement error, lost connection).  A crash of the daemon is an `Abort` of
  every connection; nothing else of the daemon matters to these tables.
* What a request asks for beyond the session it is about (lease length, project,
  key, activity type, outcome) is chosen in the step that first uses it.
* The type of an activity is the client's free text (`ClientType`), and a client may
  record `session.completed` on a session that stays active.  So an entry of the
  journal also says which call wrote it (`by`), as `source` and key do in the table,
  and `ClosedOnce` speaks of the entries of calls that close, not of types.
* A bootstrap is a start that ends early when no project resolves.

| code | actions |
|---|---|
| `expireStaleSessions` | `SweepSelect`, `SweepCommit` |
| `startSession`, `bootstrapSession` | the sweep, `StartBegin`, `Lookup`, `Wake`, `Resume`, `Insert`, `InsertCommit`, `Rollback` |
| `recordActivity` | `TakeOntologyLock`, `Load`, `Record`, `Refuse` |
| `completeSession` | `TakeOntologyLock`, `Load`, `Complete`, `Refuse` |
| `endSessionFromClientLifecycle` | `Lookup`, `Wake`, `EndCommit` |

`SessionContract` says what a client may rely on without any of this: sessions
open (one active per thread), adopt a project once, take activities (a keyed one
at most once), close with one entry of a call that closes, and then never change.
`Work` in it is whatever a client records, of any type.
`ImplementsContract` is the refinement; the mapping reads status, thread and
project off the rows and the journal off `log`.

### Runs

* `session_safety`: two sessions, a thread and `NoThread`, a project and
  `NoProject`, one key, two connections, clock 0..1, leases of length 1.  Two
  connections suffice for every pairwise race, and a start sweeps, so sweeps race
  with everything too; two sessions are needed for a thread's second session after
  a close, for a key used elsewhere, and for a sweep with a choice
  (`SweepLimit = 1`).  Clients record work, or the type that a completion has.
  Sessions and connections are symmetric.  About 1.2 million states.
* `session_liveness`: one session, two connections and the interval's own
  connection, under `FairSpec`.  Without symmetry.  About 48 000 states.
* `session_begin_conflict`: two begins at once.  A disagreement with the operating
  manual, see below.

Bounds: `Session` bounds the ids; a start is accepted while one is unused
(`Unused`), since real ids do not run out.  `MaxClock` bounds `Tick`.  The number
of activities is bounded by the keys: activities without a key, other than the
closing one, are left out, as they add nothing that keyed ones do not do.

Fairness (`Fairness`): the interval timer fires for ever (`runtime.ts:80`); a
transaction that can go on again and again goes on, because PostgreSQL serves the
waiters of a lock in order; a sweep is not hit by an error every single time.
Clients owe nothing: no request has to be sent.  `AbandonedSessionsClose` is
stated for sessions that no request holds for ever, since the sweep skips locked
rows and requests could otherwise hold the row, one after the other, each time it
looks.

## OntologyWriteback

`recordActivity` seen from the ontology.  All its writers hold one advisory lock
to the end of their transaction, hence one `draft` at a time: `Accept` copies the
committed tables into it, `ApplyEffect` runs one round of the loop over
`relationEffects`, `Commit` publishes the tables and the activity together, and
`Abort` drops the draft.  What is decided before the first write (retry, guard,
governance) reads tables that nobody can change meanwhile and is one step each.
A rejected request is rolled back and audited over another connection
afterwards, hence `Reject` and then `AuditRejection` or `LoseAudit`.  Clients
`Read` the ontology graph, `Submit` a write that may be guarded by what they have
read, and may `Resend` the same after any answer, since answers get lost.

The other writer is `reconcileCodexRegistry`, which takes the same lock and leaves no
effects in the journal.  `Reconcile(m)` is one such transaction: `m` is what its plan
comes to on these objects (`Manifest`; how a plan is made is `ProjectTables`).

| code | definitions |
|---|---|
| plan of `supersedeObjects`, adoption of a group object | `Plannable` |
| `supersedeObjects`, `supersedeCandidateWorkspaceRelation` | `Ended`, `Superseded`: rows closed without an effect |
| `ensureRelation` | `Missing`, `RegistryRow`, `Inserted`: a next version, unless a row *of the state it would insert* is open |
| `ensureObject`, `adoptGroupObject` | `Reconciled`: confirmed and moved, also an object that was rejected |

Agents may name the registry's three relation types as well (`migrations/011`, lines 94-96),
and no unique index forbids two open rows of a triple.  So two of them are reachable:
an agent has confirmed a `MAY_INCLUDE_WORKSPACE` candidate and the registry looks for a
candidate, or an agent has guessed a `HAS_REGISTERED_WORKSPACE` and the registry looks
for a confirmed one.  `OneOpenVersion` says that there is no other way to get there.
In the same sense `ConfirmedByAuthority` and `HistoryExplainsState` say what the
registry adds to what the journal explains: rows it has inserted as confirmed, rows
it has opened after a retraction, and rows it has superseded.  A row keeps who inserted
it (`source`) and whether the registry closed it (`superseded`), as `provenance` does.

Left out of the transaction: aliases, evidence rows, lease renewal, context-use
receipts, confidences and dates; accepted governance events (they are in the same
transaction as the activity).  Whether the session is active is
`SessionLifecycle`'s subject and part of `Abort` here.  A guard here covers all
relation types of its subject.

`ontology_writeback` has two symmetric clients, a session, one key and writes without
one, two objects, three relation types (`USES` and two of the registry's) and three
requests: a confirmed use with a confirmed `MAY_INCLUDE_WORKSPACE`, an inference that claims to
confirm, and a retraction with a guessed `HAS_REGISTERED_WORKSPACE`.  The registry has
three manifests: it finds a candidate workspace; it knows the workspace by its root; it
rejects the workspace's object, which the other two revive.  Two activities of two effects
and two rows of the registry (`MaxRows`, the bound on what it inserts) reach a second version of
a triple, two open rows of one, a revived object, and a write or a reconciliation between
another client's read and its guarded write.  About 1.9 million states.

`ontology_retractions` and `ontology_provenance` also have an unscoped session, and
requests that retract twice or guess about what is confirmed.  Merges, which move objects
to another project, are `ProjectRegistry`'s.

## GithubReconcile

`reconcile_github_pr.py` composed with `OntologyWriteback` (it EXTENDS it and
adds three variables).  `github` is what the API would answer, with a version for
`updatedAt`; `plans` are the files written by `plan`; `helper[c]` is one process of
the script, which reads GitHub, reads the graph, posts, waits or gives up, reads
back and ends with a receipt.  Each of these is a step of its own, so GitHub, another
helper, an agent or the daemon's work on an earlier request of the same client can
come between any two.

| code | actions |
|---|---|
| `plan` | `PlanFetch`, `PlanGraph` |
| `apply_plan` up to the write | `ApplyFetch`, `ApplyGraph`, `Post` |
| `write_activity` | `Answered`, `GiveUp` |
| verification after the write | `Readback`, `FinalFetch`, `ReadFails` |
| death of the process | `Kill` |
| the daemon | `Daemon`, the actions of `OntologyWriteback` |
| everybody else | `Change`, `AgentWrites` |

The request carries the plan's index as its key (the script uses the plan's digest)
and the client as `by`, for `occurredAt`, which makes two applies of one plan different
requests.  Left out: checks of the form and identity of answers, the health check
(a failure is a `Kill`), and a second request of a client while the daemon still
works on its first.

`github_reconcile` has two symmetric helpers, two plans, one change of the pull
request (with or without a change of its state, which is enough to make any earlier
reading stale), three activities and an agent that believes, unasked, that the pull
request is merged; the graph starts empty or with a legacy relation.  The registry
is not in this run (`Manifest = {}`): it writes no relation of a pull request, and a
manifest that rejects one's object is left out.  About 1.2 million
states.  It shows that plans never produce two confirmed states, that a plan is
applied once, and that a receipt of success is true.  It does *not* show that an
older reading never overwrites a newer one: the guard compares relation ids, and
a guess that a newer helper has confirmed keeps its id.  The older helper's write
then goes through, its last look at GitHub differs, and it reports
`applied_unverified`; that this is always noticed is `NoStaleSuccess`.

## CodexThreadSync

Which project a Codex thread belongs to.  `assigned` and `plan` are Codex's state
file and the operator's approved plan; a hook reads one, then the other, sends what
it has read in batches all at once, waits until each is answered or has timed out,
and bootstraps.  A batch is one transaction of a connection: the insert of the
snapshot's id, which waits for an import of the same id that has not ended; the
look at `projects`; and the inserts of observations and state with the commit, one
step because the upsert reads the row under its lock and nothing is read later.

| code | actions |
|---|---|
| `collectCodexThreadSyncBatches` | `StartHook`, `SendBatches`, `CollectFails` |
| `requestJson` | `GiveUp` |
| `sync` | `InsertSnapshot`, `Duplicate`, `ResolveProjects`, `CommitImport`, `AbortImport` |
| `ensureProject` | `Bootstrap` |
| registry, supersession | `Register`, `Archive` |
| Codex, operator, other clients | `Assign`, `Approve`, `Import` |

`Register` is what a manifest does to a project: it registers it, or adopts it again,
whatever Codex id and status it has (`adoptProjectSourceUri` is not filtered by the id,
and `projectMetadataPatch` overwrites it), also a project that was archived.  A row of
a thread keeps the project it has, whose Codex id may be another one since.  So the
properties compare evidence with the project that its Codex id named when it was
imported, and not with the project's present id.

Abstractions: a snapshot's id is the set of what was read and the index of the batch
(the digest the hook computes); threads are integers, for their order; confidences,
digests of evidence, metadata and dates decide nothing and are left out; a request
that is lost is one that nobody takes up.  `hook[h].imported` remembers what was
acknowledged, for the properties only.

`codex_hooks` has two hooks, two threads (in one batch), two Codex ids, two projects
that are registered, archived and adopted again, two connections, one edit of the assignments, of
the plan or of a project's Codex id or status by an adoption (`MaxEdits`), and another client that sends a
candidate which names no project.  Two hooks and one edit give every order of an older and a
newer reading, and any initial assignment; two projects let an id pass from one to the other.
About 1.2 million states.  Cutting into several batches is modelled but not
exercised by this instance.  It may stop, since hooks run once: deadlock is not
checked.

What the model also shows, and no document denies: evidence is never withdrawn (a
thread taken out of its Codex project keeps its row); a thread moved from one Codex
project to another is in conflict until a plan decides; and a snapshot imported
before its project was registered is a duplicate afterwards, so that its threads stay
candidates until the evidence changes.

## ProjectTables and ProjectRegistry

What a project is, and who may change it.  `ProjectTables` holds no state: it
defines, as functions of the tables, how a name resolves to a project
(`Resolve`), how Codex's state and the operator's manifest become a registry
(`Registry`), whether that can be planned against the tables (`Plannable`) and
what applying it does to them, statement by statement in the order of the code
(`Reconciled`).  A statement that violates a unique index makes the transaction
roll back, hence `ok` in the tables being built and `Accepted` at the end.  The
code's inner loops (over the roots, workspaces and candidates of one project) write
rows that do not depend on one another and are one set each; its outer loops, whose
order does matter, are the sequence `Parts`.  `Uri` and `Object` are what a source
and a manifest's object may be; `Input` is what a state file and a manifest may say.

| code | definitions |
|---|---|
| `resolveProjectIdentity` | `Tier`, `Resolve` |
| `loadCodexRegistry`, `discoverCodexProjects` | `Registry`, `Discovered` |
| `planCodexRegistry` | `UniqueIdentities`, `RulesApply`, `ProjectsPlan`, `IndependentsPlan`, `Adopted`, `Workspaces`, `Candidates` |
| `reconcileCodexRegistry` | `RejectAlias`, `RejectObject`, `WithIdentities`, `RegisterCodex`, `RegisterIndependent`; `Parts` and `AllApplied` for their order, `Reconciled` |
| `ensureObject`, `adoptGroupObject`, `ensureRelation` | `EnsureObjects`, `EnsureRelations` |

`ProjectRegistry` has the operator and the daemon.  A reconciliation is one step,
since it reads and writes only tables that the ontology lock protects.  A merge is
not: `agent_sessions`, `activities` and the others of `reassignProjectHistory` are
written by starts that take no such lock, so each of its UPDATEs is a step
(`MoveTable`), sees what has committed when it begins (`Seen`), and is published by
`CommitMerge`.  A start (`BeginStart` to `SaveMeter`) looks its project up in its
transaction and once more, by name, for its first capsule.

Agents are in it as far as they write relations: `Record` is a `recordActivity` with one
effect out of `Claims`, in a session that has started, under the ontology lock
(`ApplyEffect`; the rest of it is `OntologyWriteback`).  The registry then meets rows of its
types that it has not made, and objects that an agent has mentioned first.

`history[s][table]` is the project of session `s`'s row in `table`.  Left out:
confidences, provenance, time stamps, and the dry run.  A directory is
identified with its file URI; roots may appear and disappear between two
registries (`Disks`), and the home directory is never one.

`project_registry` starts from two legacy projects of one name in two directories
and lets an operator make three runs out of six registries and five manifests of
repairs, or an agent record one of three effects instead of a run: Codex alone with one project or two, a manifest that adopts, renames, replaces
the source and supersedes an alias and an object, one that only names, one
that supersedes what an earlier one has created, and one that registers what it
supersedes (`Renewed`).  One of the repair manifests merges
two projects into one another in turn, so that a merge's source is the target of the
next.  Two runs reach every pair of a
registry and a merge; the third is for what the second has retired.  One session
starts, with or without a bootstrap.  The agent confirms or retracts the `MAY_INCLUDE_WORKSPACE`
that the registry has as a candidate, or relates the object that a manifest retires; runs and
effects are bounded together (`MaxRuns`).  About 222 000 states.  A relation may
have two current versions there (an agent confirms a candidate, the registry applied again
inserts another); `CurrentRelationsLive` speaks of their ends, and what is promised of
versions is `OntologyWriteback`'s `OneOpenVersion`.

`src/docs/project-identity-repair.md:82` says that "re-running the same manifest is
idempotent".  The code keeps that of a manifest that satisfies `Repeatable`, given
the tables it is applied to, and `RegistryIdempotent` says it of those: applied
again, the registry is planned, and no row, relation or version is new.  The five
conditions, and what the code does to a manifest that is without one (each was
tried on small tables; `Renewed` is the one that the run has):

* `NamesStay`: a URI that the manifest names a project by is not given to another.
  A project has replaced its source, and the manifest registers a new one under the
  old source while its rules still name the first by it: afterwards two projects
  answer to the URI, and the plan throws.
* `RootsStay`: a root of a Codex project is not the source that another project gets
  or gives up.  An independent project that is registered at such a root becomes a
  workspace only the second time; one that leaves it, a candidate.
* `ObjectsApart`: two entries do not adopt one object.  One entry ends the candidate
  relation that the other begins, with a new version at every run.
* `RetiredStays`: the manifest registers nothing that it retires, and replaces nothing
  by what it retires.  A retired object that the manifest makes gets new relations at
  every run (`Renewed`); if `a` is superseded by `b` and `b` by `c`, the plan
  throws, since `b` is rejected.
* `IndependentsApart`: what is taken over has no name of an independent project.  A
  Codex entry that adopts an archived project confirms it, with the names it had;
  then the plan finds the independent's name taken and throws.

The conditions are sufficient.  One part of `RetiredStays`, that a project is not given
an alias that the manifest also rejects for it, is there for the argument: such an
alias is rejected and restored by each run, which only the transaction sees.  None of
this loses anything: the second run either fails as a whole or adds relations.

The model shows four more things nobody denies: a session that
starts while its project is merged may leave rows with the archived project
(`MergeTakesHistory` excepts those); a later repair of the same manifest that merges
into an earlier one's source gives it rows again, since all repairs are planned
before the first is done (excepted as well); a registry applied again confirms a project
that was archived meanwhile; and a root or workspace taken out of a registry
keeps its relation.

## ContextCapsule, ContextClients, DaemonClients

`ContextCapsule` is what goes into a capsule: the stages of the plan, what the
adapters may find or fail to find in each (`StageOutcomes`), deduplication by
source (`Winners`), ranking, the greedy budget (`Packed`) and what the capsule
reports as unresolved.  How words score is left open: every ranking is possible
(`Rankings`).  The wiki stages work like the codebase stage and are not modelled
separately; of the codebase, a piece of evidence has its own project.

`ContextClients` is one Codex thread's clients and the daemon they call.  A
request in `requests` goes through the code's steps; between any two the daemon
may die, another request go on, a policy be confirmed or rejected.  A hook that
gives up takes nothing back, so a bootstrap may commit after its SessionEnd.

| code | actions |
|---|---|
| `handleSessionStart`, `handleSessionEnd`, `requestJson` | `SendObservation`, `SendBootstrap`, `SendEnd`, `GiveUp` |
| the MCP server's queue, `callTool` | `Call`, `CallTool` |
| start, bootstrap, complete, lifecycle-end | `StartSession`, `RefuseStart`, `CompleteSession`, `EndSession` (one step each: their interleavings are `SessionLifecycle`'s) |
| `resolveWithAudit` | `ResolveProject`, `RunStage`, `Pack` |
| `saveCapsule`, `saveMeter` | `Save`, one statement at a time |
| answers and errors | `AnswerCapsule`, `Fail` |
| `recordContextUse`, `validateContextUse` | `RecordUse`, `ValidUse` |
| `observeAgentClient` | `ObserveClient`, `Merged` |

An MCP tool call has no time-out, as in the code; `Dies` is what ends one that
hangs.  `capsules` and `held` remember what was put together and received, for
the properties only.

## PairingGateway

Two processes share the files `pairing.secret` and `session.secret`: the gateway,
and the command line that shows the code.  Each may be killed between any two
steps.  Creating a file and writing it are two steps, and so are writing the
replacement and renaming it.  `secret` in `process` is what a process has read;
a command line that has loaded its secrets shows the code of the present window
and ends.  The exchange is the sequence `PostCode` (limit checked, body awaited),
`Exchange`, `WriteTemporary`, `Rename`, `Issue`, with a step of anybody between.

| code | actions |
|---|---|
| `loadOrCreateSecret` | `CreateFile`, `WriteFile`, `ReadFile`, `RefuseFile` |
| `startLanMrRuntime`, `waitForLanMrDaemon` | `Launch`, `Serve`, `NoDaemon` |
| `POST /pair`, `exchange`, `replaceSecret` | `PostCode`, `RejectBody`, `Refuse`, `Exchange`, `WriteTemporary`, `Rename`, `ReplaceFails`, `Issue` |
| reads of a paired headset | `PostRead`, `AnswerRead` |

Abstractions: time is counted in pairing windows, and a window of failures, as
long, begins with one; codes of different secrets or windows differ; a signed
session is a record with the key that signed it; a session issued to an answer
that nobody receives counts as issued.  A window may pass between reading the
body and the exchange.

A gateway that dies after creating a file and before writing it leaves an empty
file, and every later start refuses it (`RefuseFile`): the code has no way out of
that but to delete the file.  `SecretSurvives` says that a secret, once whole, is
never lost.

`DaemonClients` composes both with `DaemonProcess`: the gateway waits for the
daemon, hooks and tools fail while it is down.  `daemon_clients` checks the
composition under five workloads, chosen by the initial state: queries while an
operator changes policies; a session with uses of its capsules; the life of
sessions of two projects; the hooks beside a completion; and pairing.  Each
workload bounds the tool calls (one or two: two are needed for a use of a capsule
and for a session that is resumed or refused) and lets the daemon die once, at any
step; observations and hooks are bounded by themselves.  There are two policies
of one source, so that a reference and an instruction collapse, one piece of
code, and budgets that hold some of it; a request may die or be lost after each
step.  The pairing workload has one headset, two requests in hand, four secrets
(two files, two exchanges), a clock of two windows and a limit of one failure.  The
policies are symmetric.  About 970 000 states.  Deadlock is not checked: when the
workload is done and everything answered, nothing has to happen.

## What the code does and the documentation does not say

Five runs end in a violation of what the documentation says:

* `session_begin_conflict`: the manual says that repeating begin in one thread
  resumes.  Two begins at once both find no session; the second one's insert waits
  for the first and is then refused.  The caller gets an error, and a third begin
  resumes.  The invariant that matters (`OneActivePerThread`) holds.
* `ontology_retractions`: a retraction must match an active relation, but all
  effects of one request are judged before the first is applied, so a request may
  retract the same triple twice.
* `ontology_provenance`: repeating a confirmed assertion as an agent's guess leaves
  the relation confirmed but overwrites the authority in its provenance, after
  which `evidence-temporality.ts` no longer takes it for a deterministic one.
* `codex_dispute`: an equal-authority disagreement should become `conflicted`.  A
  conflicted row has a NULL Codex project, and a later candidate of the same
  authority that names none agrees with NULL, so the row becomes a candidate.  Hooks
  send no such observation, other clients may.  It stays without a project
  (`DisputedNeverConfirmed`), only the health report no longer shows the conflict.
* `registry_capsule`: a session should get a capsule of its project.  The gateway asks
  for it by the project's *name*, which may be ambiguous, or be another project's
  canonical name by now; the capsule is then that project's, or no project's.

## What is proved

`SessionLifecycleProofs` proves, for any sets of sessions, threads, projects, keys
and connections, any lease lengths and any clock bound, from `ConstantAssumption`:
`TypeOK`, `OneActivePerThread`, `ClosedOnce`, `JournalKeepsProject`, `NoDeadlock`,
`SweptOnlyExpired` and `ImplementsContract`.

The inductive invariant `Inv` adds to the properties what they rest on:

* `Control`: what a transaction at a given step is about (its target, its request);
* `LockDiscipline`: who holds which lock at which step, and that a transaction that
  has locked an active row still finds it active;
* `InsertsExclude`: two inserts under one thread are never both uncommitted, and
  none is while a session of the thread is active;
* `OpenReason`, `ReasonIsCall`, `KeysByCall`: which reason an open row and a closed one
  have, and which call writes which keys.

The argument has two layers.  The lock layer says that each step that changes the
tables does so under the lock that makes what it has read still true; from it
follows that every step is a step of the contract or leaves the tables alone
(`ContractStep`).  The table properties are then kept by the contract's steps
(`TableInvStep`), without a look at the transactions again.  `NoDeadlock` follows
from an order of what is waited for: the ontology lock, then rows, then inserts.
`SweptOnlyExpired` needs that a swept row is locked from its selection to the
close, so that its lease is the one the sweep looked at, and that the clock does not
run backwards.

`PairingGatewayProofs` proves, for any headsets, requests in hand, limits and
bounds, from `PairingAssumption`, of `GatewaySpec`: `GatewayTypeOK`, `CodeUsedOnce`
and `SecretSurvives`.  `GatewaySpec` leaves the daemon arbitrary, so what is proved
does not depend on when it is up.

The inductive invariant `PairingInv` adds to type correctness and `CodeUsedOnce`:

* `LoadedWhole`: an empty file has at most one process that is about to write it; a
  process that has gone on to its second file has a whole first secret, and one that
  waits or is up has both;
* `OneExchange`: at most one request is between `Exchange` and `Issue`, `exchanging`
  says so, its code is of the secret in memory, and its replacement is another
  secret, the one in the file once it is renamed;
* `SecretsRetire`: a secret for which a session was issued is nowhere any more:
  not in the file, not in the gateway's memory, not about to be written to either.

The argument: a code is accepted for the secret in memory only.  While it is being
replaced, `exchanging` keeps out every second request; when the session is issued,
the file has the replacement already, and memory takes it in the same step.  A
gateway that is killed in between starts from the file, which no longer has the
used secret, and has issued nothing.  New secrets differ from all that were drawn,
so a retired one does not come back; hence `CodeUsedOnce`.  `SecretSurvives` holds
because a process creates a file only where there is none, writes only the one it has
created, and the exchange replaces a file by renaming a whole one.

`DaemonClientsProofs` proves, of `Spec`, for any policies, sources, asks, budgets and
workloads: `ClientsTypeOK`, `PolicyGapIsSaid`, `AnsweredIsMeasured`, `UsesAreTrue`,
`ObservationNeverForgets`, and that the composition implements `GatewaySpec`
(`GatewayIsAlone`), from which `CodeUsedOnce` and `SecretSurvives` carry over.  The
assumptions are `CapsuleAssumption` (finitely many policies and sources, what a
source is the project of), that hooks ask for something (`HookAskAssumption`), the
types of the workloads, and `PairingAssumption`.  The inductive invariant
`ClientsInv` says of each table what it is (`TablesInv`: one active session, capsule
ids that count, samples of capsules only) and follows each request:

* `Resolving`: while stages are run, a high-risk intention has its instruction, or
  the gap is noted, or the policy stage is ahead;
* `Saving`: the saves that are left are an end of their sequence, and those that are
  not left have been done;
* `TrafficInv`: the request of each waiting client is in hand.

Since no step takes away what was measured (`TablesGrow`), what a request has done
stays true whatever others do in between; an answer comes when nothing is left.

`OntologyWritebackProofs` proves, from `ConstantAssumption`, for any clients,
sessions, URIs, relation types and effects: `TypeOK`, `OneOpenVersion`,
`ConfirmedEndpoints`, `ConfirmedByAuthority`, `HistoryExplainsState`, `OnceAndWhole`,
`AnswersAreTrue` and the action property `GuardedWritesSeeWhatTheyRead`.  The
inductive invariant `OntologyInv` says the same of the committed tables and of the
draft of the one open transaction, and relates the two:

* `CommittedInv`, `DraftOf`: rows and journal are sound, versions are at most as many
  as rows (`VersionsCounted`), and the draft's journal is the committed one followed by the first
  `next - 1` effects of the accepted request;
* `StillAccepted`: what was judged when the request was accepted (no prior activity of
  its key, the guard, the authority) holds to the end, as nobody else holds the lock;
* `AnswersInv`: a client that is told something has what it is told.

The lemmas about one `ApplyEffect` are about any tables: a retraction closes all
open rows of a triple, an assertion merges into the newest open one or opens one with
a version that no row of the triple has.  A reconciliation is taken in its two steps:
closing rows that it marks as superseded, and inserting rows whose versions are new;
what the four properties say of the rows apart from the journal is what these two
steps leave of it.  `OnceAndWhole` and the invariant of the draft are
what an abort anywhere needs.

`GithubReconcileProofs` builds on it and proves, of `ReconcileSpec`, from
`ReconcileAssumption` (agents only assert inferences; the states of a pull request
and the legacy type are the relation types there are): `ReconcileTypeOK`,
`OneConfirmedState`, `PlansAppliedOnce`, `SuccessIsCurrent` and `NoStaleSuccess`.  The
inductive invariant `ReconcileInv` rests on three facts.  A row's id is its index
and what it is about never changes, so a plan that names ids names triples
(`PlansInv`).  A guarded write is applied only when the current rows are those its
plan was made from, so that what is confirmed in the draft is what the plan asserts
or is still to be retracted (`Applying`), whatever agents wrote between reading and
posting.  And a helper knows at each stage what it has seen (`Knows`): after the
last look at GitHub its version is still its own, so no plan applied before its own
is of a newer reading.

`CodexThreadSyncProofs` proves, from `SyncAssumption` (integers for threads, finitely
many; batches of at least one): `TypeOK`, `StateIsDerived`,
`DisputedNeverConfirmed`, `AcknowledgedIsStored`, `BootstrapUndisputed` and
`BootstrapHonoursReading`.  The inductive invariant `SyncInv`:

* `BatchesWellCut`: a batch anywhere holds the rows that its snapshot's id stands for,
  one of each thread, which makes a duplicate's acknowledgement true;
* `SnapshotsWhole`: each stored snapshot's rows are all stored;
* `RowsSound`: a row is confirmed only with a Codex id and a project, and a project
  that is registered has an id, whichever it is by now;
* `ThreadsDerived`: a thread's row is the word of the highest authority there is, if
  that says one thing, and otherwise conflicted, or a candidate that names nothing.

`ThreadsDerived` is stronger than `StateIsDerived` in that it speaks of every
number of observations in every order; the proof is that one more observation
moves the top to itself, joins it or leaves it.

`ProjectTablesProofs` and `ProjectRegistryProofs` prove, from `TablesAssumption` and
`RegistryAssumption` (the legacy rows obey the schema's indexes and references,
registries and repairs have the form the zod schemas demand): `TypeOK`,
`CanonicalAliasesResolve`, `CurrentRelationsLive`, `RegistryIdempotent` and the action
property `MergeTakesHistory`.  The first module says what each statement does to tables that
obey the schema (`SoundTables`: typed rows, references to rows there are, the unique
indexes as long as no statement has failed, no open relation at a rejected object),
what an agent's effect does to them (`ApplyEffectSound`), and that all parts of an apply together keep it
(`AllAppliedSound`).  An apply is a recursive function over its parts, whose number
the constants do not bound; the library's induction theorems cannot be used, but the
least counterexample of a set of numbers can (`SetInduction`, from the
well-foundedness of `<`), applied to the set of lengths for which the trace exists
(`AllAppliedIsTraced`) and is sound.

`RegistryIdempotent` (theorem `RegistryRepeats`) rests on `ReconciledAgain`, which is
about one registry and any tables that obey the schema.  The argument has three
steps.  First, each statement that finds what it would write changes nothing.
Second, what a part of the apply writes is there at the end: a project's row, name,
source and identities, because the parts write projects that differ (`ProjectsPlan`,
`IndependentsPlan`); its objects, because what one part makes no other takes
(`ObjectsApart`) and no rule retires (`RetiredStays`); a relation, because parts only
end candidates at workspaces, of their own group.  Third, planning the tables at the
end gives the plan of the beginning, with the new projects now adopted: the owners of
each named URI are the same (`NamesStay`), and so are the workspaces (`RootsStay`);
there are no new candidates.  So each part finds what it would write, one after the
other, again by `SetInduction` over the parts.

The inductive invariant `RegistryInv` says that the tables and a merge's draft obey
the schema, and of a merge in progress that a table it has moved (`HasMoved`) shows
no row of the source but those of overlapping starts (`HasLeft`).

Three properties were stated too strongly before they were proved, though TLC found
them true on the instance there was.  `RegistryIdempotent` was said of every
registry; the conditions of `Repeatable` came out of the proof, and the instance now
has a registry without one.  `CanonicalAliasesResolve`: aliases are any
strings, a manifest may give a project an alias that is another's source URI, and
`resolveProjectIdentity` prefers the URI.  `MergeTakesHistory`: a later repair may
merge into an earlier one's source; the instance now has such a manifest.

### What the proofs do not reach

* Liveness (`EveryRequestEnds`, `AbandonedSessionsClose`) is out of the prover's reach
  and is checked by TLC.
* That a definition which treats a loop of the code as one set (`WithRoots`,
  `WithWorkspaces`, `WithCandidates`) does what the loop does is seen by comparison
  with the code, not proved.
* The proofs assume of constants what the `ASSUME`s say and nothing else; TLC
  evaluates each on the instance of a run.

## Not modelled

* Inspector tickets and CSRF sessions: maps in the memory of one thread, without an
  await between look and change.  Manual corrections and migrations: small, without
  effect on the other tables (two corrections of one subject at once may both end up
  pending, which is listed as a hazard).
* The numbers: scores of words, token counts of the meter, and the health
  summaries, which are single SELECTs.
* What has no state of its own to go wrong in: searches in files and over HTTP,
  rendering in the inspector and the menu bar, installers, certificates, and the
  evaluation harnesses.
* Locks between a merge and a start: the merge waits for rows of open starts in
  the database; here a start's commit is one step, and a circle of such waits is not
  looked for.

## What could come next

1. `ManualCorrections` and `Migrations`: one pending correction per subject, a
   migration applied once.
2. Idempotence of a manifest that rejects an alias and gives it to the same project
   (see `RetiredStays`), which the proof leaves out.
3. A larger `project_registry` with two sessions and independents that share
   roots.

## Running

    tlc -workers 2 -config MCSessionLifecycle.cfg MCSessionLifecycle
    tlc -workers 2 -config SessionLiveness.cfg MCSessionLifecycle
    tlc -workers 2 -config SessionBegin.cfg MCSessionLifecycle
    tlc -workers 2 -config MCOntologyWriteback.cfg MCOntologyWriteback
    tlc -workers 2 -config OntologyRetractions.cfg MCOntologyWriteback
    tlc -workers 2 -config OntologyProvenance.cfg MCOntologyWriteback
    tlc -workers 2 -config MCGithubReconcile.cfg MCGithubReconcile
    tlc -workers 2 -config MCCodexThreadSync.cfg MCCodexThreadSync
    tlc -workers 2 -config CodexDispute.cfg MCCodexThreadSync
    tlc -workers 2 -config MCProjectRegistry.cfg MCProjectRegistry
    tlc -workers 2 -config RegistryCapsule.cfg MCProjectRegistry
    tlc -workers 2 -config MCDaemonClients.cfg MCDaemonClients
    tlapm SessionLifecycleProofs.tla
    tlapm PairingGatewayProofs.tla
    tlapm DaemonClientsProofs.tla
    tlapm OntologyWritebackProofs.tla
    tlapm GithubReconcileProofs.tla
    tlapm CodexThreadSyncProofs.tla
    tlapm ProjectTablesProofs.tla
    tlapm ProjectRegistryProofs.tla

The definitions marked "Mutant of" are deliberately wrong variants that no
specification uses: put in the place of the definition they name, they make TLC
find a violation of the property `PROJECT.json` lists them under, which shows that
the property does depend on that code.
