--------------------------- MODULE GithubReconcile ---------------------------
(***************************************************************************)
(* reconcile_github_pr.py over OntologyWriteback: helpers that make plans  *)
(* from a reading of GitHub and a reading of the ontology, and apply a     *)
(* reviewed plan later, each in a process of its own.  GitHub moves on,    *)
(* other helpers and agents write, processes die, and requests go on in    *)
(* the daemon after their client has given up.                             *)
(***************************************************************************)
EXTENDS OntologyWriteback

CONSTANTS
  Belief,          \* what agents infer about the pull request, unasked
  AgentSession,    \* the session of the agents' writes
  HelperSession,   \* the scoped session the helpers are given
  Pr, Repo,        \* the entities of the pull request and its repository
  Legacy,          \* AWAITING_UPSTREAM_REVIEW
  MaxPlans,        \* bound on the plans made
  MaxVersion       \* bound on the changes of the pull request

PrState == {"OPEN", "CLOSED", "MERGED"}

ASSUME ReconcileAssumption ==
  /\ Belief \subseteq {e \in Effect : e.op = "assert" /\ e.authority = "agent_inference"}
  /\ {AgentSession, HelperSession} \subseteq Session
  /\ {Pr, Repo} \subseteq Uri /\ Pr # Repo
  /\ Legacy \notin PrState \cup RegistryType /\ PrState \cup {Legacy} = RelationType
  /\ ProjectOf[HelperSession] # NoProject
  /\ MaxPlans \in Nat /\ MaxVersion \in Nat /\ 1 .. MaxPlans \subseteq Key
  /\ NoGuard \notin [subject: Uri, expected: SUBSET Nat]

VARIABLES
  github,   \* the pull request as GitHub has it; version stands for updatedAt
  plans,    \* the plan files written so far
  helper    \* [Client -> stage, plan, source read and activities at the last graph read]

reconciliation == <<github, plans, helper>>

-----------------------------------------------------------------------------
(* Plans *)

Source == [state: PrState, version: Nat]

\* (Mutant of Snapshot: relations are told apart by their types only.)
SnapshotOfTypes ==
  {[type |-> relations[i].type, state |-> relations[i].state] :
     i \in {j \in Current(relations) : relations[j].subject = Pr}}

\* snapshot: the active state relations of the pull request.
Snapshot ==
  {[id |-> i, type |-> relations[i].type, state |-> relations[i].state] :
     i \in {j \in Current(relations) : relations[j].subject = Pr}}

Authoritative(op, type) ==
  [op |-> op, subject |-> Pr, type |-> type, target |-> Repo,
   state |-> "confirmed", authority |-> "deterministic_source"]

\* (Mutant of Stale: the legacy relation is not one the helper manages.)
StaleStates(source, before) == {r.type : r \in before} \ {source.state, Legacy}

\* The types the source contradicts; an open pull request may await review.
Stale(source, before) ==
  {r.type : r \in before} \ ({source.state} \cup {t \in {Legacy} : source.state = "OPEN"})

EffectsFor(source, before) ==
  LET stale == SetToSeq(Stale(source, before)) IN
  [i \in DOMAIN stale |-> Authoritative("retract", stale[i])]
    \o IF \E r \in before : r.type = source.state /\ r.state = "confirmed"
         THEN << >> ELSE <<Authoritative("assert", source.state)>>

\* (Mutants of ActivityFor: without relationPreconditions; without idempotencyKey.)
ActivityUnguarded(c, p) ==
  [session |-> HelperSession, key |-> p, plan |-> p, by |-> c, guard |-> NoGuard,
   effects |-> EffectsFor(plans[p].source, plans[p].before)]

ActivityUnkeyed(c, p) ==
  [session |-> HelperSession, key |-> NoKey, plan |-> p, by |-> c,
   guard |-> [subject |-> Pr, expected |-> {r.id : r \in plans[p].before}],
   effects |-> EffectsFor(plans[p].source, plans[p].before)]

\* activity_for: the key is the plan's digest, "by" the moment of the apply
\* (occurredAt), which makes the requests of two applies different.
ActivityFor(c, p) ==
  [session |-> HelperSession, key |-> p, plan |-> p, by |-> c,
   guard |-> [subject |-> Pr, expected |-> {r.id : r \in plans[p].before}],
   effects |-> EffectsFor(plans[p].source, plans[p].before)]

-----------------------------------------------------------------------------
(* GitHub and the agents *)

\* The pull request is updated; a merged one stays merged.
Change(state) ==
  /\ github.version < MaxVersion
  /\ github.state = "MERGED" => state = "MERGED"
  /\ github' = [state |-> state, version |-> github.version + 1]
  /\ UNCHANGED <<vars, plans, helper>>

\* An agent writes what it has inferred.  Its request is one step: nobody sees
\* its draft, and it reads nothing beforehand.
AgentWrites(e) ==
  /\ holder = Nobody
  /\ Len(activities) < MaxActivities
  /\ Allowed(e)
  /\ LET after == Applied([objects |-> objects, relations |-> relations, effects |-> effects],
                          e, ProjectOf[AgentSession], Len(activities) + 1) IN
       /\ objects' = after.objects
       /\ relations' = after.relations
       /\ effects' = after.effects
  /\ activities' = Append(activities,
       [session |-> AgentSession, key |-> NoKey, plan |-> 0, by |-> Nobody,
        guard |-> NoGuard, effects |-> <<e>>])
  /\ UNCHANGED <<audited, transaction, clients, reconciliation>>

-----------------------------------------------------------------------------
(* The helper's process *)

\* A process that ends with status 1 or is killed leaves no receipt.
Receipts == {"already_current", "write_not_verified", "applied_unverified",
             "applied_and_verified"}
Running == {"planning", "fetched", "ready", "posted", "written", "readback"}

At(c, stage) == helper' = [helper EXCEPT ![c].stage = stage]
ReadGraph(c, stage) ==
  helper' = [helper EXCEPT ![c].stage = stage, ![c].at = Len(activities)]
NotRunning == [stage |-> "idle", plan |-> 0, source |-> [state |-> "OPEN", version |-> 0],
               at |-> 0]
Stop(c) == helper' = [helper EXCEPT ![c] = NotRunning]
Idle(c) == helper[c].stage \in {"idle"} \cup Receipts

\* plan: fetch_github, then the ontology graph, then the file.
PlanFetch(c) ==
  /\ Idle(c)
  /\ Len(plans) < MaxPlans
  /\ helper' = [helper EXCEPT ![c] = [stage |-> "planning", plan |-> 0,
                                      source |-> github, at |-> 0]]
  /\ UNCHANGED <<vars, github, plans>>

PlanGraph(c) ==
  /\ helper[c].stage = "planning"
  /\ Len(plans) < MaxPlans
  /\ plans' = Append(plans, [source |-> helper[c].source, before |-> Snapshot])
  /\ Stop(c)
  /\ UNCHANGED <<vars, github>>

\* apply_plan: fetch_github first.
ApplyFetch(c, p) ==
  /\ Idle(c)
  /\ phase[c] \notin {"sent", "applying", "auditing"}
  /\ helper' = [helper EXCEPT ![c] = [stage |-> "fetched", plan |-> p,
                                      source |-> github, at |-> 0]]
  /\ UNCHANGED <<vars, github, plans>>

\* Then the graph; only a plan that would be made again is applied.
ApplyGraph(c) ==
  LET plan == plans[helper[c].plan]  source == helper[c].source IN
  /\ helper[c].stage = "fetched"
  /\ Read(c)
  /\ IF source = plan.source /\ EffectsFor(source, Snapshot) = << >>
       THEN ReadGraph(c, "already_current")
     ELSE IF source = plan.source /\ Snapshot = plan.before
       THEN ReadGraph(c, "ready")
     ELSE Stop(c)
  /\ UNCHANGED <<github, plans>>

Post(c) ==
  /\ helper[c].stage = "ready"
  /\ Submit(c, ActivityFor(c, helper[c].plan))
  /\ At(c, "posted")
  /\ UNCHANGED <<github, plans>>

Answered(c) ==
  /\ helper[c].stage = "posted" /\ phase[c] = "answered"
  /\ At(c, IF answer[c] \in {"applied", "duplicate"} THEN "written"
                                                     ELSE "write_not_verified")
  /\ UNCHANGED <<vars, github, plans>>

\* The request times out, or its connection is lost; the daemon goes on with it.
GiveUp(c) ==
  /\ helper[c].stage = "posted"
  /\ At(c, "write_not_verified")
  /\ UNCHANGED <<vars, github, plans>>

Readback(c) ==
  /\ helper[c].stage = "written"
  /\ ReadGraph(c, IF EffectsFor(helper[c].source, Snapshot) = << >>
                    THEN "readback" ELSE "applied_unverified")
  /\ UNCHANGED <<vars, github, plans>>

\* (Mutant of FinalFetch: GitHub is not compared with what was applied.)
FinalFetchUnchecked(c) ==
  /\ helper[c].stage = "readback"
  /\ At(c, "applied_and_verified")
  /\ UNCHANGED <<vars, github, plans>>

FinalFetch(c) ==
  /\ helper[c].stage = "readback"
  /\ At(c, IF github = helper[c].source THEN "applied_and_verified"
                                        ELSE "applied_unverified")
  /\ UNCHANGED <<vars, github, plans>>

\* A read of GitHub or of the graph fails after the write.
ReadFails(c) ==
  /\ helper[c].stage \in {"written", "readback"}
  /\ At(c, "applied_unverified")
  /\ UNCHANGED <<vars, github, plans>>

\* One fails before it, or the process is killed at any moment.
Kill(c) ==
  /\ helper[c].stage \in Running
  /\ Stop(c)
  /\ UNCHANGED <<vars, github, plans>>

-----------------------------------------------------------------------------
(* The specification *)

\* Both entities are there and confirmed, as snapshot demands; a legacy
\* relation may say that the pull request awaits review.
Confirmed == [state |-> "confirmed", project |-> ProjectOf[HelperSession]]
AwaitsReview == [subject |-> Pr, type |-> Legacy, target |-> Repo, version |-> 1,
                 state |-> "confirmed", authority |-> "operator", source |-> "activity",
                 open |-> TRUE, superseded |-> FALSE]

ReconcileInit ==
  /\ objects = [u \in Uri |-> IF u \in {Pr, Repo} THEN Confirmed ELSE NoObject]
  /\ relations \in {<<AwaitsReview>>, << >>}
  /\ effects = << >> /\ activities = << >> /\ audited = {}
  /\ holder = Nobody /\ draft = NoDraft /\ next = 1
  /\ phase = [c \in Client |-> "idle"]
  /\ request = [c \in Client |-> NoRequest]
  /\ seen = [c \in Client |-> {}]
  /\ answer = [c \in Client |-> "none"]
  /\ github = [state |-> "OPEN", version |-> 0]
  /\ plans = << >>
  /\ helper = [c \in Client |-> NotRunning]

\* The daemon serves whoever has asked, whether he still listens or not.
Daemon(c) == RecordActivity(c) /\ UNCHANGED reconciliation

Run(c) ==
  \/ PlanFetch(c) \/ PlanGraph(c) \/ \E p \in DOMAIN plans : ApplyFetch(c, p)
  \/ ApplyGraph(c) \/ Post(c) \/ Answered(c) \/ GiveUp(c)
  \/ Readback(c) \/ FinalFetch(c) \/ ReadFails(c) \/ Kill(c)

ReconcileNext ==
  \/ \E state \in PrState : Change(state)
  \/ \E e \in Belief : AgentWrites(e)
  \/ \E c \in Client : Daemon(c) \/ Run(c)

ReconcileSpec == ReconcileInit /\ [][ReconcileNext]_<<vars, reconciliation>>
-----------------------------------------------------------------------------
(* Properties *)

\* The type of the variables of this module.
ReconcileTypeOK ==
  /\ github \in Source
  /\ plans \in Seq([source: Source,
                    before: SUBSET [id: Nat, type: RelationType, state: {"candidate", "confirmed"}]])
  /\ helper \in [Client -> [stage: {"idle"} \cup Receipts \cup Running, plan: 0 .. Len(plans),
                            source: Source, at: 0 .. Len(activities)]]

Has(type, state) == \E r \in Snapshot : r.type = type /\ r.state \in state

\* The pull request never has two confirmed states at once, whatever the
\* helpers have read and in whatever order their writes arrive.
OneConfirmedState ==
  \A s, t \in PrState : Has(s, {"confirmed"}) /\ Has(t, {"confirmed"}) => s = t

\* "A repeat apply is a no-op": a plan is applied at most once, though it may
\* be applied again after a lost answer, or by two processes at once.
PlansAppliedOnce ==
  \A a, b \in DOMAIN activities :
    activities[a].plan = activities[b].plan /\ activities[a].plan # 0 => a = b

\* A receipt of success is true of the ontology: until somebody writes again,
\* GitHub's state is the only one, and is confirmed.
SuccessIsCurrent ==
  \A c \in Client :
    helper[c].stage \in {"already_current", "applied_and_verified"}
      /\ helper[c].at = Len(activities) =>
      /\ Has(helper[c].source.state, {"confirmed"})
      /\ \A r \in Snapshot :
           r.type # helper[c].source.state => r.type = Legacy /\ helper[c].source.state = "OPEN"

\* No success is reported for a stale reading: an apply that has put its
\* older reading over a newer one learns it from its last look at GitHub.
NoStaleSuccess ==
  \A c \in Client : helper[c].stage = "applied_and_verified" =>
    \E a \in DOMAIN activities :
      /\ activities[a].plan = helper[c].plan
      /\ \A b \in 1 .. a : activities[b].plan # 0 =>
           plans[activities[b].plan].source.version <= helper[c].source.version
==============================================================================
