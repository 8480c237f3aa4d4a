------------------------ MODULE GithubReconcileProofs ------------------------
(***************************************************************************)
(* Proofs about GithubReconcile, for any clients, plans, moves of GitHub   *)
(* and inferences of agents.  A plan names the rows it was made from by    *)
(* their ids, which stay what they were; the guard makes them the current  *)
(* rows again when the plan is applied, so the effects of the plan         *)
(* retract every state but the one it asserts.                             *)
(***************************************************************************)
EXTENDS GithubReconcile, OntologyWritebackProofs

Plan == [source: Source,
         before: SUBSET [id: Nat, type: RelationType, state: {"candidate", "confirmed"}]]
Posted == [session: Session, key: Key \cup {NoKey}, plan: 0 .. MaxPlans,
           by: Client \cup {Nobody},
           guard: {NoGuard} \cup [subject: Uri, expected: SUBSET Nat], effects: Seq(Effect)]

\* The confirmed current rows of the pull request.
Verdicts(rows) == {i \in Current(rows) : rows[i].subject = Pr /\ rows[i].state = "confirmed"}

\* Rows that were there are still the same triples.
SameTriples(rows, later) ==
  \A i \in DOMAIN rows :
    /\ i \in DOMAIN later /\ later[i].subject = rows[i].subject
    /\ later[i].type = rows[i].type /\ later[i].target = rows[i].target

SoundRows(rows) ==
  /\ rows \in Seq(Relation) /\ VersionsCounted(rows) /\ OneOpenIn(rows)
  /\ \A i \in Verdicts(rows) : rows[i].target = Repo

OneVerdict ==
  \A i, j \in Verdicts(relations) :
    {relations[i].type, relations[j].type} \subseteq PrState =>
      relations[i].type = relations[j].type

\* A plan's ids are rows of the pull request, with the types it says.
PlansInv ==
  /\ github \in Source /\ plans \in Seq(Plan) /\ Len(plans) <= MaxPlans
  /\ \A p \in DOMAIN plans :
       /\ plans[p].source.version <= github.version
       /\ \A r \in plans[p].before :
            r.id \in DOMAIN relations /\ relations[r.id].subject = Pr
              /\ relations[r.id].type = r.type

ActivitiesInv ==
  /\ activities \in Seq(Posted)
  /\ \A a \in DOMAIN activities : activities[a].plan # 0 =>
       activities[a].key = activities[a].plan /\ activities[a].plan \in DOMAIN plans
  /\ PlansAppliedOnce

InFlight == {"sent", "applying", "auditing", "answered"}

RequestsInv ==
  /\ phase \in [Client -> {"idle", "read"} \cup InFlight]
  /\ request \in [Client -> Posted \cup {NoRequest}]
  /\ answer \in [Client -> {"none", "applied", "duplicate", "conflict", "rejected", "error"}]
  /\ \A c \in Client :
       /\ phase[c] \in {"idle", "read"} => answer[c] = "none"
       /\ phase[c] \in InFlight => \E p \in DOMAIN plans : request[c] = ActivityFor(c, p)
       /\ phase[c] \in InFlight /\ answer[c] \in {"applied", "duplicate"} =>
            \E a \in DOMAIN activities : activities[a].plan = request[c].plan

\* What is confirmed in the draft of a plan is what the plan asserts, or is still
\* to be retracted.
Applying(c, p) ==
  LET es == request[c].effects IN
  /\ request[c] = ActivityFor(c, p) /\ Prior(c) = {}
  /\ SoundRows(draft.relations) /\ SameTriples(relations, draft.relations)
  /\ next \in 1 .. Len(es) + 1
  /\ \A i \in Verdicts(draft.relations) :
       \/ draft.relations[i].type \in {plans[p].source.state, Legacy}
       \/ \E j \in next .. Len(es) :
            es[j].op = "retract" /\ es[j].type = draft.relations[i].type

ApplyingInv == \A c \in Client : holder = c => \E p \in DOMAIN plans : Applying(c, p)

\* What a helper knows at the stage it has reached.
IsCurrent(source) ==
  /\ Has(source.state, {"confirmed"})
  /\ \A r \in Snapshot :
       r.type # source.state => r.type = Legacy /\ source.state = "OPEN"

HelperType == [stage: {"idle"} \cup Receipts \cup Running, plan: 0 .. Len(plans),
               source: Source, at: 0 .. Len(activities)]

Knows(c) ==
  LET h == helper[c] IN
  /\ h.source.version <= github.version
  /\ h.stage \in {"fetched", "ready", "posted"} => h.plan \in DOMAIN plans
  /\ h.stage = "posted" => phase[c] \in InFlight /\ request[c] = ActivityFor(c, h.plan)
  /\ h.stage \in {"written", "readback", "applied_and_verified"} =>
       \E a \in DOMAIN activities : activities[a].plan = h.plan
  /\ h.stage \in {"readback", "already_current", "applied_and_verified"}
       /\ h.at = Len(activities) => IsCurrent(h.source)
  /\ h.stage = "applied_and_verified" =>
       \E a \in DOMAIN activities :
         /\ activities[a].plan = h.plan
         /\ \A b \in 1 .. a : activities[b].plan # 0 =>
              plans[activities[b].plan].source.version <= h.source.version

HelpersInv ==
  /\ helper \in [Client -> HelperType]
  /\ \A c \in Client : Knows(c)

ReconcileInv ==
  /\ SoundRows(relations) /\ OneVerdict
  /\ PlansInv /\ ActivitiesInv /\ RequestsInv /\ LockInv /\ ApplyingInv /\ HelpersInv

-----------------------------------------------------------------------------
(* The effects of a plan *)

\* The effects are on the pull request and its repository: retractions of all
\* that is stale, and an assertion of the state that was read.  None are needed
\* if that is confirmed and nothing is stale.
LEMMA EffectsShape ==
  ASSUME NEW source \in Source,
         NEW before \in SUBSET [id : Nat, type : RelationType, state : {"candidate", "confirmed"}]
  PROVE  LET es == EffectsFor(source, before) IN
         /\ es \in Seq(Effect)
         /\ \A j \in 1 .. Len(es) :
              /\ es[j].subject = Pr /\ es[j].target = Repo
              /\ es[j].op = "assert" => es[j].type = source.state
         /\ \A t \in Stale(source, before) :
              \E j \in 1 .. Len(es) : es[j].op = "retract" /\ es[j].type = t
         /\ es = << >> =>
              /\ Stale(source, before) = {}
              /\ \E r \in before : r.type = source.state /\ r.state = "confirmed"
<1> DEFINE S == Stale(source, before)
           stale == SetToSeq(S)
           retracts == [i \in DOMAIN stale |-> Authoritative("retract", stale[i])]
           wanted == \E r \in before : r.type = source.state /\ r.state = "confirmed"
           asserts == IF wanted THEN << >> ELSE <<Authoritative("assert", source.state)>>
           es == EffectsFor(source, before)
<1>1. S \subseteq RelationType /\ source.state \in RelationType
  BY ReconcileAssumption DEF Stale, Source
<1>2. IsFiniteSet(S)
  <2>1. IsFiniteSet(PrState) /\ IsFiniteSet({Legacy})
    <3>1. IsFiniteSet({"OPEN"}) /\ IsFiniteSet({Legacy})
      BY FS_Singleton
    <3>2. IsFiniteSet({"OPEN"} \cup {"CLOSED"})
      BY <3>1, FS_AddElement
    <3>3. IsFiniteSet(({"OPEN"} \cup {"CLOSED"}) \cup {"MERGED"})
      BY <3>2, FS_AddElement
    <3>4. PrState = ({"OPEN"} \cup {"CLOSED"}) \cup {"MERGED"}
      BY DEF PrState
    <3> QED
      BY <3>1, <3>3, <3>4
  <2>2. IsFiniteSet(RelationType)
    BY <2>1, FS_Union, ReconcileAssumption
  <2> QED
    BY <1>1, <2>2, FS_Subset
<1>3. /\ stale \in Seq(S) /\ DOMAIN stale = 1 .. Len(stale) /\ Len(stale) \in Nat
      /\ \A x \in S : \E i \in 1 .. Len(stale) : stale[i] = x
  BY <1>2, SetToSeqShape
<1> HIDE DEF stale, S
<1>4. \A op \in {"assert", "retract"}, t \in RelationType :
        /\ Authoritative(op, t) \in Effect
        /\ Authoritative(op, t).op = op /\ Authoritative(op, t).type = t
        /\ Authoritative(op, t).subject = Pr /\ Authoritative(op, t).target = Repo
  BY ReconcileAssumption DEF Authoritative, Effect, Authority
<1>5. \A i \in 1 .. Len(stale) : stale[i] \in RelationType
  BY <1>1, <1>3, ElementOfSeq
<1>6. /\ retracts \in Seq(Effect) /\ Len(retracts) = Len(stale)
      /\ \A i \in 1 .. Len(stale) : retracts[i] = Authoritative("retract", stale[i])
  <2>1. retracts \in [1 .. Len(stale) -> Effect]
    BY <1>3, <1>4, <1>5
  <2> QED
    BY <1>3, <2>1, FunctionIsSeq
<1>7. /\ asserts \in Seq(Effect)
      /\ \A i \in 1 .. Len(asserts) : asserts[i] = Authoritative("assert", source.state)
      /\ asserts = << >> => wanted
  <2>1. <<Authoritative("assert", source.state)>> \in Seq(Effect) /\ << >> \in Seq(Effect)
    BY <1>1, <1>4
  <2>2. CASE wanted
    BY <2>1, <2>2
  <2>3. CASE ~wanted
    <3>1. asserts = <<Authoritative("assert", source.state)>>
      BY <2>3
    <3> HIDE DEF asserts
    <3>2. Len(asserts) = 1 /\ asserts[1] = Authoritative("assert", source.state)
      BY <3>1
    <3>3. asserts # << >>
      BY <3>2
    <3> QED
      BY <2>1, <3>1, <3>2, <3>3
  <2> QED
    BY <2>2, <2>3
<1>8. es = retracts \o asserts
  BY DEF EffectsFor, stale, S
<1> HIDE DEF es, retracts, asserts
<1>9. /\ es \in Seq(Effect) /\ Len(es) = Len(retracts) + Len(asserts)
      /\ \A i \in 1 .. Len(retracts) : es[i] = retracts[i]
      /\ \A i \in Len(retracts) + 1 .. Len(es) : es[i] = asserts[i - Len(retracts)]
  <2>1. /\ es \in Seq(Effect) /\ Len(es) = Len(retracts) + Len(asserts)
        /\ \A i \in 1 .. Len(retracts) + Len(asserts) :
             es[i] = IF i <= Len(retracts) THEN retracts[i] ELSE asserts[i - Len(retracts)]
    <3>1. retracts \in Seq(Effect) /\ asserts \in Seq(Effect)
      BY <1>6, <1>7
    <3> QED
      BY <1>8, <3>1, ConcatProperties
  <2>2. Len(retracts) \in Nat /\ Len(asserts) \in Nat
    BY <1>6, <1>7, LenProperties
  <2>3. \A i \in 1 .. Len(retracts) : i \in 1 .. Len(retracts) + Len(asserts) /\ i <= Len(retracts)
    BY <2>2
  <2>4. \A i \in Len(retracts) + 1 .. Len(es) :
          i \in 1 .. Len(retracts) + Len(asserts) /\ ~(i <= Len(retracts))
    BY <2>1, <2>2
  <2> QED
    BY <2>1, <2>3, <2>4
<1>10. Len(retracts) \in Nat /\ Len(asserts) \in Nat
  BY <1>6, <1>7, LenProperties
<1>11. ASSUME NEW j \in 1 .. Len(es)
       PROVE  /\ es[j].subject = Pr /\ es[j].target = Repo
              /\ es[j].op = "assert" => es[j].type = source.state
  <2>1. CASE j \in 1 .. Len(retracts)
    BY <1>4, <1>5, <1>6, <1>9, <2>1
  <2>2. CASE j \in Len(retracts) + 1 .. Len(es)
    <3>1. j - Len(retracts) \in 1 .. Len(asserts)
      BY <1>9, <1>10, <2>2
    <3>2. es[j] = Authoritative("assert", source.state)
      BY <1>7, <1>9, <2>2, <3>1
    <3> QED
      BY <1>1, <1>4, <3>2
  <2> QED
    BY <1>9, <1>10, <2>1, <2>2
<1>12. ASSUME NEW t \in S
       PROVE  \E j \in 1 .. Len(es) : es[j].op = "retract" /\ es[j].type = t
  <2>1. PICK i \in 1 .. Len(stale) : stale[i] = t
    BY <1>3
  <2>2. es[i] = Authoritative("retract", t) /\ i \in 1 .. Len(es)
    BY <1>6, <1>9, <1>10, <2>1
  <2> QED
    BY <1>1, <1>4, <2>2
<1>13. ASSUME es = << >> PROVE S = {} /\ wanted
  <2>1. Len(es) = 0
    BY <1>13
  <2>2. Len(retracts) = 0 /\ Len(asserts) = 0
    BY <1>9, <1>10, <2>1
  <2>3. asserts = << >>
    BY <1>7, <2>2, EmptySeq
  <2>4. S = {}
    BY <1>12, <2>1
  <2> QED
    BY <1>7, <2>3, <2>4
<1> QED
  BY <1>9, <1>11, <1>12, <1>13 DEF es, S

-----------------------------------------------------------------------------
(* Rows *)

LEMMA SameTriplesTrans ==
  ASSUME NEW a, NEW b, NEW c, SameTriples(a, b), SameTriples(b, c)
  PROVE  SameTriples(a, c)
BY DEF SameTriples

\* An effect confirms its own triple and nothing else, and a retraction leaves
\* nothing of its triple.
LEMMA AppliedSound ==
  ASSUME NEW rows, SoundRows(rows), NEW e \in Effect,
         e.state = "confirmed" /\ e.subject = Pr => e.target = Repo
  PROVE  LET later == IF e.op = "retract" THEN Retracted(rows, e) ELSE Asserted(rows, e) IN
         /\ SoundRows(later) /\ SameTriples(rows, later)
         /\ \A i \in Verdicts(later) :
              \/ i \in Verdicts(rows) /\ (e.op = "retract" => ~SameTriple(rows[i], e))
              \/ e.op = "assert" /\ e.state = "confirmed" /\ SameTriple(later[i], e)
<1> DEFINE later == IF e.op = "retract" THEN Retracted(rows, e) ELSE Asserted(rows, e)
<1>1. /\ rows \in Seq(Relation) /\ VersionsCounted(rows) /\ OneOpenIn(rows)
      /\ \A i \in Verdicts(rows) : rows[i].target = Repo
  BY DEF SoundRows
<1>2. /\ later \in Seq(Relation) /\ VersionsCounted(later) /\ OneOpenIn(later)
      /\ SameTriples(rows, later)
      /\ \A i \in Verdicts(later) :
           \/ i \in Verdicts(rows) /\ (e.op = "retract" => ~SameTriple(rows[i], e))
           \/ e.op = "assert" /\ e.state = "confirmed" /\ SameTriple(later[i], e)
  <2>1. CASE e.op = "retract"
    <3> DEFINE C == OpenRows(rows, e)
    <3>1. later = Retracted(rows, e)
      BY <2>1
    <3> HIDE DEF later
    <3>2. /\ later \in Seq(Relation) /\ DOMAIN later = DOMAIN rows
          /\ \A i \in DOMAIN rows :
               /\ later[i].subject = rows[i].subject /\ later[i].type = rows[i].type
               /\ later[i].target = rows[i].target /\ later[i].state = rows[i].state
               /\ later[i].open <=> rows[i].open /\ i \notin C
      BY <1>1, <3>1, RetractedShape DEF Narrowed
    <3>3. VersionsCounted(later) /\ OneOpenIn(later)
      BY <1>1, <3>1, RetractedOneOpen
    <3>4. SameTriples(rows, later)
      BY <3>2 DEF SameTriples
    <3>5. \A i \in Verdicts(later) : i \in Verdicts(rows) /\ ~SameTriple(rows[i], e)
      BY <3>2 DEF Verdicts, Current, OpenRows
    <3> QED
      BY <3>2, <3>3, <3>4, <3>5
  <2>2. CASE e.op = "assert"
    <3>1. AssertedRows(rows, e, later)
      BY <1>1, <2>2, AssertedShape
    <3> HIDE DEF later
    <3>2. later \in Seq(Relation) /\ VersionsCounted(later) /\ OneOpenIn(later)
      BY <1>1, <3>1, AssertedOneOpen DEF AssertedRows
    <3>3. SameTriples(rows, later)
      BY <3>1 DEF AssertedRows, SameTriples
    <3>4. ASSUME NEW i \in Verdicts(later)
          PROVE  \/ i \in Verdicts(rows)
                 \/ e.state = "confirmed" /\ SameTriple(later[i], e)
      <4>1. i \in DOMAIN later /\ later[i].open /\ later[i].state = "confirmed"
            /\ later[i].subject = Pr
        BY DEF Verdicts, Current
      <4>2. CASE i \in DOMAIN rows
        BY <3>1, <4>1, <4>2 DEF AssertedRows, Verdicts, Current, SameTriple
      <4>3. CASE i \notin DOMAIN rows
        <5>1. later[i] = NewRow(rows, e)
          BY <3>1, <4>1, <4>3 DEF AssertedRows
        <5> QED
          BY <4>1, <5>1 DEF NewRow, SameTriple
      <4> QED
        BY <4>2, <4>3
    <3> QED
      BY <2>2, <3>2, <3>3, <3>4
  <2> QED
    BY <2>1, <2>2 DEF Effect
<1> HIDE DEF later
<1>3. ASSUME NEW i \in Verdicts(later) PROVE later[i].target = Repo
  <2>1. later[i].subject = Pr
    BY DEF Verdicts
  <2>2. CASE i \in Verdicts(rows)
    <3>1. i \in DOMAIN rows
      BY <2>2 DEF Verdicts, Current
    <3> QED
      BY <1>1, <1>2, <2>2, <3>1 DEF SameTriples
  <2>3. CASE e.state = "confirmed" /\ SameTriple(later[i], e)
    BY <2>1, <2>3 DEF SameTriple
  <2> QED
    BY <1>2, <2>2, <2>3
<1> QED
  BY <1>2, <1>3 DEF SoundRows, later

\* Has and Snapshot, in terms of rows.
LEMMA SnapshotShape ==
  ASSUME relations \in Seq(Relation)
  PROVE  /\ Snapshot \in SUBSET [id : Nat, type : RelationType, state : {"candidate", "confirmed"}]
         /\ \A r \in Snapshot : r.id \in DOMAIN relations /\ relations[r.id].subject = Pr
                                /\ relations[r.id].type = r.type
<1>1. DOMAIN relations = 1 .. Len(relations) /\ Len(relations) \in Nat
      /\ \A i \in DOMAIN relations : relations[i] \in Relation
  BY LenProperties
<1> SUFFICES ASSUME NEW r \in Snapshot
             PROVE  /\ r \in [id : Nat, type : RelationType, state : {"candidate", "confirmed"}]
                    /\ r.id \in DOMAIN relations /\ relations[r.id].subject = Pr
                    /\ relations[r.id].type = r.type
  OBVIOUS
<1>2. PICK i \in Current(relations) :
        relations[i].subject = Pr
          /\ r = [id |-> i, type |-> relations[i].type, state |-> relations[i].state]
  BY DEF Snapshot
<1>3. i \in DOMAIN relations /\ i \in Nat /\ relations[i] \in Relation
  BY <1>1, <1>2 DEF Current
<1>4. relations[i].type \in RelationType /\ relations[i].state \in {"candidate", "confirmed"}
  BY <1>3 DEF Relation
<1> QED
  BY <1>2, <1>3, <1>4

LEMMA OneVerdictIsOneState == OneVerdict => OneConfirmedState
<1> SUFFICES ASSUME OneVerdict, NEW s \in PrState, NEW t \in PrState,
                    Has(s, {"confirmed"}), Has(t, {"confirmed"})
             PROVE  s = t
  BY DEF OneConfirmedState
<1>1. PICK i \in Verdicts(relations) : relations[i].type = s
  BY DEF Has, Snapshot, Verdicts
<1>2. PICK j \in Verdicts(relations) : relations[j].type = t
  BY DEF Has, Snapshot, Verdicts
<1> QED
  BY <1>1, <1>2 DEF OneVerdict

-----------------------------------------------------------------------------
(* What a helper knows, it goes on knowing *)

\* GitHub, the plans and the activities only go on; and where there is no new
\* activity, the relations are the same.
Onward ==
  /\ github' \in Source /\ github.version <= github'.version
  /\ \A p \in DOMAIN plans : p \in DOMAIN plans' /\ plans'[p] = plans[p]
  /\ \A a \in DOMAIN activities : a \in DOMAIN activities' /\ activities'[a] = activities[a]
  /\ Len(activities) <= Len(activities')
  /\ Len(activities') = Len(activities) => UNCHANGED relations

LEMMA ReconcileTypes ==
  ASSUME ReconcileInv
  PROVE  /\ relations \in Seq(Relation)
         /\ github \in Source /\ plans \in Seq(Plan) /\ Len(plans) \in Nat
         /\ DOMAIN plans = 1 .. Len(plans) /\ Len(plans) <= MaxPlans /\ MaxPlans \in Nat
         /\ \A p \in DOMAIN plans : plans[p] \in Plan
         /\ activities \in Seq(Posted) /\ Len(activities) \in Nat
         /\ DOMAIN activities = 1 .. Len(activities)
         /\ \A a \in DOMAIN activities : activities[a] \in Posted
         /\ helper \in [Client -> HelperType]
         /\ \A c \in Client : helper[c] \in HelperType
BY LenProperties, ReconcileAssumption
   DEF ReconcileInv, SoundRows, PlansInv, ActivitiesInv, HelpersInv

LEMMA OnwardUnchanged ==
  ASSUME ReconcileInv, UNCHANGED <<github, plans, activities, relations>>
  PROVE  Onward
BY ReconcileTypes DEF Onward, Source

LEMMA ActivityForKept ==
  ASSUME Onward, NEW c \in Client, NEW p \in DOMAIN plans
  PROVE  p \in DOMAIN plans' /\ ActivityFor(c, p)' = ActivityFor(c, p)
BY DEF Onward, ActivityFor

LEMMA KnowsKept ==
  ASSUME ReconcileInv, Onward, NEW c \in Client, helper'[c] = helper[c],
         helper[c].stage = "posted" => phase'[c] \in InFlight /\ request'[c] = request[c]
  PROVE  Knows(c)'
<1> DEFINE h == helper[c]
<1>1. /\ Knows(c) /\ h \in HelperType /\ helper'[c] = h
      /\ h.source \in Source /\ h.at \in 0 .. Len(activities) /\ h.plan \in 0 .. Len(plans)
  <2>1. Knows(c) /\ h \in HelperType /\ helper'[c] = h
    BY ReconcileTypes DEF ReconcileInv, HelpersInv
  <2> QED
    BY <2>1 DEF HelperType
<1>2. /\ github.version \in Nat /\ github'.version \in Nat /\ h.source.version \in Nat
      /\ github.version <= github'.version
  BY <1>1, ReconcileTypes DEF Onward, Source
<1>3. h.source.version <= github'.version
  <2>1. h.source.version <= github.version
    BY <1>1 DEF Knows
  <2> HIDE DEF h
  <2> QED
    BY <1>2, <2>1
<1>4. h.stage \in {"fetched", "ready", "posted"} => h.plan \in DOMAIN plans /\ h.plan \in DOMAIN plans'
  BY <1>1 DEF Knows, Onward
<1>5. h.stage = "posted" => phase'[c] \in InFlight /\ request'[c] = ActivityFor(c, h.plan)'
  <2> SUFFICES ASSUME h.stage = "posted"
               PROVE  phase'[c] \in InFlight /\ request'[c] = ActivityFor(c, h.plan)'
    OBVIOUS
  <2>1. request[c] = ActivityFor(c, h.plan) /\ h.plan \in DOMAIN plans
    BY <1>1, <1>4 DEF Knows
  <2>2. ActivityFor(c, h.plan)' = ActivityFor(c, h.plan)
    <3>1. h' = h
      BY <1>1
    <3> QED
      BY <2>1, <3>1 DEF ActivityFor, Onward
  <2> QED
    BY <2>1, <2>2
<1>6. h.stage \in {"written", "readback", "applied_and_verified"} =>
        \E a \in DOMAIN activities' : activities'[a].plan = h.plan
  BY <1>1 DEF Knows, Onward
<1>7. h.stage \in {"readback", "already_current", "applied_and_verified"}
        /\ h.at = Len(activities') => IsCurrent(h.source)'
  <2> SUFFICES ASSUME h.stage \in {"readback", "already_current", "applied_and_verified"},
                      h.at = Len(activities')
               PROVE  IsCurrent(h.source)'
    OBVIOUS
  <2>1. Len(activities') = Len(activities) /\ h.at = Len(activities)
    <3>1. h.at \in Nat /\ Len(activities) \in Nat /\ h.at <= Len(activities)
          /\ Len(activities) <= Len(activities')
      BY <1>1, ReconcileTypes DEF Onward
    <3> HIDE DEF h
    <3> QED
      BY <3>1
  <2>2. relations' = relations /\ h' = h
    BY <1>1, <2>1 DEF Onward
  <2>3. IsCurrent(h.source)
    BY <1>1, <2>1 DEF Knows
  <2> QED
    BY <2>2, <2>3 DEF IsCurrent, Has, Snapshot, Current
<1>8. h.stage = "applied_and_verified" =>
        \E a \in DOMAIN activities' :
          /\ activities'[a].plan = h.plan
          /\ \A b \in 1 .. a : activities'[b].plan # 0 =>
               plans'[activities'[b].plan].source.version <= h.source.version
  <2> SUFFICES ASSUME h.stage = "applied_and_verified"
               PROVE  \E a \in DOMAIN activities' :
                        /\ activities'[a].plan = h.plan
                        /\ \A b \in 1 .. a : activities'[b].plan # 0 =>
                             plans'[activities'[b].plan].source.version <= h.source.version
    OBVIOUS
  <2>1. PICK a \in DOMAIN activities :
          /\ activities[a].plan = h.plan
          /\ \A b \in 1 .. a : activities[b].plan # 0 =>
               plans[activities[b].plan].source.version <= h.source.version
    BY <1>1 DEF Knows
  <2>2. a \in DOMAIN activities' /\ activities'[a] = activities[a]
    BY DEF Onward
  <2>3. ASSUME NEW b \in 1 .. a, activities'[b].plan # 0
        PROVE  plans'[activities'[b].plan].source.version <= h.source.version
    <3>1. b \in DOMAIN activities
      BY ReconcileTypes
    <3>2. activities'[b] = activities[b] /\ activities[b].plan \in DOMAIN plans
      BY <2>3, <3>1 DEF Onward, ReconcileInv, ActivitiesInv
    <3>3. plans'[activities[b].plan] = plans[activities[b].plan]
      BY <3>2 DEF Onward
    <3> QED
      BY <2>1, <2>3, <3>2, <3>3
  <2> QED
    BY <2>1, <2>2, <2>3
<1> QED
  BY <1>1, <1>3, <1>4, <1>5, <1>6, <1>7, <1>8 DEF Knows

LEMMA HelperTypeGrows ==
  ASSUME ReconcileInv, Onward, plans' \in Seq(Plan), activities' \in Seq(Posted)
  PROVE  HelperType \subseteq HelperType' /\ helper \in [Client -> HelperType']
<1>1. Len(plans) <= Len(plans') /\ Len(plans') \in Nat /\ Len(plans) \in Nat
  <2>1. Len(plans') \in Nat /\ DOMAIN plans' = 1 .. Len(plans')
    BY LenProperties
  <2>2. Len(plans) \in Nat /\ DOMAIN plans = 1 .. Len(plans)
    BY ReconcileTypes
  <2>3. \A p \in 1 .. Len(plans) : p \in 1 .. Len(plans')
    BY <2>1, <2>2 DEF Onward
  <2> QED
    BY <2>1, <2>2, <2>3
<1>2. /\ Len(activities) <= Len(activities') /\ Len(activities') \in Nat
      /\ Len(activities) \in Nat
  BY LenProperties, ReconcileTypes DEF Onward
<1>3. 0 .. Len(plans) \subseteq 0 .. Len(plans')
      /\ 0 .. Len(activities) \subseteq 0 .. Len(activities')
  BY <1>1, <1>2
<1>4. HelperType \subseteq HelperType'
  BY <1>3 DEF HelperType
<1> QED
  BY <1>4, ReconcileTypes

\* A step of GitHub or of helpers' processes alone.
LEMMA HelperStep ==
  ASSUME ReconcileInv, UNCHANGED vars, Onward, PlansInv',
         NEW moved \in SUBSET Client, helper' \in [Client -> HelperType'],
         \A c \in Client \ moved : helper'[c] = helper[c], \A c \in moved : Knows(c)'
  PROVE  ReconcileInv'
<1>1. /\ UNCHANGED <<objects, relations, effects, activities, holder, draft, next, phase,
                     request, seen, answer>>
      /\ SoundRows(relations) /\ OneVerdict /\ ActivitiesInv /\ RequestsInv /\ LockInv
      /\ ApplyingInv /\ HelpersInv
  BY DEF vars, committed, transaction, clients, ReconcileInv
<1>2. \A p \in DOMAIN plans : p \in DOMAIN plans' /\ plans'[p] = plans[p]
  BY DEF Onward
<1>3. SoundRows(relations)' /\ OneVerdict' /\ LockInv'
  BY <1>1 DEF SoundRows, OneVerdict, LockInv, Verdicts
<1>4. ActivitiesInv'
  BY <1>1, <1>2 DEF ActivitiesInv, PlansAppliedOnce
<1>5. RequestsInv'
  <2> SUFFICES ASSUME NEW c \in Client, phase[c] \in InFlight
               PROVE  \E p \in DOMAIN plans' : request[c] = ActivityFor(c, p)'
    BY <1>1 DEF RequestsInv
  <2>1. PICK p \in DOMAIN plans : request[c] = ActivityFor(c, p)
    BY <1>1 DEF RequestsInv
  <2> QED
    BY <2>1, ActivityForKept
<1>6. ApplyingInv'
  <2> SUFFICES ASSUME NEW c \in Client, holder = c
               PROVE  \E p \in DOMAIN plans' : Applying(c, p)'
    BY <1>1 DEF ApplyingInv
  <2>1. PICK p \in DOMAIN plans : Applying(c, p)
    BY <1>1 DEF ApplyingInv
  <2>2. p \in DOMAIN plans' /\ plans'[p] = plans[p] /\ ActivityFor(c, p)' = ActivityFor(c, p)
    BY <1>2, ActivityForKept
  <2>3. Prior(c)' = Prior(c)
    BY <1>1 DEF Prior
  <2>4. Applying(c, p)'
    BY <1>1, <2>1, <2>2, <2>3 DEF Applying, SoundRows, SameTriples, Verdicts
  <2> QED
    BY <2>2, <2>4
<1>7. HelpersInv'
  <2> SUFFICES ASSUME NEW c \in Client \ moved PROVE Knows(c)'
    BY DEF HelpersInv
  <2>1. helper'[c] = helper[c]
    OBVIOUS
  <2>2. helper[c].stage = "posted" => phase'[c] \in InFlight /\ request'[c] = request[c]
    BY <1>1 DEF HelpersInv, Knows
  <2> QED
    BY <2>1, <2>2, KnowsKept
<1> QED
  BY <1>3, <1>4, <1>5, <1>6, <1>7 DEF ReconcileInv

LEMMA ChangeInv ==
  ASSUME ReconcileInv, NEW state \in PrState, Change(state)
  PROVE  ReconcileInv'
<1>1. /\ UNCHANGED vars /\ plans' = plans /\ helper' = helper
      /\ github' = [state |-> state, version |-> github.version + 1]
      /\ relations' = relations /\ activities' = activities
  BY DEF Change, vars, committed
<1>2. github \in Source /\ github.version \in Nat
  BY ReconcileTypes DEF Source
<1>3. github' \in Source /\ github'.version = github.version + 1
  BY <1>1, <1>2 DEF Source
<1>4. Onward
  BY <1>1, <1>2, <1>3, ReconcileTypes DEF Onward
<1>5. PlansInv'
  <2>1. PlansInv /\ \A p \in DOMAIN plans : plans[p].source.version \in Nat
    BY ReconcileTypes DEF ReconcileInv, Plan, Source
  <2>2. \A p \in DOMAIN plans : plans[p].source.version <= github'.version
    BY <1>2, <1>3, <2>1 DEF PlansInv
  <2> QED
    BY <1>1, <1>3, <2>1, <2>2 DEF PlansInv
<1>6. helper' \in [Client -> HelperType']
  BY <1>1, <1>4, HelperTypeGrows, ReconcileTypes
<1> DEFINE moved == {}
<1>7. moved \in SUBSET Client /\ (\A o \in Client \ moved : helper'[o] = helper[o])
      /\ \A o \in moved : Knows(o)'
  BY <1>1
<1> HIDE DEF moved
<1> QED
  BY <1>1, <1>4, <1>5, <1>6, <1>7, HelperStep

\* One helper moves to another stage.
LEMMA MovedHelper ==
  ASSUME ReconcileInv, NEW c \in Client, UNCHANGED <<github, plans, vars>>,
         NEW h \in HelperType, helper' = [helper EXCEPT ![c] = h], Knows(c)'
  PROVE  ReconcileInv'
<1>1. /\ UNCHANGED <<github, plans, relations, activities>> /\ helper \in [Client -> HelperType]
  BY ReconcileTypes DEF vars, committed
<1>2. Onward
  BY <1>1, OnwardUnchanged
<1>3. PlansInv'
  BY <1>1 DEF ReconcileInv, PlansInv
<1>4. helper' \in [Client -> HelperType'] /\ \A o \in Client \ {c} : helper'[o] = helper[o]
  BY <1>1 DEF HelperType
<1> DEFINE moved == {c}
<1>5. moved \in SUBSET Client /\ (\A o \in Client \ moved : helper'[o] = helper[o])
      /\ \A o \in moved : Knows(o)'
  BY <1>4
<1> HIDE DEF moved
<1> QED
  BY <1>2, <1>3, <1>4, <1>5, HelperStep

Stages == {"idle"} \cup Receipts \cup Running

\* The next stage of a helper, which goes on with its plan and its source.
LEMMA AtShape ==
  ASSUME ReconcileInv, NEW c \in Client, NEW stage \in Stages, NEW at \in 0 .. Len(activities)
  PROVE  LET h == [stage |-> stage, plan |-> helper[c].plan, source |-> helper[c].source,
                   at |-> at] IN
         /\ h \in HelperType
         /\ At(c, stage) /\ at = helper[c].at => helper' = [helper EXCEPT ![c] = h]
         /\ ReadGraph(c, stage) /\ at = Len(activities) => helper' = [helper EXCEPT ![c] = h]
<1> DEFINE old == helper[c]
           h == [stage |-> stage, plan |-> old.plan, source |-> old.source, at |-> at]
           half == [old EXCEPT !.stage = stage]
<1>1. helper \in [Client -> HelperType] /\ old \in HelperType
  BY ReconcileTypes
<1>2. old.plan \in 0 .. Len(plans) /\ old.source \in Source /\ old.at \in 0 .. Len(activities)
      /\ old = [stage |-> old.stage, plan |-> old.plan, source |-> old.source, at |-> old.at]
  <2> HIDE DEF old
  <2> QED
    BY <1>1 DEF HelperType
<1>3. h \in HelperType
  <2> HIDE DEF old
  <2> QED
    BY <1>2 DEF HelperType, Stages
<1>4. half = [stage |-> stage, plan |-> old.plan, source |-> old.source, at |-> old.at]
  <2> HIDE DEF old
  <2> QED
    BY <1>2
<1>5. ASSUME At(c, stage), at = helper[c].at PROVE helper' = [helper EXCEPT ![c] = h]
  <2>1. helper' = [helper EXCEPT ![c] = half]
    BY <1>5 DEF At
  <2> QED
    BY <1>4, <1>5, <2>1
<1>6. ASSUME ReadGraph(c, stage), at = Len(activities) PROVE helper' = [helper EXCEPT ![c] = h]
  <2>1. helper' = [[helper EXCEPT ![c] = half] EXCEPT ![c].at = at]
    BY <1>6 DEF ReadGraph
  <2>2. helper' = [helper EXCEPT ![c] = [half EXCEPT !.at = at]]
    <3> HIDE DEF half
    <3> QED
      BY <1>1, <2>1, Zenon
  <2>3. [half EXCEPT !.at = at] = h
    <3> HIDE DEF old, half
    <3> QED
      BY <1>4
  <2> QED
    BY <2>2, <2>3
<1> QED
  BY <1>3, <1>5, <1>6

-----------------------------------------------------------------------------
(* The steps of a helper's process that leave the ontology alone *)

\* A helper that starts to plan or to apply, or stops, knows nothing yet.
LEMMA FreshHelper ==
  ASSUME ReconcileInv, NEW stage \in {"idle", "planning", "fetched"},
         NEW plan \in 0 .. Len(plans), NEW source \in Source
  PROVE  [stage |-> stage, plan |-> plan, source |-> source, at |-> 0] \in HelperType
<1>1. 0 \in 0 .. Len(activities)
  BY ReconcileTypes
<1> QED
  BY <1>1 DEF HelperType, Receipts, Running

LEMMA FetchInv ==
  ASSUME ReconcileInv, NEW c \in Client, PlanFetch(c) \/ \E p \in DOMAIN plans : ApplyFetch(c, p)
  PROVE  ReconcileInv'
<1>1. \E stage \in {"planning", "fetched"}, plan \in 0 .. Len(plans) :
        /\ stage = "fetched" => plan \in DOMAIN plans
        /\ helper' = [helper EXCEPT ![c] = [stage |-> stage, plan |-> plan,
                                            source |-> github, at |-> 0]]
        /\ UNCHANGED <<vars, github, plans>>
  BY ReconcileTypes DEF PlanFetch, ApplyFetch
<1>2. PICK stage \in {"planning", "fetched"}, plan \in 0 .. Len(plans) :
        /\ stage = "fetched" => plan \in DOMAIN plans
        /\ helper' = [helper EXCEPT ![c] = [stage |-> stage, plan |-> plan,
                                            source |-> github, at |-> 0]]
        /\ UNCHANGED <<vars, github, plans>>
  BY <1>1
<1> DEFINE h == [stage |-> stage, plan |-> plan, source |-> github, at |-> 0]
<1>3. h \in HelperType /\ github.version \in Nat
  BY ReconcileTypes, FreshHelper DEF Source
<1>4. helper'[c] = h
  BY <1>2, ReconcileTypes
<1>5. Knows(c)'
  BY <1>2, <1>3, <1>4 DEF Knows
<1> HIDE DEF h
<1> QED
  BY <1>2, <1>3, <1>5, MovedHelper DEF h

LEMMA KillInv ==
  ASSUME ReconcileInv, NEW c \in Client, Kill(c)
  PROVE  ReconcileInv'
<1>1. NotRunning \in HelperType /\ NotRunning.stage = "idle" /\ NotRunning.source.version = 0
  BY FreshHelper, ReconcileTypes DEF NotRunning, Source, PrState
<1>2. helper' = [helper EXCEPT ![c] = NotRunning] /\ UNCHANGED <<vars, github, plans>>
  BY DEF Kill, Stop
<1>3. helper'[c] = NotRunning
  BY <1>2, ReconcileTypes
<1>4. Knows(c)'
  <2>1. 0 <= github'.version
    BY <1>2, ReconcileTypes DEF Source
  <2> QED
    BY <1>1, <1>3, <2>1 DEF Knows
<1> QED
  BY <1>1, <1>2, <1>4, MovedHelper

LEMMA PlanGraphInv ==
  ASSUME ReconcileInv, NEW c \in Client, PlanGraph(c)
  PROVE  ReconcileInv'
<1> DEFINE plan == [source |-> helper[c].source, before |-> Snapshot]
<1>1. /\ UNCHANGED <<vars, github, relations, activities>> /\ Len(plans) < MaxPlans
      /\ plans' = Append(plans, plan) /\ helper' = [helper EXCEPT ![c] = NotRunning]
  BY DEF PlanGraph, Stop, vars, committed
<1>2. /\ helper[c].source \in Source /\ helper[c].source.version <= github.version
      /\ plan \in Plan
  <2>1. helper[c] \in HelperType /\ Knows(c) /\ relations \in Seq(Relation)
    BY ReconcileTypes DEF ReconcileInv, HelpersInv
  <2>2. helper[c].source \in Source /\ helper[c].source.version <= github.version
    BY <2>1 DEF HelperType, Knows
  <2> QED
    BY <2>1, <2>2, SnapshotShape DEF Plan
<1>3. /\ plans' \in Seq(Plan) /\ Len(plans') = Len(plans) + 1 /\ DOMAIN plans' = 1 .. Len(plans) + 1
      /\ \A p \in DOMAIN plans : p \in DOMAIN plans' /\ plans'[p] = plans[p]
      /\ plans'[Len(plans) + 1] = plan
  <2> HIDE DEF plan
  <2>1. /\ plans' \in Seq(Plan) /\ Len(plans') = Len(plans) + 1
        /\ \A p \in 1 .. Len(plans) : plans'[p] = plans[p]
        /\ plans'[Len(plans) + 1] = plan
    BY <1>1, <1>2, ReconcileTypes, AppendProperties
  <2> QED
    BY <2>1, ReconcileTypes, LenProperties
<1>4. Onward
  BY <1>1, <1>3, ReconcileTypes DEF Onward, Source
<1>5. PlansInv'
  <2>1. PlansInv /\ Len(plans') <= MaxPlans
    BY <1>1, <1>3, ReconcileTypes DEF ReconcileInv
  <2>2. ASSUME NEW p \in DOMAIN plans'
        PROVE  /\ plans'[p].source.version <= github.version
               /\ \A r \in plans'[p].before :
                    r.id \in DOMAIN relations /\ relations[r.id].subject = Pr
                      /\ relations[r.id].type = r.type
    <3>1. CASE p \in DOMAIN plans
      BY <1>3, <2>1, <3>1 DEF PlansInv
    <3>2. CASE p = Len(plans) + 1
      BY <1>2, <1>3, <3>2, ReconcileTypes, SnapshotShape
    <3> QED
      BY <1>3, <3>1, <3>2, ReconcileTypes
  <2> QED
    BY <1>1, <1>3, <2>1, <2>2 DEF PlansInv
<1>6. NotRunning \in HelperType /\ NotRunning.stage = "idle" /\ NotRunning.source.version = 0
  BY FreshHelper, ReconcileTypes DEF NotRunning, Source, PrState
<1>7. helper' \in [Client -> HelperType']
  <2>1. HelperType \subseteq HelperType' /\ helper \in [Client -> HelperType']
    BY <1>1, <1>3, <1>4, HelperTypeGrows, ReconcileTypes
  <2> QED
    BY <1>1, <1>6, <2>1
<1>8. Knows(c)'
  <2>1. 0 <= github'.version /\ helper'[c] = NotRunning
    BY <1>1, ReconcileTypes DEF Source
  <2> QED
    BY <1>6, <2>1 DEF Knows
<1> DEFINE moved == {c}
<1>9. moved \in SUBSET Client /\ (\A o \in Client \ moved : helper'[o] = helper[o])
      /\ \A o \in moved : Knows(o)'
  BY <1>1, <1>8, ReconcileTypes
<1> HIDE DEF moved
<1> QED
  BY <1>1, <1>4, <1>5, <1>7, <1>9, HelperStep

\* A helper that has posted, looks at what has come of it, or gives up.
LEMMA AnsweredStages ==
  ASSUME ReconcileInv, NEW c \in Client,
         Answered(c) \/ GiveUp(c) \/ Readback(c) \/ FinalFetch(c) \/ ReadFails(c)
  PROVE  ReconcileInv'
<1> DEFINE old == helper[c]
           To(stage, at) == [stage |-> stage, plan |-> old.plan, source |-> old.source, at |-> at]
<1>1. /\ UNCHANGED <<vars, github, plans, relations, activities>>
      /\ helper \in [Client -> HelperType] /\ old \in HelperType /\ Knows(c)
      /\ old.at \in 0 .. Len(activities) /\ Len(activities) \in 0 .. Len(activities)
      /\ old.source \in Source /\ old.source.version <= github.version
  <2>1. old \in HelperType /\ Knows(c)
    BY ReconcileTypes DEF ReconcileInv, HelpersInv
  <2>2. old.at \in 0 .. Len(activities) /\ old.source \in Source
    BY <2>1 DEF HelperType
  <2> QED
    BY <2>1, <2>2, ReconcileTypes
       DEF Answered, GiveUp, Readback, FinalFetch, ReadFails, vars, committed, Knows
<1>2. ASSUME NEW stage \in Stages, NEW at \in 0 .. Len(activities),
             helper' = [helper EXCEPT ![c] = To(stage, at)],
             stage \notin {"fetched", "ready", "posted"},
             stage \in {"written", "readback", "applied_and_verified"} =>
               \E a \in DOMAIN activities : activities[a].plan = old.plan,
             stage \in {"readback", "already_current", "applied_and_verified"}
               /\ at = Len(activities) => IsCurrent(old.source),
             stage = "applied_and_verified" =>
               \E a \in DOMAIN activities :
                 /\ activities[a].plan = old.plan
                 /\ \A b \in 1 .. a : activities[b].plan # 0 =>
                      plans[activities[b].plan].source.version <= old.source.version
      PROVE  ReconcileInv'
  <2> DEFINE h == To(stage, at)
  <2>1. h \in HelperType
    BY AtShape
  <2>2. /\ helper'[c].stage = stage /\ helper'[c].plan = old.plan
        /\ helper'[c].source = old.source /\ helper'[c].at = at
    BY <1>1, <1>2
  <2>3. IsCurrent(old.source) => IsCurrent(helper[c].source)'
    BY <1>1, <2>2 DEF IsCurrent, Has, Snapshot, Current
  <2>4. Knows(c)'
    BY <1>1, <1>2, <2>2, <2>3 DEF Knows
  <2> HIDE DEF h
  <2> QED
    BY <1>1, <1>2, <2>1, <2>4, MovedHelper DEF h
<1>3. \A stage \in Stages :
        /\ At(c, stage) => helper' = [helper EXCEPT ![c] = To(stage, old.at)]
        /\ ReadGraph(c, stage) => helper' = [helper EXCEPT ![c] = To(stage, Len(activities))]
  BY <1>1, AtShape
<1>4. CASE Answered(c)
  <2> DEFINE stage == IF answer[c] \in {"applied", "duplicate"} THEN "written"
                                                              ELSE "write_not_verified"
  <2>1. stage \in Stages /\ helper' = [helper EXCEPT ![c] = To(stage, old.at)]
    BY <1>3, <1>4 DEF Answered, Stages, Receipts, Running
  <2>2. stage = "written" => \E a \in DOMAIN activities : activities[a].plan = old.plan
    <3>1. /\ phase[c] = "answered" /\ request[c] = ActivityFor(c, old.plan)
      BY <1>1, <1>4 DEF Answered, Knows
    <3>2. request[c].plan = old.plan
      BY <3>1 DEF ActivityFor
    <3> QED
      BY <3>1, <3>2 DEF ReconcileInv, RequestsInv, InFlight
  <2>3. stage \in {"written", "write_not_verified"}
    OBVIOUS
  <2> HIDE DEF stage, old
  <2> QED
    BY <1>1, <1>2, <2>1, <2>2, <2>3
<1>5. CASE GiveUp(c)
  <2>1. "write_not_verified" \in Stages
        /\ helper' = [helper EXCEPT ![c] = To("write_not_verified", old.at)]
    BY <1>3, <1>5 DEF GiveUp, Stages, Receipts
  <2> HIDE DEF old
  <2> QED
    BY <1>1, <1>2, <2>1
<1>6. CASE ReadFails(c)
  <2>1. "applied_unverified" \in Stages
        /\ helper' = [helper EXCEPT ![c] = To("applied_unverified", old.at)]
    BY <1>3, <1>6 DEF ReadFails, Stages, Receipts
  <2> HIDE DEF old
  <2> QED
    BY <1>1, <1>2, <2>1
<1>7. CASE Readback(c)
  <2> DEFINE stage == IF EffectsFor(old.source, Snapshot) = << >>
                        THEN "readback" ELSE "applied_unverified"
  <2>1. stage \in Stages /\ helper' = [helper EXCEPT ![c] = To(stage, Len(activities))]
    BY <1>3, <1>7 DEF Readback, Stages, Receipts, Running
  <2>2. \E a \in DOMAIN activities : activities[a].plan = old.plan
    BY <1>1, <1>7 DEF Readback, Knows
  <2>3. stage = "readback" => IsCurrent(old.source)
    <3> SUFFICES ASSUME EffectsFor(old.source, Snapshot) = << >> PROVE IsCurrent(old.source)
      OBVIOUS
    <3>1. /\ Stale(old.source, Snapshot) = {}
          /\ \E r \in Snapshot : r.type = old.source.state /\ r.state = "confirmed"
      <4> DEFINE before == Snapshot
      <4>1. before \in SUBSET [id : Nat, type : RelationType,
                               state : {"candidate", "confirmed"}]
        BY SnapshotShape, ReconcileTypes
      <4>2. EffectsFor(old.source, before) = << >> /\ old.source \in Source
        BY <1>1
      <4> HIDE DEF before, old
      <4>3. /\ Stale(old.source, before) = {}
            /\ \E r \in before : r.type = old.source.state /\ r.state = "confirmed"
        BY <4>1, <4>2, EffectsShape
      <4> QED
        BY <4>3 DEF before
    <3> QED
      BY <3>1 DEF IsCurrent, Has, Stale
  <2>4. stage \in {"readback", "applied_unverified"}
    OBVIOUS
  <2> HIDE DEF stage, old
  <2> QED
    BY <1>1, <1>2, <2>1, <2>2, <2>3, <2>4
<1>8. CASE FinalFetch(c)
  <2> DEFINE stage == IF github = old.source THEN "applied_and_verified"
                                             ELSE "applied_unverified"
  <2>1. stage \in Stages /\ helper' = [helper EXCEPT ![c] = To(stage, old.at)]
    BY <1>3, <1>8 DEF FinalFetch, Stages, Receipts
  <2>2. /\ \E a \in DOMAIN activities : activities[a].plan = old.plan
        /\ old.at = Len(activities) => IsCurrent(old.source)
    BY <1>1, <1>8 DEF FinalFetch, Knows
  <2>3. stage = "applied_and_verified" =>
          \A a \in DOMAIN activities : activities[a].plan # 0 =>
            plans[activities[a].plan].source.version <= old.source.version
    BY DEF ReconcileInv, ActivitiesInv, PlansInv
  <2>4. \A a \in DOMAIN activities : 1 .. a \subseteq DOMAIN activities
    BY ReconcileTypes
  <2>5. stage \in {"applied_and_verified", "applied_unverified"}
    OBVIOUS
  <2> HIDE DEF stage, old
  <2>6. stage = "applied_and_verified" =>
          \E a \in DOMAIN activities :
            /\ activities[a].plan = old.plan
            /\ \A b \in 1 .. a : activities[b].plan # 0 =>
                 plans[activities[b].plan].source.version <= old.source.version
    BY <2>2, <2>3, <2>4
  <2> QED
    BY <1>1, <1>2, <2>1, <2>2, <2>5, <2>6
<1> QED
  BY <1>4, <1>5, <1>6, <1>7, <1>8

-----------------------------------------------------------------------------
(* Requests that change no table *)

Answers == {"none", "applied", "duplicate", "conflict", "rejected", "error"}

\* The request of one client moves on, without the lock; its helper may, too.
RequestStep(c, to, req, said) ==
  /\ UNCHANGED <<committed, transaction, github, plans>>
  /\ phase[c] # "applying" /\ to \in {"read", "sent", "auditing", "answered"}
  /\ phase' = [phase EXCEPT ![c] = to]
  /\ request' = [request EXCEPT ![c] = req] /\ req \in Posted \cup {NoRequest}
  /\ answer' = [answer EXCEPT ![c] = said] /\ said \in Answers
  /\ to # "read" => \E p \in DOMAIN plans : req = ActivityFor(c, p)
  /\ to # "read" /\ said \in {"applied", "duplicate"} =>
       \E a \in DOMAIN activities : activities[a].plan = req.plan
  /\ to = "read" => said = "none"
  /\ helper' \in [Client -> HelperType]
  /\ \A o \in Client \ {c} : helper'[o] = helper[o]

LEMMA RequestStepInv ==
  ASSUME ReconcileInv, NEW c \in Client, NEW to, NEW req, NEW said,
         RequestStep(c, to, req, said), Knows(c)'
  PROVE  ReconcileInv'
<1>1. /\ UNCHANGED <<relations, activities, holder, draft, next, github, plans>>
      /\ SoundRows(relations) /\ OneVerdict /\ PlansInv /\ ActivitiesInv /\ RequestsInv /\ LockInv
      /\ ApplyingInv /\ HelpersInv
  BY DEF RequestStep, committed, transaction, ReconcileInv
<1>2. /\ \A o \in Client \ {c} : phase'[o] = phase[o] /\ request'[o] = request[o]
                                 /\ answer'[o] = answer[o]
      /\ phase'[c] = to /\ request'[c] = req /\ answer'[c] = said
      /\ phase' \in [Client -> {"idle", "read"} \cup InFlight]
      /\ request' \in [Client -> Posted \cup {NoRequest}] /\ answer' \in [Client -> Answers]
  BY <1>1 DEF RequestStep, RequestsInv, InFlight, Answers
<1>3. SoundRows(relations)' /\ OneVerdict' /\ PlansInv' /\ ActivitiesInv'
  BY <1>1 DEF SoundRows, OneVerdict, PlansInv, ActivitiesInv, PlansAppliedOnce, Verdicts
<1>4. RequestsInv'
  <2> SUFFICES ASSUME NEW o \in Client
               PROVE  /\ phase'[o] \in {"idle", "read"} => answer'[o] = "none"
                      /\ phase'[o] \in InFlight =>
                           \E p \in DOMAIN plans : request'[o] = ActivityFor(o, p)
                      /\ phase'[o] \in InFlight /\ answer'[o] \in {"applied", "duplicate"} =>
                           \E a \in DOMAIN activities : activities[a].plan = request'[o].plan
    BY <1>1, <1>2 DEF RequestsInv, ActivityFor, Answers
  <2>1. CASE o = c
    BY <1>2, <2>1 DEF RequestStep, InFlight
  <2>2. CASE o # c
    BY <1>1, <1>2, <2>2 DEF RequestsInv
  <2> QED
    BY <2>1, <2>2
<1>5. LockInv' /\ holder # c
  BY <1>1, <1>2 DEF LockInv, RequestStep
<1>6. ApplyingInv'
  <2> SUFFICES ASSUME NEW o \in Client, holder = o
               PROVE  \E p \in DOMAIN plans : Applying(o, p)'
    BY <1>1 DEF ApplyingInv
  <2>1. PICK p \in DOMAIN plans : Applying(o, p)
    BY <1>1 DEF ApplyingInv
  <2>2. request'[o] = request[o] /\ ActivityFor(o, p)' = ActivityFor(o, p)
    BY <1>1, <1>2, <1>5 DEF ActivityFor
  <2>3. Prior(o)' = Prior(o)
    BY <1>1, <2>2 DEF Prior
  <2>4. Applying(o, p)'
    BY <1>1, <2>1, <2>2, <2>3 DEF Applying, SoundRows, SameTriples, Verdicts
  <2> QED
    BY <2>4
<1>7. HelpersInv'
  <2>1. helper' \in [Client -> HelperType']
    BY <1>1 DEF RequestStep, HelperType
  <2>2. ASSUME NEW o \in Client \ {c} PROVE Knows(o)'
    <3>1. helper[o].stage = "posted" => phase'[o] \in InFlight /\ request'[o] = request[o]
      BY <1>1, <1>2 DEF HelpersInv, Knows
    <3>2. helper'[o] = helper[o]
      BY DEF RequestStep
    <3> QED
      BY <1>1, <3>1, <3>2, KnowsKept, OnwardUnchanged
  <2> QED
    BY <2>1, <2>2 DEF HelpersInv
<1> QED
  BY <1>3, <1>4, <1>5, <1>6, <1>7 DEF ReconcileInv

LEMMA OwnRequest ==
  ASSUME ReconcileInv, NEW c \in Client
  PROVE  /\ request = [request EXCEPT ![c] = request[c]] /\ answer = [answer EXCEPT ![c] = answer[c]]
         /\ request[c] \in Posted \cup {NoRequest} /\ answer[c] \in Answers
         /\ phase[c] \in InFlight => \E p \in DOMAIN plans : request[c] = ActivityFor(c, p)
         /\ phase[c] \in InFlight /\ answer[c] \in {"applied", "duplicate"} =>
              \E a \in DOMAIN activities : activities[a].plan = request[c].plan
         /\ helper \in [Client -> HelperType]
BY ReconcileTypes DEF ReconcileInv, RequestsInv, Answers

LEMMA AnsweredRequest ==
  ASSUME ReconcileInv, NEW c \in Client, UNCHANGED reconciliation,
         \/ AnswerRetry(c) \/ RefuseGuard(c) \/ Reject(c) \/ AuditRejection(c)
         \/ LoseAudit(c) \/ (Abort(c) /\ phase[c] = "sent")
  PROVE  ReconcileInv'
<1> DEFINE Step(to, said) == RequestStep(c, to, request[c], said)
<1>1. UNCHANGED <<github, plans, helper, relations, activities, request>>
      /\ phase[c] \in {"sent", "auditing"}
  BY DEF AnswerRetry, RefuseGuard, Reject, AuditRejection, LoseAudit, Abort, Respond, Locked,
         reconciliation, committed
<1>2. ASSUME NEW to, NEW said, Step(to, said), to # "read" PROVE ReconcileInv'
  <2>1. phase'[c] \in InFlight
    BY <1>2 DEF RequestStep, InFlight, ReconcileInv, RequestsInv
  <2>2. Knows(c)'
    BY <1>1, <2>1, KnowsKept, OnwardUnchanged
  <2> QED
    BY <1>2, <2>2, RequestStepInv
<1>3. CASE AnswerRetry(c)
  <2>1. ASSUME \A a \in Prior(c) : SameRequest(c, a)
        PROVE  \E a \in DOMAIN activities : activities[a].plan = request[c].plan
    BY <1>3, <2>1 DEF AnswerRetry, Prior, SameRequest
  <2>2. \E said \in {"duplicate", "conflict"} : Step("answered", said)
    BY <1>1, <1>3, <2>1, OwnRequest
       DEF AnswerRetry, Respond, GoTo, Locked, RequestStep, InFlight, Answers, committed
  <2> QED
    BY <1>2, <2>2
<1>4. CASE RefuseGuard(c)
  <2>1. Step("answered", "conflict")
    BY <1>1, <1>4, OwnRequest
       DEF RefuseGuard, Respond, GoTo, Locked, RequestStep, InFlight, Answers, committed
  <2> QED
    BY <1>2, <2>1
<1>5. CASE Reject(c)
  <2>1. Step("auditing", answer[c])
    BY <1>1, <1>5, OwnRequest
       DEF Reject, GoTo, Locked, RequestStep, InFlight, Answers, committed
  <2> QED
    BY <1>2, <2>1
<1>6. CASE AuditRejection(c)
  <2>1. Step("answered", "rejected")
    BY <1>1, <1>6, OwnRequest
       DEF AuditRejection, Respond, GoTo, RequestStep, InFlight, Answers, committed
  <2> QED
    BY <1>2, <2>1
<1>7. CASE LoseAudit(c)
  <2>1. Step("answered", "error")
    BY <1>1, <1>7, OwnRequest
       DEF LoseAudit, Respond, GoTo, RequestStep, InFlight, Answers, committed
  <2> QED
    BY <1>2, <2>1
<1>8. CASE Abort(c) /\ phase[c] = "sent"
  <2>1. Step("answered", "error")
    BY <1>1, <1>8, OwnRequest
       DEF Abort, Respond, GoTo, RequestStep, InFlight, Answers, committed
  <2> QED
    BY <1>2, <2>1
<1> QED
  BY <1>3, <1>4, <1>5, <1>6, <1>7, <1>8

LEMMA ActivityIsPosted ==
  ASSUME ReconcileInv, NEW c \in Client, NEW p \in DOMAIN plans
  PROVE  ActivityFor(c, p) \in Posted
<1>1. /\ p \in 1 .. MaxPlans /\ p \in 0 .. MaxPlans /\ p \in Key
      /\ plans[p].source \in Source
      /\ plans[p].before \in SUBSET [id : Nat, type : RelationType,
                                     state : {"candidate", "confirmed"}]
  <2>1. p \in 1 .. MaxPlans /\ p \in 0 .. MaxPlans /\ plans[p] \in Plan
    BY ReconcileTypes
  <2> QED
    BY <2>1, ReconcileAssumption DEF Plan
<1>2. EffectsFor(plans[p].source, plans[p].before) \in Seq(Effect)
  BY <1>1, EffectsShape
<1>3. {r.id : r \in plans[p].before} \in SUBSET Nat
  BY <1>1
<1>4. Pr \in Uri /\ HelperSession \in Session
  BY ReconcileAssumption
<1> QED
  BY <1>1, <1>2, <1>3, <1>4 DEF ActivityFor, Posted

LEMMA PostInv ==
  ASSUME ReconcileInv, NEW c \in Client, Post(c)
  PROVE  ReconcileInv'
<1> DEFINE p == helper[c].plan
           req == ActivityFor(c, p)
           h == [stage |-> "posted", plan |-> p, source |-> helper[c].source, at |-> helper[c].at]
<1>1. /\ UNCHANGED <<committed, audited, transaction, answer, github, plans, relations, activities>>
      /\ phase[c] = "read" /\ phase' = [phase EXCEPT ![c] = "sent"]
      /\ request' = [request EXCEPT ![c] = req]
      /\ helper[c].stage = "ready" /\ At(c, "posted")
  BY DEF Post, Submit, GoTo, committed
<1>2. /\ Knows(c) /\ p \in DOMAIN plans /\ helper \in [Client -> HelperType]
      /\ helper[c].at \in 0 .. Len(activities) /\ helper[c].source.version <= github.version
  <2>1. Knows(c) /\ helper[c] \in HelperType
    BY ReconcileTypes DEF ReconcileInv, HelpersInv
  <2>2. helper[c].at \in 0 .. Len(activities)
    BY <2>1 DEF HelperType
  <2> QED
    BY <1>1, <2>1, <2>2, ReconcileTypes DEF Knows
<1>3. h \in HelperType /\ helper' = [helper EXCEPT ![c] = h]
  <2>1. "posted" \in Stages
    BY DEF Stages, Running
  <2> QED
    BY <1>1, <1>2, <2>1, AtShape
<1>4. req \in Posted
  BY <1>2, ActivityIsPosted
<1>5. /\ helper'[c].stage = "posted" /\ helper'[c].plan = p
      /\ helper'[c].source = helper[c].source /\ helper' \in [Client -> HelperType]
      /\ \A o \in Client \ {c} : helper'[o] = helper[o]
  <2>1. h.stage = "posted" /\ h.plan = p /\ h.source = helper[c].source
    OBVIOUS
  <2> HIDE DEF h, p
  <2> QED
    BY <1>2, <1>3, <2>1
<1>6. answer[c] = "none"
  BY <1>1 DEF ReconcileInv, RequestsInv
<1>7. RequestStep(c, "sent", req, answer[c])
  <2> HIDE DEF h
  <2> QED
    BY <1>1, <1>2, <1>4, <1>5, <1>6, OwnRequest DEF RequestStep
<1>8. Knows(c)'
  <2>1. phase'[c] = "sent" /\ request'[c] = req
    BY <1>1 DEF ReconcileInv, RequestsInv
  <2>2. ActivityFor(c, helper[c].plan)' = req
    BY <1>1, <1>5 DEF ActivityFor
  <2> QED
    BY <1>1, <1>2, <1>5, <2>1, <2>2 DEF Knows, InFlight
<1> QED
  BY <1>7, <1>8, RequestStepInv

LEMMA ApplyGraphInv ==
  ASSUME ReconcileInv, NEW c \in Client, ApplyGraph(c)
  PROVE  ReconcileInv'
<1> DEFINE plan == plans[helper[c].plan]
           source == helper[c].source
           To(stage) == [stage |-> stage, plan |-> helper[c].plan, source |-> source,
                         at |-> Len(activities)]
<1>1. /\ UNCHANGED <<committed, transaction, github, plans, relations, activities>>
      /\ phase[c] \in {"idle", "read", "answered"} /\ phase' = [phase EXCEPT ![c] = "read"]
      /\ request' = [request EXCEPT ![c] = NoRequest]
      /\ answer' = [answer EXCEPT ![c] = "none"] /\ helper[c].stage = "fetched"
      /\ \/ EffectsFor(source, Snapshot) = << >> /\ ReadGraph(c, "already_current")
         \/ ReadGraph(c, "ready") \/ Stop(c)
  BY DEF ApplyGraph, Read, GoTo, committed
<1>2. /\ helper \in [Client -> HelperType] /\ source \in Source
      /\ source.version <= github.version /\ helper[c].plan \in DOMAIN plans
      /\ Len(activities) \in 0 .. Len(activities)
  <2>1. Knows(c) /\ helper[c] \in HelperType
    BY ReconcileTypes DEF ReconcileInv, HelpersInv
  <2>2. source \in Source
    BY <2>1 DEF HelperType
  <2> QED
    BY <1>1, <2>1, <2>2, ReconcileTypes DEF Knows
<1>3. ASSUME NEW h \in HelperType, helper' = [helper EXCEPT ![c] = h], Knows(c)'
      PROVE  ReconcileInv'
  <2>1. helper' \in [Client -> HelperType] /\ \A o \in Client \ {c} : helper'[o] = helper[o]
    BY <1>2, <1>3
  <2>2. RequestStep(c, "read", NoRequest, "none")
    BY <1>1, <2>1 DEF RequestStep, Answers
  <2> QED
    BY <1>3, <2>2, RequestStepInv
<1>4. ASSUME NEW stage \in {"already_current", "ready"}, ReadGraph(c, stage),
             stage = "already_current" => EffectsFor(source, Snapshot) = << >>
      PROVE  ReconcileInv'
  <2> DEFINE h == To(stage)
  <2>1. h \in HelperType /\ helper' = [helper EXCEPT ![c] = h]
    BY <1>2, <1>4, AtShape DEF Stages, Receipts, Running
  <2>2. helper'[c].stage = stage /\ helper'[c].source = source /\ helper'[c].plan = helper[c].plan
    BY <1>2, <2>1
  <2>3. stage = "already_current" => IsCurrent(source)
    <3> DEFINE before == Snapshot
    <3>1. before \in SUBSET [id : Nat, type : RelationType, state : {"candidate", "confirmed"}]
      BY SnapshotShape, ReconcileTypes
    <3>2. stage = "already_current" => EffectsFor(source, before) = << >>
      BY <1>4
    <3> HIDE DEF before, source
    <3>3. stage = "already_current" =>
            /\ Stale(source, before) = {}
            /\ \E r \in before : r.type = source.state /\ r.state = "confirmed"
      BY <1>2, <3>1, <3>2, EffectsShape
    <3> QED
      BY <3>3 DEF IsCurrent, Has, Stale, before
  <2>4. IsCurrent(source) => IsCurrent(helper[c].source)'
    BY <1>1, <2>2 DEF IsCurrent, Has, Snapshot, Current
  <2>5. Knows(c)'
    BY <1>1, <1>2, <2>2, <2>3, <2>4 DEF Knows
  <2> HIDE DEF h
  <2> QED
    BY <1>3, <2>1, <2>5
<1>5. CASE Stop(c)
  <2>1. NotRunning \in HelperType /\ NotRunning.stage = "idle" /\ NotRunning.source.version = 0
    BY FreshHelper, ReconcileTypes DEF NotRunning, Source, PrState
  <2>2. helper' = [helper EXCEPT ![c] = NotRunning] /\ helper'[c] = NotRunning
    BY <1>2, <1>5 DEF Stop
  <2>3. Knows(c)'
    <3>1. 0 <= github'.version
      BY <1>1, ReconcileTypes DEF Source
    <3> QED
      BY <2>1, <2>2, <3>1 DEF Knows
  <2> QED
    BY <1>3, <2>1, <2>2, <2>3
<1> QED
  BY <1>1, <1>4, <1>5

-----------------------------------------------------------------------------
(* The transaction of a plan *)

\* The parts that say nothing of draft and lock.
LEMMA TransactionStep ==
  ASSUME ReconcileInv, UNCHANGED reconciliation, UNCHANGED committed, RequestsInv', LockInv',
         ApplyingInv',
         \A c \in Client : helper[c].stage = "posted" =>
                             phase'[c] \in InFlight /\ request'[c] = request[c]
  PROVE  ReconcileInv'
<1>1. /\ UNCHANGED <<github, plans, helper, relations, activities>>
      /\ SoundRows(relations) /\ OneVerdict /\ PlansInv /\ ActivitiesInv /\ HelpersInv
  BY DEF reconciliation, committed, ReconcileInv
<1>2. SoundRows(relations)' /\ OneVerdict' /\ PlansInv' /\ ActivitiesInv'
  BY <1>1 DEF SoundRows, OneVerdict, PlansInv, ActivitiesInv, PlansAppliedOnce, Verdicts
<1>3. HelpersInv'
  <2>1. helper' \in [Client -> HelperType']
    BY <1>1 DEF HelpersInv, HelperType
  <2>2. ASSUME NEW c \in Client PROVE Knows(c)'
    BY <1>1, KnowsKept, OnwardUnchanged
  <2> QED
    BY <2>1, <2>2 DEF HelpersInv
<1> QED
  BY <1>2, <1>3 DEF ReconcileInv

\* The requests, when c goes on with the one it has.
LEMMA RequestGoesOn ==
  ASSUME ReconcileInv, NEW c \in Client, phase[c] \in InFlight, NEW to \in InFlight,
         NEW said \in Answers, UNCHANGED <<plans, request>>,
         phase' = [phase EXCEPT ![c] = to], answer' = [answer EXCEPT ![c] = said],
         activities' \in Seq(Posted),
         \A a \in DOMAIN activities : a \in DOMAIN activities' /\ activities'[a] = activities[a],
         said \in {"applied", "duplicate"} =>
           \E a \in DOMAIN activities' : activities'[a].plan = request[c].plan
  PROVE  /\ RequestsInv'
         /\ phase'[c] = to /\ \A o \in Client \ {c} : phase'[o] = phase[o]
         /\ \A o \in Client : helper[o].stage = "posted" =>
                                phase'[o] \in InFlight /\ request'[o] = request[o]
<1>1. /\ RequestsInv /\ HelpersInv
      /\ phase \in [Client -> {"idle", "read"} \cup InFlight] /\ answer \in [Client -> Answers]
  BY DEF ReconcileInv, RequestsInv, Answers
<1>2. /\ phase'[c] = to /\ \A o \in Client \ {c} : phase'[o] = phase[o] /\ answer'[o] = answer[o]
      /\ answer'[c] = said
      /\ phase' \in [Client -> {"idle", "read"} \cup InFlight] /\ answer' \in [Client -> Answers]
  BY <1>1
<1>3. RequestsInv'
  <2> SUFFICES ASSUME NEW o \in Client
               PROVE  /\ phase'[o] \in {"idle", "read"} => answer'[o] = "none"
                      /\ phase'[o] \in InFlight =>
                           \E p \in DOMAIN plans : request[o] = ActivityFor(o, p)
                      /\ phase'[o] \in InFlight /\ answer'[o] \in {"applied", "duplicate"} =>
                           \E a \in DOMAIN activities' : activities'[a].plan = request[o].plan
    BY <1>1, <1>2 DEF RequestsInv, ActivityFor, Answers
  <2>1. CASE o = c
    BY <1>1, <1>2, <2>1 DEF RequestsInv, InFlight
  <2>2. CASE o # c
    BY <1>1, <1>2, <2>2 DEF RequestsInv
  <2> QED
    BY <2>1, <2>2
<1>4. \A o \in Client : helper[o].stage = "posted" =>
        phase'[o] \in InFlight /\ request'[o] = request[o]
  BY <1>1, <1>2 DEF HelpersInv, Knows
<1> QED
  BY <1>2, <1>3, <1>4

\* The effects of a request in flight.
LEMMA PlannedEffects ==
  ASSUME ReconcileInv, NEW c \in Client, NEW p \in DOMAIN plans, request[c] = ActivityFor(c, p)
  PROVE  LET es == request[c].effects IN
         /\ es = EffectsFor(plans[p].source, plans[p].before)
         /\ es \in Seq(Effect) /\ Len(es) \in Nat /\ DOMAIN es = 1 .. Len(es)
         /\ \A j \in 1 .. Len(es) :
              /\ es[j] \in Effect /\ es[j].subject = Pr /\ es[j].target = Repo
              /\ es[j].op = "assert" => es[j].type = plans[p].source.state
         /\ \A t \in Stale(plans[p].source, plans[p].before) :
              \E j \in 1 .. Len(es) : es[j].op = "retract" /\ es[j].type = t
         /\ request[c].key = p /\ request[c].plan = p /\ request[c] \in Posted
<1> DEFINE source == plans[p].source
           before == plans[p].before
           es == EffectsFor(source, before)
<1>1. source \in Source
      /\ before \in SUBSET [id : Nat, type : RelationType, state : {"candidate", "confirmed"}]
  BY ReconcileTypes DEF Plan
<1>2. request[c].effects = es /\ request[c].key = p /\ request[c].plan = p
  BY DEF ActivityFor
<1> HIDE DEF source, before
<1>3. /\ es \in Seq(Effect)
      /\ \A j \in 1 .. Len(es) :
           /\ es[j].subject = Pr /\ es[j].target = Repo
           /\ es[j].op = "assert" => es[j].type = source.state
      /\ \A t \in Stale(source, before) :
           \E j \in 1 .. Len(es) : es[j].op = "retract" /\ es[j].type = t
  BY <1>1, EffectsShape
<1> HIDE DEF es
<1>4. Len(es) \in Nat /\ DOMAIN es = 1 .. Len(es) /\ \A j \in 1 .. Len(es) : es[j] \in Effect
  BY <1>3, LenProperties, ElementOfSeq
<1>5. request[c] \in Posted
  BY ActivityIsPosted
<1> QED
  BY <1>2, <1>3, <1>4, <1>5 DEF es, source, before

\* The guard holds when the plan is accepted: the rows it names are the current
\* ones, so what it does not assert or leave alone it retracts.
LEMMA GuardedVerdicts ==
  ASSUME ReconcileInv, NEW c \in Client, NEW p \in DOMAIN plans,
         request[c] = ActivityFor(c, p), GuardHolds(request[c])
  PROVE  LET es == request[c].effects IN
         \A i \in Verdicts(relations) :
           \/ relations[i].type \in {plans[p].source.state, Legacy}
           \/ \E j \in 1 .. Len(es) : es[j].op = "retract" /\ es[j].type = relations[i].type
<1> DEFINE before == plans[p].before
           es == request[c].effects
<1>1. before \in SUBSET [id : Nat, type : RelationType, state : {"candidate", "confirmed"}]
  BY ReconcileTypes DEF Plan
<1>2. request[c].guard = [subject |-> Pr, expected |-> {r.id : r \in before}]
  BY DEF ActivityFor
<1>3. request[c].guard # NoGuard
  <2>1. {r.id : r \in before} \in SUBSET Nat /\ Pr \in Uri
    BY <1>1, ReconcileAssumption
  <2>2. request[c].guard \in [subject : Uri, expected : SUBSET Nat]
    BY <1>2, <2>1
  <2> QED
    BY <2>2, ReconcileAssumption
<1>4. {r.id : r \in before} = {i \in Current(relations) : relations[i].subject = Pr}
  BY <1>2, <1>3 DEF GuardHolds
<1>5. ASSUME NEW i \in Verdicts(relations),
             relations[i].type \notin {plans[p].source.state, Legacy}
      PROVE  \E j \in 1 .. Len(es) : es[j].op = "retract" /\ es[j].type = relations[i].type
  <2>1. PICK r \in before : r.id = i
    BY <1>4 DEF Verdicts
  <2>2. relations[i].type = r.type
    BY <2>1 DEF ReconcileInv, PlansInv
  <2>3. relations[i].type \in Stale(plans[p].source, before)
    BY <1>5, <2>1, <2>2 DEF Stale
  <2> HIDE DEF before, es
  <2> QED
    BY <2>3, PlannedEffects DEF before, es
<1> QED
  BY <1>5

LEMMA AcceptPlan ==
  ASSUME ReconcileInv, NEW c \in Client, UNCHANGED reconciliation, Accept(c)
  PROVE  ReconcileInv'
<1>1. /\ UNCHANGED <<committed, plans, request, relations, activities, next, answer>>
      /\ phase[c] = "sent" /\ holder = Nobody /\ holder' = c /\ phase' = [phase EXCEPT ![c] = "applying"]
      /\ Prior(c) = {} /\ GuardHolds(request[c]) /\ draft'.relations = relations
  BY DEF Accept, Locked, GoTo, reconciliation, committed
<1>2. PICK p \in DOMAIN plans : request[c] = ActivityFor(c, p)
  BY <1>1, OwnRequest DEF InFlight
<1>3. /\ RequestsInv' /\ phase'[c] = "applying" /\ \A o \in Client \ {c} : phase'[o] = phase[o]
      /\ \A o \in Client : helper[o].stage = "posted" =>
                             phase'[o] \in InFlight /\ request'[o] = request[o]
  <2> DEFINE said == answer[c]
  <2>1. /\ phase[c] \in InFlight /\ "applying" \in InFlight /\ said \in Answers
        /\ UNCHANGED <<plans, request>> /\ answer' = [answer EXCEPT ![c] = said]
        /\ said \in {"applied", "duplicate"} =>
             \E a \in DOMAIN activities' : activities'[a].plan = request[c].plan
        /\ activities' \in Seq(Posted)
        /\ \A a \in DOMAIN activities : a \in DOMAIN activities' /\ activities'[a] = activities[a]
    BY <1>1, OwnRequest, ReconcileTypes DEF InFlight
  <2>2. phase' = [phase EXCEPT ![c] = "applying"]
    BY <1>1
  <2> HIDE DEF said
  <2> QED
    BY <2>1, <2>2, RequestGoesOn, Zenon
<1>4. LockInv'
  <2>1. LockInv /\ Nobody \notin Client
    BY ConstantAssumption DEF ReconcileInv
  <2> QED
    BY <1>1, <1>3, <2>1 DEF LockInv
<1>5. Applying(c, p)'
  <2> DEFINE es == request[c].effects
  <2>1. es' = es /\ Len(es) \in Nat
    BY <1>1, <1>2, PlannedEffects
  <2>2. Prior(c)' = {} /\ (request[c] = ActivityFor(c, p))'
    BY <1>1, <1>2 DEF Prior, ActivityFor
  <2>3. SoundRows(draft.relations)' /\ SameTriples(relations, draft.relations)'
    BY <1>1 DEF ReconcileInv, SoundRows, VersionsCounted, OneOpenIn, Verdicts, Current, SameTriples
  <2>4. next' = 1 /\ 1 \in 1 .. Len(es) + 1
    BY <1>1, <2>1 DEF ReconcileInv, LockInv
  <2>5. \A i \in Verdicts(draft.relations)' :
          \/ draft'.relations[i].type \in {plans'[p].source.state, Legacy}
          \/ \E j \in next' .. Len(es) :
               es[j].op = "retract" /\ es[j].type = draft'.relations[i].type
    BY <1>1, <1>2, <2>4, GuardedVerdicts DEF Verdicts, Current
  <2> QED
    BY <1>1, <2>1, <2>2, <2>3, <2>4, <2>5 DEF Applying
<1>6. ApplyingInv'
  BY <1>1, <1>5 DEF ApplyingInv
<1> QED
  BY <1>1, <1>3, <1>4, <1>6, TransactionStep

LEMMA ApplyPlannedEffect ==
  ASSUME ReconcileInv, NEW c \in Client, UNCHANGED reconciliation, ApplyEffect(c)
  PROVE  ReconcileInv'
<1> DEFINE es == request[c].effects
           e == es[next]
           rows == draft.relations
           later == IF e.op = "retract" THEN Retracted(rows, e) ELSE Asserted(rows, e)
<1>1. /\ UNCHANGED <<committed, clients, plans, request, relations, activities, phase, answer, holder>>
      /\ phase[c] = "applying" /\ next' = next + 1 /\ next \in DOMAIN es
      /\ draft'.relations = later
  BY DEF ApplyEffect, Applied, reconciliation, committed, clients
<1>2. holder = c
  BY <1>1 DEF ReconcileInv, LockInv
<1>3. PICK p \in DOMAIN plans : Applying(c, p)
  BY <1>2 DEF ReconcileInv, ApplyingInv
<1>4. /\ request[c] = ActivityFor(c, p) /\ Prior(c) = {} /\ SoundRows(rows)
      /\ SameTriples(relations, rows)
  BY <1>3 DEF Applying
<1>5. /\ Len(es) \in Nat /\ DOMAIN es = 1 .. Len(es)
      /\ \A j \in 1 .. Len(es) :
           /\ es[j] \in Effect /\ es[j].subject = Pr /\ es[j].target = Repo
           /\ es[j].op = "assert" => es[j].type = plans[p].source.state
  BY <1>4, PlannedEffects
<1>6. /\ next \in 1 .. Len(es) /\ next \in Nat /\ next' \in 1 .. Len(es) + 1
      /\ e \in Effect /\ e.subject = Pr /\ e.target = Repo
      /\ e.op = "assert" => e.type = plans[p].source.state
  <2>1. next \in 1 .. Len(es)
    BY <1>1, <1>5
  <2> HIDE DEF es
  <2> QED
    BY <1>1, <1>5, <2>1
<1>7. /\ SoundRows(later) /\ SameTriples(rows, later)
      /\ \A i \in Verdicts(later) :
           \/ i \in Verdicts(rows) /\ (e.op = "retract" => ~SameTriple(rows[i], e))
           \/ e.op = "assert" /\ e.state = "confirmed" /\ SameTriple(later[i], e)
  <2> HIDE DEF e, rows
  <2> QED
    BY <1>4, <1>6, AppliedSound
<1>8. SameTriples(relations, later)
  <2> HIDE DEF later, rows
  <2> QED
    BY <1>4, <1>7, SameTriplesTrans
<1>9. ASSUME NEW i \in Verdicts(later)
      PROVE  \/ later[i].type \in {plans[p].source.state, Legacy}
             \/ \E j \in next + 1 .. Len(es) : es[j].op = "retract" /\ es[j].type = later[i].type
  <2>1. CASE e.op = "assert" /\ SameTriple(later[i], e)
    BY <1>6, <2>1 DEF SameTriple
  <2>2. CASE i \in Verdicts(rows) /\ (e.op = "retract" => ~SameTriple(rows[i], e))
    <3>1. /\ rows[i].subject = Pr /\ rows[i].target = Repo /\ i \in DOMAIN rows
      BY <1>4, <2>2 DEF SoundRows, Verdicts, Current
    <3>2. later[i].type = rows[i].type
      <4> HIDE DEF later, rows
      <4> QED
        BY <1>7, <3>1 DEF SameTriples
    <3>3. e.op = "retract" => e.type # rows[i].type
      BY <1>6, <2>2, <3>1 DEF SameTriple
    <3>4. \/ rows[i].type \in {plans[p].source.state, Legacy}
          \/ \E j \in next .. Len(es) : es[j].op = "retract" /\ es[j].type = rows[i].type
      BY <1>3, <2>2 DEF Applying
    <3>5. ASSUME NEW j \in next .. Len(es), es[j].op = "retract", es[j].type = rows[i].type
          PROVE  j \in next + 1 .. Len(es)
      <4>1. j # next
        BY <3>3, <3>5
      <4> HIDE DEF es
      <4> QED
        BY <1>5, <1>6, <4>1
    <3> HIDE DEF later, rows, es
    <3> QED
      BY <3>2, <3>4, <3>5
  <2> QED
    BY <1>7, <2>1, <2>2
<1>10. Applying(c, p)'
  <2>1. es' = es /\ Prior(c)' = {} /\ (request[c] = ActivityFor(c, p))' /\ plans'[p] = plans[p]
    BY <1>1, <1>4 DEF Prior, ActivityFor
  <2>2. SoundRows(draft.relations)' /\ SameTriples(relations, draft.relations)'
    <3> HIDE DEF later, rows
    <3> QED
      BY <1>1, <1>7, <1>8 DEF SoundRows, VersionsCounted, OneOpenIn, Verdicts, Current, SameTriples
  <2>3. Verdicts(draft.relations)' = Verdicts(later)
    <3> HIDE DEF later, rows
    <3> QED
      BY <1>1 DEF Verdicts, Current
  <2> HIDE DEF later, rows
  <2> QED
    BY <1>1, <1>6, <1>9, <2>1, <2>2, <2>3 DEF Applying
<1>11. RequestsInv' /\ LockInv' /\ ApplyingInv'
  <2>1. RequestsInv'
    BY <1>1 DEF ReconcileInv, RequestsInv, ActivityFor
  <2>2. LockInv'
    BY <1>1, <1>2, ConstantAssumption DEF ReconcileInv, LockInv
  <2> QED
    BY <1>1, <1>2, <1>10, <2>1, <2>2 DEF ApplyingInv
<1>12. \A o \in Client : helper[o].stage = "posted" =>
                           phase'[o] \in InFlight /\ request'[o] = request[o]
  BY <1>1 DEF ReconcileInv, HelpersInv, Knows
<1> QED
  BY <1>1, <1>11, <1>12, TransactionStep

LEMMA AbortPlan ==
  ASSUME ReconcileInv, NEW c \in Client, UNCHANGED reconciliation, Abort(c), phase[c] = "applying"
  PROVE  ReconcileInv'
<1>1. /\ UNCHANGED <<committed, plans, request, relations, activities>>
      /\ phase' = [phase EXCEPT ![c] = "answered"] /\ answer' = [answer EXCEPT ![c] = "error"]
      /\ holder' = Nobody /\ next' = 1
  BY DEF Abort, Respond, Release, GoTo, reconciliation, committed
<1>2. /\ RequestsInv' /\ phase'[c] = "answered" /\ \A o \in Client \ {c} : phase'[o] = phase[o]
      /\ \A o \in Client : helper[o].stage = "posted" =>
                             phase'[o] \in InFlight /\ request'[o] = request[o]
  <2>1. /\ phase[c] \in InFlight /\ "answered" \in InFlight /\ "error" \in Answers
        /\ activities' \in Seq(Posted)
        /\ \A a \in DOMAIN activities : a \in DOMAIN activities' /\ activities'[a] = activities[a]
    BY <1>1, ReconcileTypes DEF InFlight, Answers
  <2> QED
    BY <1>1, <2>1, RequestGoesOn
<1>3. LockInv' /\ ApplyingInv'
  <2>1. holder = c /\ Nobody \notin Client
    BY ConstantAssumption DEF ReconcileInv, LockInv
  <2>2. \A o \in Client \ {c} : phase[o] # "applying"
    BY <2>1 DEF ReconcileInv, LockInv
  <2> QED
    BY <1>1, <1>2, <2>1, <2>2 DEF LockInv, ApplyingInv
<1> QED
  BY <1>1, <1>2, <1>3, TransactionStep

\* A write that is committed: the rows of the plans stay what they were, and
\* whoever has looked before it has looked at an older journal.
LEMMA WrittenActivity ==
  ASSUME ReconcileInv, UNCHANGED reconciliation, SameTriples(relations, relations'),
         NEW act \in Posted, activities' = Append(activities, act),
         act.plan # 0 => /\ act.key = act.plan /\ act.plan \in DOMAIN plans
                         /\ \A a \in DOMAIN activities : activities[a].plan # act.plan,
         \A c \in Client : helper[c].stage = "posted" =>
                             phase'[c] \in InFlight /\ request'[c] = request[c]
  PROVE  /\ PlansInv' /\ ActivitiesInv' /\ HelpersInv'
         /\ activities' \in Seq(Posted) /\ Len(activities) + 1 \in DOMAIN activities'
         /\ activities'[Len(activities) + 1] = act
         /\ \A a \in DOMAIN activities : a \in DOMAIN activities' /\ activities'[a] = activities[a]
<1>1. UNCHANGED <<github, plans, helper>>
  BY DEF reconciliation
<1>2. /\ activities' \in Seq(Posted) /\ Len(activities') = Len(activities) + 1
      /\ DOMAIN activities = 1 .. Len(activities) /\ Len(activities) \in Nat
      /\ DOMAIN activities' = 1 .. Len(activities) + 1
      /\ \A a \in DOMAIN activities : a \in DOMAIN activities' /\ activities'[a] = activities[a]
      /\ activities'[Len(activities) + 1] = act
  <2>1. /\ activities' \in Seq(Posted) /\ Len(activities') = Len(activities) + 1
        /\ \A a \in 1 .. Len(activities) : activities'[a] = activities[a]
        /\ activities'[Len(activities) + 1] = act
    BY ReconcileTypes, AppendProperties
  <2> QED
    BY <2>1, ReconcileTypes, LenProperties
<1>3. Onward
  <2> DEFINE n == Len(activities)
             m == Len(activities')
  <2>1. n <= m /\ m # n
    <3>1. n \in Nat /\ m = n + 1
      BY <1>2
    <3> HIDE DEF n, m
    <3> QED
      BY <3>1
  <2>2. github' \in Source /\ github.version <= github'.version
    BY <1>1, ReconcileTypes DEF Source
  <2>3. \A p \in DOMAIN plans : p \in DOMAIN plans' /\ plans'[p] = plans[p]
    BY <1>1
  <2> QED
    BY <1>2, <2>1, <2>2, <2>3 DEF Onward
<1>4. PlansInv'
  <2>1. PlansInv
    BY DEF ReconcileInv
  <2>2. ASSUME NEW p \in DOMAIN plans, NEW r \in plans[p].before
        PROVE  r.id \in DOMAIN relations' /\ relations'[r.id].subject = Pr
                 /\ relations'[r.id].type = r.type
    BY <2>1, <2>2 DEF PlansInv, SameTriples
  <2> QED
    BY <1>1, <2>1, <2>2 DEF PlansInv
<1>5. ActivitiesInv'
  <2>1. ActivitiesInv
    BY DEF ReconcileInv
  <2>2. ASSUME NEW a \in DOMAIN activities', activities'[a].plan # 0
        PROVE  activities'[a].key = activities'[a].plan /\ activities'[a].plan \in DOMAIN plans
    <3>1. CASE a \in DOMAIN activities
      BY <1>2, <2>1, <2>2, <3>1 DEF ActivitiesInv
    <3>2. CASE a = Len(activities) + 1
      BY <1>2, <2>2, <3>2
    <3> QED
      BY <1>2, <3>1, <3>2
  <2>3. ASSUME NEW a \in DOMAIN activities', NEW b \in DOMAIN activities',
               activities'[a].plan = activities'[b].plan, activities'[a].plan # 0
        PROVE  a = b
    <3>1. CASE a \in DOMAIN activities /\ b \in DOMAIN activities
      BY <1>2, <2>1, <2>3, <3>1 DEF ActivitiesInv, PlansAppliedOnce
    <3>2. CASE a = Len(activities) + 1 /\ b \in DOMAIN activities
      BY <1>2, <2>3, <3>2
    <3>3. CASE a \in DOMAIN activities /\ b = Len(activities) + 1
      BY <1>2, <2>3, <3>3
    <3> QED
      BY <1>2, <3>1, <3>2, <3>3
  <2> QED
    BY <1>1, <1>2, <2>2, <2>3 DEF ActivitiesInv, PlansAppliedOnce
<1>6. HelpersInv'
  <2>1. helper' \in [Client -> HelperType']
    BY <1>1, <1>2, <1>3, HelperTypeGrows, ReconcileTypes
  <2>2. ASSUME NEW c \in Client PROVE Knows(c)'
    BY <1>1, <1>3, KnowsKept
  <2> QED
    BY <2>1, <2>2 DEF HelpersInv
<1> QED
  BY <1>2, <1>4, <1>5, <1>6

LEMMA CommitPlan ==
  ASSUME ReconcileInv, NEW c \in Client, UNCHANGED reconciliation, Commit(c)
  PROVE  ReconcileInv'
<1> DEFINE es == request[c].effects
<1>1. /\ UNCHANGED <<plans, request>> /\ UNCHANGED reconciliation
      /\ phase[c] = "applying" /\ next > Len(es)
      /\ relations' = draft.relations /\ activities' = Append(activities, request[c])
      /\ phase' = [phase EXCEPT ![c] = "answered"] /\ answer' = [answer EXCEPT ![c] = "applied"]
      /\ holder' = Nobody /\ next' = 1
  BY DEF Commit, Respond, Release, GoTo, reconciliation
<1>2. holder = c /\ Nobody \notin Client
  BY <1>1, ConstantAssumption DEF ReconcileInv, LockInv
<1>3. PICK p \in DOMAIN plans : Applying(c, p)
  BY <1>2 DEF ReconcileInv, ApplyingInv
<1>4. /\ request[c] = ActivityFor(c, p) /\ Prior(c) = {} /\ SoundRows(draft.relations)
      /\ SameTriples(relations, draft.relations) /\ next \in 1 .. Len(es) + 1
  BY <1>3 DEF Applying
<1>5. /\ request[c] \in Posted /\ request[c].key = p /\ request[c].plan = p /\ Len(es) \in Nat
  BY <1>4, PlannedEffects
<1>6. p \in Key /\ p # NoKey
  BY ReconcileTypes, ReconcileAssumption, ConstantAssumption
<1>7. \A a \in DOMAIN activities : activities[a].plan # p
  <2>1. \A a \in DOMAIN activities : activities[a].key # p
    BY <1>4, <1>5, <1>6 DEF Prior
  <2>2. p # 0
    BY ReconcileTypes
  <2> QED
    BY <2>1, <2>2 DEF ReconcileInv, ActivitiesInv
<1>8. \A o \in Client : helper[o].stage = "posted" => o = c \/ phase'[o] = phase[o]
  BY <1>1 DEF ReconcileInv, RequestsInv
<1>9. \A o \in Client : helper[o].stage = "posted" =>
                          phase'[o] \in InFlight /\ request'[o] = request[o]
  <2>1. phase'[c] = "answered"
    BY <1>1 DEF ReconcileInv, RequestsInv
  <2> QED
    BY <1>1, <1>8, <2>1 DEF InFlight, ReconcileInv, HelpersInv, Knows
<1>10. /\ PlansInv' /\ ActivitiesInv' /\ HelpersInv'
       /\ activities' \in Seq(Posted) /\ Len(activities) + 1 \in DOMAIN activities'
       /\ activities'[Len(activities) + 1] = request[c]
       /\ \A a \in DOMAIN activities : a \in DOMAIN activities' /\ activities'[a] = activities[a]
  <2> DEFINE act == request[c]
  <2>1. /\ act \in Posted /\ act.key = p /\ act.plan = p /\ activities' = Append(activities, act)
        /\ SameTriples(relations, relations')
    BY <1>1, <1>4, <1>5
  <2> HIDE DEF act
  <2>2. /\ PlansInv' /\ ActivitiesInv' /\ HelpersInv'
        /\ activities' \in Seq(Posted) /\ Len(activities) + 1 \in DOMAIN activities'
        /\ activities'[Len(activities) + 1] = act
        /\ \A a \in DOMAIN activities : a \in DOMAIN activities' /\ activities'[a] = activities[a]
    BY <1>1, <1>7, <1>9, <2>1, WrittenActivity
  <2> QED
    BY <2>2 DEF act
<1>11. RequestsInv' /\ phase'[c] = "answered" /\ \A o \in Client \ {c} : phase'[o] = phase[o]
  <2>1. /\ phase[c] \in InFlight /\ "answered" \in InFlight /\ "applied" \in Answers
        /\ \E a \in DOMAIN activities' : activities'[a].plan = request[c].plan
    BY <1>1, <1>10 DEF InFlight, Answers
  <2> QED
    BY <1>1, <1>10, <2>1, RequestGoesOn
<1>12. SoundRows(relations)'
  BY <1>1, <1>4 DEF SoundRows, VersionsCounted, OneOpenIn, Verdicts, Current
<1>13. OneVerdict'
  <2>1. \A j \in next .. Len(es) : FALSE
    <3> HIDE DEF es
    <3> QED
      BY <1>1, <1>4, <1>5
  <2>2. \A i \in Verdicts(draft.relations) :
          draft.relations[i].type \in {plans[p].source.state, Legacy}
    BY <1>3, <2>1 DEF Applying
  <2>3. \A i \in Verdicts(relations') :
          relations'[i].type \in PrState => relations'[i].type = plans[p].source.state
    BY <1>1, <2>2, ReconcileAssumption
  <2> QED
    BY <2>3 DEF OneVerdict, Verdicts, Current
<1>14. LockInv' /\ ApplyingInv'
  <2>1. \A o \in Client \ {c} : phase[o] # "applying"
    BY <1>2 DEF ReconcileInv, LockInv
  <2> QED
    BY <1>1, <1>2, <1>11, <2>1 DEF LockInv, ApplyingInv
<1> QED
  BY <1>10, <1>11, <1>12, <1>13, <1>14 DEF ReconcileInv

\* Agents infer, and inferences confirm nothing.
LEMMA AgentWritesInv ==
  ASSUME ReconcileInv, NEW e \in Belief, AgentWrites(e)
  PROVE  ReconcileInv'
<1> DEFINE act == [session |-> AgentSession, key |-> NoKey, plan |-> 0, by |-> Nobody,
                   guard |-> NoGuard, effects |-> <<e>>]
<1>1. /\ UNCHANGED <<plans, phase, request, answer, holder, next>> /\ UNCHANGED reconciliation
      /\ holder = Nobody /\ Allowed(e)
      /\ relations' = IF e.op = "retract" THEN Retracted(relations, e) ELSE Asserted(relations, e)
      /\ activities' = Append(activities, act)
  BY DEF AgentWrites, Applied, transaction, clients, reconciliation
<1>2. /\ e \in Effect /\ e.state # "confirmed"
  BY <1>1, ReconcileAssumption DEF Allowed
<1>3. /\ SoundRows(relations') /\ SameTriples(relations, relations')
      /\ \A i \in Verdicts(relations') : i \in Verdicts(relations)
  <2>1. SoundRows(relations)
    BY DEF ReconcileInv
  <2> QED
    BY <1>1, <1>2, <2>1, AppliedSound
<1>4. act \in Posted /\ act.plan = 0
  <2>1. <<e>> \in Seq(Effect) /\ 0 \in 0 .. MaxPlans /\ AgentSession \in Session
    BY <1>2, ReconcileAssumption
  <2> QED
    BY <2>1 DEF Posted
<1>5. \A o \in Client : helper[o].stage = "posted" =>
                          phase'[o] \in InFlight /\ request'[o] = request[o]
  BY <1>1 DEF ReconcileInv, HelpersInv, Knows
<1>6. /\ PlansInv' /\ ActivitiesInv' /\ HelpersInv'
      /\ activities' \in Seq(Posted)
      /\ \A a \in DOMAIN activities : a \in DOMAIN activities' /\ activities'[a] = activities[a]
  <2> HIDE DEF act
  <2> QED
    BY <1>1, <1>3, <1>4, <1>5, WrittenActivity
<1>7. SoundRows(relations)'
  BY <1>3 DEF SoundRows, VersionsCounted, OneOpenIn, Verdicts, Current
<1>8. OneVerdict'
  <2>1. \A i \in Verdicts(relations') : relations'[i].type = relations[i].type
    BY <1>3 DEF SameTriples, Verdicts, Current
  <2>2. \A i \in Verdicts(relations') : i \in Verdicts(relations)
    BY <1>3
  <2>3. OneVerdict /\ Verdicts(relations)' = Verdicts(relations')
    BY DEF ReconcileInv, Verdicts, Current
  <2> QED
    BY <2>1, <2>2, <2>3 DEF OneVerdict
<1>9. RequestsInv'
  BY <1>1, <1>6 DEF ReconcileInv, RequestsInv, ActivityFor
<1>10. LockInv' /\ ApplyingInv'
  BY <1>1, ConstantAssumption DEF ReconcileInv, LockInv, ApplyingInv
<1> QED
  BY <1>6, <1>7, <1>8, <1>9, <1>10 DEF ReconcileInv

-----------------------------------------------------------------------------
(* The specification *)

LEMMA InitReconcile == ReconcileInit => ReconcileInv
<1> SUFFICES ASSUME ReconcileInit PROVE ReconcileInv
  OBVIOUS
<1>1. /\ github = [state |-> "OPEN", version |-> 0] /\ plans = << >> /\ activities = << >>
      /\ phase = [c \in Client |-> "idle"] /\ answer = [c \in Client |-> "none"]
      /\ request = [c \in Client |-> NoRequest] /\ helper = [c \in Client |-> NotRunning]
      /\ holder = Nobody /\ next = 1 /\ relations \in {<<AwaitsReview>>, << >>}
  BY DEF ReconcileInit
<1>2. SoundRows(relations) /\ OneVerdict
  <2>1. AwaitsReview \in Relation /\ AwaitsReview.target = Repo /\ AwaitsReview.version = 1
        /\ AwaitsReview.type = Legacy
    BY ReconcileAssumption DEF AwaitsReview, Relation, Authority
  <2>2. CASE relations = << >>
    <3>1. relations \in Seq(Relation) /\ DOMAIN relations = {}
      BY <2>2
    <3> QED
      BY <3>1 DEF SoundRows, OneVerdict, Verdicts, Current, VersionsCounted, OneOpenIn
  <2>3. CASE relations = <<AwaitsReview>>
    <3> HIDE DEF AwaitsReview
    <3>1. /\ relations \in Seq(Relation) /\ DOMAIN relations = {1} /\ Len(relations) = 1
          /\ relations[1] = AwaitsReview
      BY <2>1, <2>3
    <3> QED
      BY <2>1, <3>1, ReconcileAssumption
         DEF SoundRows, OneVerdict, Verdicts, Current, VersionsCounted, OneOpenIn
  <2> QED
    BY <1>1, <2>2, <2>3
<1>3. PlansInv /\ ActivitiesInv
  <2>1. /\ plans \in Seq(Plan) /\ DOMAIN plans = {} /\ Len(plans) = 0
        /\ activities \in Seq(Posted) /\ DOMAIN activities = {} /\ github \in Source
    BY <1>1 DEF Source, PrState
  <2> QED
    BY <2>1, ReconcileAssumption DEF PlansInv, ActivitiesInv, PlansAppliedOnce
<1>4. RequestsInv /\ LockInv /\ ApplyingInv
  BY <1>1, ConstantAssumption DEF RequestsInv, LockInv, ApplyingInv, InFlight
<1>5. HelpersInv
  <2>1. Len(plans) = 0 /\ Len(activities) = 0
    BY <1>1
  <2>2. NotRunning \in HelperType /\ NotRunning.stage = "idle" /\ NotRunning.source.version = 0
    BY <2>1 DEF NotRunning, HelperType, Source, PrState
  <2> QED
    BY <1>1, <2>2 DEF HelpersInv, Knows
<1> QED
  BY <1>2, <1>3, <1>4, <1>5 DEF ReconcileInv

LEMMA StepReconcile == ReconcileInv /\ [ReconcileNext]_<<vars, reconciliation>> => ReconcileInv'
<1> SUFFICES ASSUME ReconcileInv, [ReconcileNext]_<<vars, reconciliation>> PROVE ReconcileInv'
  OBVIOUS
<1>1. ASSUME NEW state \in PrState, Change(state) PROVE ReconcileInv'
  BY <1>1, ChangeInv
<1>2. ASSUME NEW e \in Belief, AgentWrites(e) PROVE ReconcileInv'
  BY <1>2, AgentWritesInv
<1>3. ASSUME NEW c \in Client, Daemon(c) PROVE ReconcileInv'
  <2>1. UNCHANGED reconciliation /\ RecordActivity(c)
    BY <1>3 DEF Daemon
  <2>2. CASE \/ AnswerRetry(c) \/ RefuseGuard(c) \/ Reject(c) \/ AuditRejection(c) \/ LoseAudit(c)
    BY <2>1, <2>2, AnsweredRequest
  <2>3. CASE Accept(c)
    BY <2>1, <2>3, AcceptPlan
  <2>4. CASE ApplyEffect(c)
    BY <2>1, <2>4, ApplyPlannedEffect
  <2>5. CASE Commit(c)
    BY <2>1, <2>5, CommitPlan
  <2>6. CASE Abort(c)
    <3>1. phase[c] \in {"sent", "applying"}
      BY <2>6 DEF Abort
    <3> QED
      BY <2>1, <2>6, <3>1, AnsweredRequest, AbortPlan
  <2> QED
    BY <2>1, <2>2, <2>3, <2>4, <2>5, <2>6 DEF RecordActivity
<1>4. ASSUME NEW c \in Client, Run(c) PROVE ReconcileInv'
  <2>1. CASE PlanFetch(c) \/ \E p \in DOMAIN plans : ApplyFetch(c, p)
    BY <2>1, FetchInv
  <2>2. CASE PlanGraph(c)
    BY <2>2, PlanGraphInv
  <2>3. CASE ApplyGraph(c)
    BY <2>3, ApplyGraphInv
  <2>4. CASE Post(c)
    BY <2>4, PostInv
  <2>5. CASE Answered(c) \/ GiveUp(c) \/ Readback(c) \/ FinalFetch(c) \/ ReadFails(c)
    BY <2>5, AnsweredStages
  <2>6. CASE Kill(c)
    BY <2>6, KillInv
  <2> QED
    BY <1>4, <2>1, <2>2, <2>3, <2>4, <2>5, <2>6 DEF Run
<1>5. CASE UNCHANGED <<vars, reconciliation>>
  <2>1. /\ UNCHANGED reconciliation /\ UNCHANGED committed
        /\ UNCHANGED <<phase, request, answer, holder, draft, next, relations, activities, plans>>
    BY <1>5 DEF vars, reconciliation, committed, transaction, clients
  <2>2. RequestsInv' /\ LockInv'
    BY <2>1 DEF ReconcileInv, RequestsInv, LockInv, ActivityFor
  <2>3. ApplyingInv'
    <3> SUFFICES ASSUME NEW c \in Client, holder = c
                 PROVE  \E p \in DOMAIN plans : Applying(c, p)'
      BY <2>1 DEF ApplyingInv
    <3>1. PICK p \in DOMAIN plans : Applying(c, p)
      BY DEF ReconcileInv, ApplyingInv
    <3>2. Prior(c)' = Prior(c) /\ ActivityFor(c, p)' = ActivityFor(c, p)
      BY <2>1 DEF Prior, ActivityFor
    <3>3. Applying(c, p)'
      BY <2>1, <3>1, <3>2 DEF Applying, SoundRows, SameTriples, Verdicts
    <3> QED
      BY <3>3
  <2>4. \A c \in Client : helper[c].stage = "posted" =>
                            phase'[c] \in InFlight /\ request'[c] = request[c]
    BY <2>1 DEF ReconcileInv, HelpersInv, Knows
  <2> QED
    BY <2>1, <2>2, <2>3, <2>4, TransactionStep
<1> QED
  BY <1>1, <1>2, <1>3, <1>4, <1>5 DEF ReconcileNext

\* The invariant of the plan, what its guard makes of the rows, the requests in
\* flight, the transaction and the stages of the helpers.
THEOREM ReconcileInvariant == ReconcileSpec => []ReconcileInv
<1>1. ReconcileInit => ReconcileInv
  BY InitReconcile
<1>2. ReconcileInv /\ [ReconcileNext]_<<vars, reconciliation>> => ReconcileInv'
  BY StepReconcile
<1> QED
  BY <1>1, <1>2, PTL DEF ReconcileSpec

\* The variables have their types, whatever the plans and GitHub's moves are.
THEOREM ReconcileTypeCorrect == ReconcileSpec => []ReconcileTypeOK
<1>1. ReconcileInv => ReconcileTypeOK
  BY DEF ReconcileInv, PlansInv, HelpersInv, ReconcileTypeOK, HelperType, Plan
<1> QED
  BY <1>1, ReconcileInvariant, PTL

\* The pull request never has two confirmed states at once: a plan is applied
\* to just the rows it was made from, and retracts all but the state it asserts.
THEOREM OneStateConfirmed == ReconcileSpec => []OneConfirmedState
<1>1. ReconcileInv => OneConfirmedState
  BY OneVerdictIsOneState DEF ReconcileInv
<1> QED
  BY <1>1, ReconcileInvariant, PTL

\* A plan is applied at most once, by however many helpers and after whatever
\* lost answers: its digest is the key of its request.
THEOREM EachPlanOnce == ReconcileSpec => []PlansAppliedOnce
<1>1. ReconcileInv => PlansAppliedOnce
  BY DEF ReconcileInv, ActivitiesInv
<1> QED
  BY <1>1, ReconcileInvariant, PTL

\* A receipt of success is true of the ontology until somebody writes again.
THEOREM SuccessIsTrue == ReconcileSpec => []SuccessIsCurrent
<1>1. ReconcileInv => SuccessIsCurrent
  BY DEF ReconcileInv, HelpersInv, Knows, IsCurrent, SuccessIsCurrent
<1> QED
  BY <1>1, ReconcileInvariant, PTL

\* An apply that is reported as verified has put no older reading over a newer
\* one: GitHub's version was its own when it looked last.
THEOREM SuccessIsFresh == ReconcileSpec => []NoStaleSuccess
<1>1. ReconcileInv => NoStaleSuccess
  BY DEF ReconcileInv, HelpersInv, Knows, NoStaleSuccess
<1> QED
  BY <1>1, ReconcileInvariant, PTL
==============================================================================
