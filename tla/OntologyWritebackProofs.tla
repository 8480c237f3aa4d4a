----------------------- MODULE OntologyWritebackProofs -----------------------
(***************************************************************************)
(* Proofs about OntologyWriteback, for any clients, sessions, objects,     *)
(* relation types and lists of effects.  What applyRelationEffect does to  *)
(* a set of tables is proved first, table by table, and then what the      *)
(* registry does to them in its two steps, closing and inserting; the      *)
(* inductive invariant says the same of the committed tables and the draft *)
(* of the one transaction there is, and what the draft has to do with the  *)
(* request it is made from.                                                *)
(***************************************************************************)
EXTENDS OntologyWriteback, SequenceTheorems, FiniteSetTheorems, WellFoundedInduction, TLAPS

\* OneOpenVersion, ConfirmedEndpoints, ConfirmedByAuthority and
\* HistoryExplainsState, said of any tables.
OneOpenIn(rows) ==
  \A i, j \in DOMAIN rows :
    i # j /\ SameTriple(rows[i], rows[j]) =>
      /\ rows[i].version # rows[j].version
      /\ rows[i].open /\ rows[i].version < rows[j].version =>
           /\ rows[j].open => /\ rows[i].type \in RegistryType
                              /\ rows[i].state # RegistryState(rows[i].type)
                              /\ rows[j].state \in {RegistryState(rows[j].type), "confirmed"}
           /\ ~rows[j].open => rows[i].type = "MAY_INCLUDE_WORKSPACE" /\ rows[j].superseded

EndpointsIn(objs, rows) ==
  \A i \in Current(rows), u \in Uri :
    Touches(rows[i], u) =>
      /\ objs[u].state # "rejected"
      /\ rows[i].state = "confirmed" => objs[u].state = "confirmed"

\* An assertion that has not been retracted stands behind a row.
Stands(r, journal) ==
  \E n \in DOMAIN journal :
    LET e == journal[n].effect IN
    /\ SameTriple(r, e) /\ e.op = "assert"
    /\ e.state = "confirmed" /\ e.authority # "agent_inference"
    /\ \A m \in n + 1 .. Len(journal) :
         journal[m].effect.op = "retract" => ~SameTriple(journal[m].effect, e)

ByRegistry(r) == r.source = "registry" /\ RegistryState(r.type) = "confirmed"

AuthorityIn(rows, journal) ==
  \A i \in Current(rows) : rows[i].state = "confirmed" =>
    ByRegistry(rows[i]) \/ Stands(rows[i], journal)

\* What the last effect on a triple says of its rows.
RowsOf(rows, e) == {i \in DOMAIN rows : SameTriple(rows[i], e)}
Explained(rows, e) ==
  /\ e.op = "retract" => \A i \in OpenRows(rows, e) :
                           rows[i].source = "registry" /\ rows[i].type \in RegistryType
  /\ e.op = "assert" =>
       \/ OpenRows(rows, e) # {}
       \/ \E i \in RowsOf(rows, e) :
            /\ rows[i].superseded
            /\ \A j \in RowsOf(rows, e) : rows[j].version <= rows[i].version

HistoryIn(rows, journal) ==
  \A n \in DOMAIN journal :
    (\A m \in n + 1 .. Len(journal) :
       ~SameTriple(journal[m].effect, journal[n].effect)) =>
      Explained(rows, journal[n].effect)

\* Versions are counted, which bounds them.
VersionsCounted(rows) == \A i \in DOMAIN rows : rows[i].version <= Len(rows)

RowsInv(objs, rows) ==
  /\ objs \in [Uri -> Object] /\ rows \in Seq(Relation)
  /\ VersionsCounted(rows) /\ OneOpenIn(rows) /\ EndpointsIn(objs, rows)

JournalInv(rows, journal) ==
  /\ journal \in Journal
  /\ AuthorityIn(rows, journal) /\ HistoryIn(rows, journal)

-----------------------------------------------------------------------------
(* Sequences and largest elements *)

LEMMA FunctionIsSeq ==
  ASSUME NEW S, NEW n \in Nat, NEW f \in [1 .. n -> S]
  PROVE  f \in Seq(S) /\ Len(f) = n /\ DOMAIN f = 1 .. n
<1>1. f \in Seq(S)
  BY SeqDef
<1>2. DOMAIN f = 1 .. n /\ DOMAIN f = 1 .. Len(f) /\ Len(f) \in Nat
  BY <1>1, LenProperties
<1> QED
  BY <1>1, <1>2

\* A set of naturals that has a bound and a member has a largest member.
LEMMA LargestIsLargest ==
  ASSUME NEW S \in SUBSET Nat, S # {}, NEW bound \in Nat, \A m \in S : m <= bound
  PROVE  Largest(S) \in S /\ \A m \in S : m <= Largest(S)
<1> DEFINE bounds == {n \in Nat : \A m \in S : m <= n}
<1>1. PICK n \in bounds : \A k \in bounds : ~(k < n)
  <2>1. bounds \subseteq Nat /\ bounds # {}
    OBVIOUS
  <2>2. \E n \in bounds : \A k \in bounds : <<k, n>> \notin OpToRel(<, Nat)
    BY <2>1, NatLessThanWellFounded, WFMin
  <2>3. \A k, n \in bounds : k < n => <<k, n>> \in OpToRel(<, Nat)
    BY DEF OpToRel
  <2> QED
    BY <2>2, <2>3
<1>2. n \in S
  <2> SUFFICES ASSUME n \notin S PROVE FALSE
    OBVIOUS
  <2>1. \A m \in S : m <= n - 1
    BY <1>1
  <2>2. n - 1 \in bounds
    <3>1. PICK m \in S : m <= n - 1
      BY <2>1
    <3>2. n \in Nat /\ m \in Nat
      BY <1>1
    <3> QED
      BY <2>1, <3>1, <3>2
  <2> QED
    BY <1>1, <2>2
<1>3. \E l \in S : \A m \in S : m <= l
  BY <1>1, <1>2
<1> QED
  BY <1>3 DEF Largest

-----------------------------------------------------------------------------
(* The rows of relations *)

LEMMA NextVersionIsNew ==
  ASSUME NEW rows \in Seq(Relation), VersionsCounted(rows), NEW e
  PROVE  /\ NextVersion(rows, e) \in 1 .. Len(rows) + 1
         /\ \A i \in DOMAIN rows : SameTriple(rows[i], e) =>
              rows[i].version < NextVersion(rows, e)
<1> DEFINE versions == {rows[i].version : i \in {j \in DOMAIN rows : SameTriple(rows[j], e)}}
           S == {0} \cup versions
<1>1. DOMAIN rows = 1 .. Len(rows) /\ Len(rows) \in Nat
      /\ \A i \in DOMAIN rows : rows[i].version \in Nat /\ rows[i].version <= Len(rows)
  <2>1. DOMAIN rows = 1 .. Len(rows) /\ Len(rows) \in Nat
        /\ \A i \in DOMAIN rows : rows[i] \in Relation
    OBVIOUS
  <2> QED
    BY <2>1 DEF VersionsCounted, Relation
<1>2. S \in SUBSET Nat /\ S # {} /\ \A m \in S : m <= Len(rows)
  BY <1>1
<1>3. Largest(S) \in S /\ \A m \in S : m <= Largest(S)
  BY <1>1, <1>2, LargestIsLargest
<1>4. NextVersion(rows, e) = 1 + Largest(S)
  BY DEF NextVersion
<1>5. Largest(S) <= Len(rows) /\ Largest(S) \in Nat
  BY <1>2, <1>3
<1>6. \A i \in DOMAIN rows : SameTriple(rows[i], e) => rows[i].version <= Largest(S)
  BY <1>3
<1> HIDE DEF S
<1> QED
  BY <1>1, <1>4, <1>5, <1>6

\* Rows of which those in C are closed, as a retraction and the registry close
\* them, and nothing else is changed but that some may be marked superseded.
Narrowed(rows, later, C) ==
  /\ later \in Seq(Relation) /\ Len(later) = Len(rows) /\ DOMAIN later = DOMAIN rows
  /\ \A i \in DOMAIN rows :
       /\ later[i].subject = rows[i].subject /\ later[i].type = rows[i].type
       /\ later[i].target = rows[i].target /\ later[i].version = rows[i].version
       /\ later[i].state = rows[i].state /\ later[i].source = rows[i].source
       /\ later[i].open <=> rows[i].open /\ i \notin C
       /\ rows[i].superseded => later[i].superseded
       /\ i \notin C => later[i] = rows[i]

\* A row that is closed, with a mark or without.
LEMMA ClosedRow ==
  ASSUME NEW r \in Relation
  PROVE  /\ LET one == [r EXCEPT !.open = FALSE]
                two == [r EXCEPT !.open = FALSE, !.superseded = TRUE]
            IN /\ one \in Relation /\ two \in Relation
               /\ ~one.open /\ ~two.open /\ two.superseded /\ one.superseded = r.superseded
               /\ one.subject = r.subject /\ one.type = r.type /\ one.target = r.target
               /\ one.version = r.version /\ one.state = r.state /\ one.source = r.source
               /\ two.subject = r.subject /\ two.type = r.type /\ two.target = r.target
               /\ two.version = r.version /\ two.state = r.state /\ two.source = r.source
BY DEF Relation

LEMMA NarrowedShape ==
  ASSUME NEW rows \in Seq(Relation), NEW C, NEW later,
         later = [i \in DOMAIN rows |-> IF i \in C THEN later[i] ELSE rows[i]],
         \A i \in DOMAIN rows : i \in C =>
           \/ later[i] = [rows[i] EXCEPT !.open = FALSE]
           \/ later[i] = [rows[i] EXCEPT !.open = FALSE, !.superseded = TRUE]
  PROVE  Narrowed(rows, later, C)
<1>1. Len(rows) \in Nat /\ DOMAIN rows = 1 .. Len(rows)
      /\ \A i \in DOMAIN rows : rows[i] \in Relation
  BY LenProperties, ElementOfSeq
<1>2. ASSUME NEW i \in DOMAIN rows
      PROVE  /\ later[i] \in Relation
             /\ later[i].subject = rows[i].subject /\ later[i].type = rows[i].type
             /\ later[i].target = rows[i].target /\ later[i].version = rows[i].version
             /\ later[i].state = rows[i].state /\ later[i].source = rows[i].source
             /\ later[i].open <=> rows[i].open /\ i \notin C
             /\ rows[i].superseded => later[i].superseded
             /\ i \notin C => later[i] = rows[i]
  <2>1. rows[i] \in Relation
    BY <1>1
  <2>2. CASE i \in C
    <3>1. \/ later[i] = [rows[i] EXCEPT !.open = FALSE]
          \/ later[i] = [rows[i] EXCEPT !.open = FALSE, !.superseded = TRUE]
      BY <2>2
    <3> QED
      BY <2>1, <2>2, <3>1, ClosedRow
  <2>3. CASE i \notin C
    <3>1. later[i] = rows[i]
      BY <2>3
    <3> QED
      BY <2>1, <2>3, <3>1
  <2> QED
    BY <2>2, <2>3
<1>3. later \in [1 .. Len(rows) -> Relation]
  BY <1>1, <1>2
<1>4. later \in Seq(Relation) /\ Len(later) = Len(rows) /\ DOMAIN later = DOMAIN rows
  BY <1>1, <1>3, FunctionIsSeq
<1> QED
  BY <1>2, <1>4 DEF Narrowed

LEMMA RetractedShape ==
  ASSUME NEW rows \in Seq(Relation), NEW e
  PROVE  Narrowed(rows, Retracted(rows, e), OpenRows(rows, e))
<1> DEFINE C == OpenRows(rows, e)
           later == Retracted(rows, e)
<1>1. later = [i \in DOMAIN rows |-> IF i \in C THEN [rows[i] EXCEPT !.open = FALSE] ELSE rows[i]]
  BY DEF Retracted
<1> HIDE DEF C, later
<1>2. \A i \in DOMAIN rows : i \in C => later[i] = [rows[i] EXCEPT !.open = FALSE]
  BY <1>1
<1>3. later = [i \in DOMAIN rows |-> IF i \in C THEN later[i] ELSE rows[i]]
  BY <1>1
<1>4. Narrowed(rows, later, C)
  BY <1>2, <1>3, NarrowedShape
<1> QED
  BY <1>4 DEF C, later

LEMMA MergedShape ==
  ASSUME NEW r \in Relation, NEW e \in Effect
  PROVE  LET m == Merged(r, e) IN
         /\ m \in Relation
         /\ m.subject = r.subject /\ m.type = r.type /\ m.target = r.target
         /\ m.version = r.version /\ m.open = r.open
         /\ m.source = r.source /\ m.superseded = r.superseded
         /\ m.state = (IF r.state = "confirmed" THEN "confirmed" ELSE e.state)
<1> DEFINE state == IF r.state = "confirmed" THEN "confirmed" ELSE e.state
<1>1. state \in {"candidate", "confirmed"} /\ e.authority \in Authority
  BY DEF Effect, Relation
<1>2. Merged(r, e) = [[r EXCEPT !.state = state] EXCEPT !.authority = e.authority]
  BY DEF Merged
<1>3. Merged(r, e) = [subject |-> r.subject, type |-> r.type, target |-> r.target,
                      version |-> r.version, state |-> state, authority |-> e.authority,
                      source |-> r.source, open |-> r.open, superseded |-> r.superseded]
  <2> HIDE DEF state
  <2> QED
    BY <1>2 DEF Relation
<1> QED
  BY <1>1, <1>3 DEF Relation

NewRow(rows, e) ==
  [subject |-> e.subject, type |-> e.type, target |-> e.target,
   version |-> NextVersion(rows, e), state |-> e.state, authority |-> e.authority,
   source |-> "activity", open |-> TRUE, superseded |-> FALSE]

\* Rows after an assertion: those there were, the newest open one of the triple
\* perhaps confirmed, and a new one if none was open.
AssertedRows(rows, e, after) ==
  /\ after \in Seq(Relation)
  /\ Len(after) \in {Len(rows), Len(rows) + 1}
  /\ \A i \in DOMAIN rows :
       /\ i \in DOMAIN after
       /\ after[i].subject = rows[i].subject /\ after[i].type = rows[i].type
       /\ after[i].target = rows[i].target /\ after[i].version = rows[i].version
       /\ after[i].open = rows[i].open /\ after[i].source = rows[i].source
       /\ after[i].superseded = rows[i].superseded
       /\ ~SameTriple(rows[i], e) => after[i] = rows[i]
       /\ after[i].state # rows[i].state =>
            /\ after[i].state = "confirmed" /\ e.state = "confirmed" /\ SameTriple(rows[i], e)
            /\ \A j \in OpenRows(rows, e) : rows[j].version <= rows[i].version
  /\ \A i \in DOMAIN after \ DOMAIN rows :
       /\ i = Len(rows) + 1 /\ OpenRows(rows, e) = {}
       /\ after[i] = NewRow(rows, e)
  /\ \E i \in DOMAIN after : after[i].open /\ SameTriple(after[i], e)

\* Among rows of which there are any, one is the newest.
LEMMA NewestRow ==
  ASSUME NEW rows \in Seq(Relation), VersionsCounted(rows), NEW R \in SUBSET DOMAIN rows, R # {}
  PROVE  \E i \in R : \A j \in R : rows[j].version <= rows[i].version
<1> DEFINE S == {rows[i].version : i \in R}
<1>1. Len(rows) \in Nat /\ \A i \in R : rows[i].version \in Nat /\ rows[i].version <= Len(rows)
  <2>1. \A i \in R : rows[i] \in Relation
    OBVIOUS
  <2> QED
    BY <2>1, LenProperties DEF VersionsCounted, Relation
<1>2. S \in SUBSET Nat /\ S # {} /\ \A m \in S : m <= Len(rows)
  BY <1>1
<1>3. Largest(S) \in S /\ \A m \in S : m <= Largest(S)
  BY <1>1, <1>2, LargestIsLargest
<1>4. PICK i \in R : rows[i].version = Largest(S)
  BY <1>3
<1>5. \A j \in R : rows[j].version <= Largest(S)
  BY <1>3
<1> QED
  BY <1>4, <1>5

LEMMA AssertedShape ==
  ASSUME NEW rows \in Seq(Relation), VersionsCounted(rows), NEW e \in Effect
  PROVE  AssertedRows(rows, e, Asserted(rows, e))
<1> DEFINE after == Asserted(rows, e)
<1>0. Len(rows) \in Nat /\ DOMAIN rows = 1 .. Len(rows)
      /\ \A i \in DOMAIN rows : rows[i] \in Relation
  OBVIOUS
<1>1. CASE OpenRows(rows, e) # {}
  <2> DEFINE one == CHOOSE i \in OpenRows(rows, e) :
                      \A j \in OpenRows(rows, e) : rows[j].version <= rows[i].version
             merged == Merged(rows[one], e)
  <2>1. OpenRows(rows, e) \in SUBSET DOMAIN rows
    BY DEF OpenRows
  <2>2. \E i \in OpenRows(rows, e) :
          \A j \in OpenRows(rows, e) : rows[j].version <= rows[i].version
    BY <1>1, <2>1, NewestRow
  <2>3. one \in OpenRows(rows, e)
        /\ \A j \in OpenRows(rows, e) : rows[j].version <= rows[one].version
    BY <2>2
  <2>4. after = [rows EXCEPT ![one] = merged]
    BY <1>1 DEF Asserted
  <2> HIDE DEF one
  <2>5. one \in 1 .. Len(rows) /\ rows[one] \in Relation /\ rows[one].open
        /\ SameTriple(rows[one], e)
    BY <1>0, <2>3 DEF OpenRows
  <2>6. /\ merged \in Relation
        /\ merged.subject = rows[one].subject /\ merged.type = rows[one].type
        /\ merged.target = rows[one].target /\ merged.version = rows[one].version
        /\ merged.open = rows[one].open /\ merged.source = rows[one].source
        /\ merged.superseded = rows[one].superseded
        /\ merged.state = (IF rows[one].state = "confirmed" THEN "confirmed" ELSE e.state)
    BY <2>5, MergedShape
  <2>7. merged.state # rows[one].state => merged.state = "confirmed" /\ e.state = "confirmed"
    <3>1. rows[one].state \in {"candidate", "confirmed"} /\ e.state \in {"candidate", "confirmed"}
      BY <2>5 DEF Relation, Effect
    <3> HIDE DEF merged
    <3> QED
      BY <2>6, <3>1
  <2> HIDE DEF merged, after
  <2>8. /\ after \in Seq(Relation) /\ Len(after) = Len(rows) /\ DOMAIN after = DOMAIN rows
        /\ \A i \in DOMAIN rows : after[i] = IF i = one THEN merged ELSE rows[i]
    BY <2>4, <2>5, <2>6, ExceptSeq
  <2>9. ASSUME NEW i \in DOMAIN rows
        PROVE  /\ after[i].subject = rows[i].subject /\ after[i].type = rows[i].type
               /\ after[i].target = rows[i].target /\ after[i].version = rows[i].version
               /\ after[i].open = rows[i].open /\ after[i].source = rows[i].source
               /\ after[i].superseded = rows[i].superseded
               /\ ~SameTriple(rows[i], e) => after[i] = rows[i]
               /\ after[i].state # rows[i].state =>
                    /\ after[i].state = "confirmed" /\ e.state = "confirmed"
                    /\ SameTriple(rows[i], e)
                    /\ \A j \in OpenRows(rows, e) : rows[j].version <= rows[i].version
    <3>1. CASE i = one
      <4>1. after[i] = merged
        BY <2>8, <3>1
      <4> QED
        BY <2>3, <2>5, <2>6, <2>7, <3>1, <4>1
    <3>2. CASE i # one
      <4>1. after[i] = rows[i]
        BY <2>8, <3>2
      <4> QED
        BY <4>1
    <3> QED
      BY <3>1, <3>2
  <2>10. after[one].open /\ SameTriple(after[one], e)
    BY <1>0, <2>5, <2>9 DEF SameTriple
  <2> QED
    BY <1>0, <2>5, <2>8, <2>9, <2>10 DEF AssertedRows, after
<1>2. CASE OpenRows(rows, e) = {}
  <2> DEFINE new == NewRow(rows, e)
  <2>1. after = Append(rows, new)
    BY <1>2 DEF Asserted, NewRow
  <2>2. new \in Relation /\ new.open /\ SameTriple(new, e)
    <3>1. NextVersion(rows, e) \in Nat
      BY <1>0, NextVersionIsNew
    <3> QED
      BY <3>1 DEF NewRow, Relation, Effect, SameTriple
  <2> HIDE DEF new, after
  <2>3. /\ after \in Seq(Relation) /\ Len(after) = Len(rows) + 1
        /\ DOMAIN after = 1 .. Len(rows) + 1
        /\ \A i \in DOMAIN rows : after[i] = rows[i]
        /\ after[Len(rows) + 1] = new
    BY <1>0, <2>1, <2>2, AppendProperties, LenProperties
  <2> QED
    BY <1>0, <1>2, <2>2, <2>3 DEF AssertedRows, after, new
<1> QED
  BY <1>1, <1>2

-----------------------------------------------------------------------------
(* Objects *)

Projects == Project \cup {NoProject}

\* What ensureObject never does: reject an object, or take a confirmation back.
ObjectsKept(objs, after) ==
  \A v \in Uri : /\ after[v].state = "rejected" <=> objs[v].state = "rejected"
                 /\ objs[v].state = "confirmed" => after[v].state = "confirmed"

LEMMA EnsuredShape ==
  ASSUME NEW objs \in [Uri -> Object], NEW u \in Uri, NEW p \in Projects,
         NEW new \in {"candidate", "confirmed"}, objs[u].state # "rejected"
  PROVE  LET after == Ensured(objs, u, p, new) IN
         /\ after \in [Uri -> Object] /\ ObjectsKept(objs, after)
         /\ new = "confirmed" => after[u].state = "confirmed"
<1> DEFINE old == objs[u]
           state == Upgraded(old.state, new)
           row == [state |-> state, project |-> IF old.project = NoProject THEN p ELSE old.project]
           after == Ensured(objs, u, p, new)
<1>1. old \in Object
  OBVIOUS
<1>2. old.state \in {"none", "candidate", "confirmed"} /\ old.project \in Projects
  BY <1>1 DEF Object, Projects
<1>3. /\ state \in {"none", "candidate", "confirmed"}
      /\ new = "confirmed" => state = "confirmed"
      /\ old.state = "confirmed" => state = "confirmed"
  BY <1>2 DEF Upgraded
<1> HIDE DEF state
<1>4. row \in Object /\ row.state = state
  BY <1>2, <1>3 DEF Object, Projects
<1>5. after = [objs EXCEPT ![u] = row]
  BY DEF Ensured, state
<1> HIDE DEF row, after
<1>6. after \in [Uri -> Object] /\ \A v \in Uri : after[v] = IF v = u THEN row ELSE objs[v]
  BY <1>4, <1>5
<1>7. ObjectsKept(objs, after) /\ (new = "confirmed" => after[u].state = "confirmed")
  BY <1>2, <1>3, <1>4, <1>6 DEF ObjectsKept
<1> QED
  BY <1>6, <1>7 DEF after

\* Both endpoints of an effect.
LEMMA EndpointsEnsured ==
  ASSUME NEW objs \in [Uri -> Object], NEW e \in Effect, NEW p \in Projects,
         \A u \in {e.subject, e.target} : objs[u].state # "rejected"
  PROVE  LET after == Ensured(Ensured(objs, e.subject, p, e.state), e.target, p, e.state) IN
         /\ after \in [Uri -> Object] /\ ObjectsKept(objs, after)
         /\ e.state = "confirmed" =>
              after[e.subject].state = "confirmed" /\ after[e.target].state = "confirmed"
<1> DEFINE between == Ensured(objs, e.subject, p, e.state)
           after == Ensured(between, e.target, p, e.state)
<1>1. e.subject \in Uri /\ e.target \in Uri /\ e.state \in {"candidate", "confirmed"}
  BY DEF Effect
<1>2. /\ between \in [Uri -> Object] /\ ObjectsKept(objs, between)
      /\ e.state = "confirmed" => between[e.subject].state = "confirmed"
  BY <1>1, EnsuredShape
<1> HIDE DEF between
<1>3. between[e.target].state # "rejected"
  BY <1>1, <1>2 DEF ObjectsKept
<1>4. /\ after \in [Uri -> Object] /\ ObjectsKept(between, after)
      /\ e.state = "confirmed" => after[e.target].state = "confirmed"
  BY <1>1, <1>2, <1>3, EnsuredShape
<1> HIDE DEF after
<1>5. ObjectsKept(objs, after)
  BY <1>2, <1>4 DEF ObjectsKept
<1>6. e.state = "confirmed" => after[e.subject].state = "confirmed"
  BY <1>1, <1>2, <1>4 DEF ObjectsKept
<1> QED
  BY <1>4, <1>5, <1>6 DEF after, between

-----------------------------------------------------------------------------
(* What the invariants have to do with closing rows and asserting one *)

LEMMA NarrowedOneOpen ==
  ASSUME NEW rows \in Seq(Relation), NEW later, NEW C, Narrowed(rows, later, C),
         VersionsCounted(rows), OneOpenIn(rows),
         \A i, j \in DOMAIN rows :
           SameTriple(rows[i], rows[j]) /\ rows[i].open /\ i \notin C /\ j \in C =>
             rows[i].type = "MAY_INCLUDE_WORKSPACE" /\ later[j].superseded
  PROVE  VersionsCounted(later) /\ OneOpenIn(later)
<1>1. VersionsCounted(later)
  BY DEF Narrowed, VersionsCounted
<1>2. ASSUME NEW i \in DOMAIN rows, NEW j \in DOMAIN rows, i # j, SameTriple(later[i], later[j])
      PROVE  /\ later[i].version # later[j].version
             /\ later[i].open /\ later[i].version < later[j].version =>
                  /\ later[j].open =>
                       /\ later[i].type \in RegistryType
                       /\ later[i].state # RegistryState(later[i].type)
                       /\ later[j].state \in {RegistryState(later[j].type), "confirmed"}
                  /\ ~later[j].open =>
                       later[i].type = "MAY_INCLUDE_WORKSPACE" /\ later[j].superseded
  <2>1. /\ later[i].type = rows[i].type /\ later[i].version = rows[i].version
        /\ later[i].state = rows[i].state /\ (later[i].open <=> rows[i].open /\ i \notin C)
        /\ later[j].type = rows[j].type /\ later[j].version = rows[j].version
        /\ later[j].state = rows[j].state /\ (later[j].open <=> rows[j].open /\ j \notin C)
        /\ rows[j].superseded => later[j].superseded
        /\ SameTriple(rows[i], rows[j])
    BY <1>2 DEF Narrowed, SameTriple
  <2>2. /\ rows[i].version # rows[j].version
        /\ rows[i].open /\ rows[i].version < rows[j].version =>
             /\ rows[j].open => /\ rows[i].type \in RegistryType
                                /\ rows[i].state # RegistryState(rows[i].type)
                                /\ rows[j].state \in {RegistryState(rows[j].type), "confirmed"}
             /\ ~rows[j].open => rows[i].type = "MAY_INCLUDE_WORKSPACE" /\ rows[j].superseded
    BY <1>2, <2>1 DEF OneOpenIn
  <2>3. rows[i].open /\ i \notin C /\ j \in C =>
          rows[i].type = "MAY_INCLUDE_WORKSPACE" /\ later[j].superseded
    BY <2>1
  <2> QED
    BY <2>1, <2>2, <2>3
<1>3. DOMAIN later = DOMAIN rows
  BY DEF Narrowed
<1> QED
  BY <1>1, <1>2, <1>3 DEF OneOpenIn

\* Rows that are all that was open of a triple may be closed.
LEMMA RetractedOneOpen ==
  ASSUME NEW rows \in Seq(Relation), NEW e, VersionsCounted(rows), OneOpenIn(rows)
  PROVE  VersionsCounted(Retracted(rows, e)) /\ OneOpenIn(Retracted(rows, e))
<1>1. \A i, j \in DOMAIN rows :
        ~(SameTriple(rows[i], rows[j]) /\ rows[i].open /\ i \notin OpenRows(rows, e)
            /\ j \in OpenRows(rows, e))
  BY DEF OpenRows, SameTriple
<1>2. Narrowed(rows, Retracted(rows, e), OpenRows(rows, e))
  BY RetractedShape
<1> QED
  BY <1>1, <1>2, NarrowedOneOpen

LEMMA AssertedOneOpen ==
  ASSUME NEW rows \in Seq(Relation), VersionsCounted(rows), OneOpenIn(rows), NEW e \in Effect,
         NEW after, AssertedRows(rows, e, after)
  PROVE  VersionsCounted(after) /\ OneOpenIn(after)
<1> DEFINE n == Len(rows) + 1
<1>0. /\ Len(rows) \in Nat /\ Len(after) \in Nat
      /\ Len(rows) <= Len(after) /\ Len(after) <= Len(rows) + 1
      /\ DOMAIN rows = 1 .. Len(rows) /\ DOMAIN after = 1 .. Len(after)
  <2>1. after \in Seq(Relation) /\ Len(after) \in {Len(rows), Len(rows) + 1}
    BY DEF AssertedRows
  <2>2. DOMAIN rows = 1 .. Len(rows) /\ DOMAIN after = 1 .. Len(after)
        /\ Len(rows) \in Nat /\ Len(after) \in Nat
    BY <2>1, LenProperties
  <2>3. \A l, m \in Nat : m \in {l, l + 1} => l <= m /\ m <= l + 1
    OBVIOUS
  <2>4. Len(rows) <= Len(after) /\ Len(after) <= Len(rows) + 1
    <3>1. Len(rows) \in Nat /\ Len(after) \in Nat
      BY <2>2
    <3> QED
      BY <2>1, <2>3, <3>1, Zenon
  <2> QED
    BY <2>2, <2>4
<1>1. /\ \A i \in DOMAIN after : after[i] \in Relation
      /\ \A i \in DOMAIN rows : rows[i] \in Relation
  BY DEF AssertedRows
<1>2. ASSUME n \in DOMAIN after
      PROVE  /\ after[n].version \in 1 .. n /\ after[n].open /\ SameTriple(after[n], e)
             /\ \A i \in DOMAIN rows : SameTriple(rows[i], e) =>
                  ~rows[i].open /\ rows[i].version < after[n].version
  <2>1. n \notin DOMAIN rows
    BY <1>0
  <2>2. after[n] = NewRow(rows, e) /\ OpenRows(rows, e) = {}
    BY <1>2, <2>1 DEF AssertedRows
  <2>3. after[n].version = NextVersion(rows, e) /\ after[n].open /\ SameTriple(after[n], e)
    BY <2>2 DEF NewRow, SameTriple
  <2> QED
    BY <2>2, <2>3, NextVersionIsNew DEF OpenRows
<1>3. \A i \in DOMAIN rows :
        /\ i \in DOMAIN after /\ after[i].version = rows[i].version
        /\ after[i].open = rows[i].open /\ after[i].superseded = rows[i].superseded
        /\ after[i].subject = rows[i].subject /\ after[i].type = rows[i].type
        /\ after[i].target = rows[i].target
  BY DEF AssertedRows
<1>4. \A i \in DOMAIN after : i \in DOMAIN rows \/ i = n
  BY <1>0
<1>5. VersionsCounted(after)
  <2> SUFFICES ASSUME NEW i \in DOMAIN after PROVE after[i].version <= Len(after)
    BY DEF VersionsCounted
  <2>1. CASE i \in DOMAIN rows
    <3>1. rows[i].version \in Nat /\ rows[i].version <= Len(rows)
      BY <1>1, <2>1 DEF VersionsCounted, Relation
    <3> QED
      BY <1>0, <1>3, <2>1, <3>1
  <2>2. CASE i \notin DOMAIN rows
    <3>1. i = n /\ after[n].version \in 1 .. n
      BY <1>2, <1>4, <2>2
    <3>2. Len(after) >= n
      BY <1>0, <3>1
    <3> QED
      BY <1>0, <3>1, <3>2
  <2> QED
    BY <2>1, <2>2
<1>6. ASSUME NEW i \in DOMAIN after, NEW j \in DOMAIN after, i # j,
             SameTriple(after[i], after[j])
      PROVE  /\ after[i].version # after[j].version
             /\ after[i].open /\ after[i].version < after[j].version =>
                  /\ after[j].open =>
                       /\ after[i].type \in RegistryType
                       /\ after[i].state # RegistryState(after[i].type)
                       /\ after[j].state \in {RegistryState(after[j].type), "confirmed"}
                  /\ ~after[j].open =>
                       after[i].type = "MAY_INCLUDE_WORKSPACE" /\ after[j].superseded
  <2>0. after[i].version \in Nat /\ after[j].version \in Nat
    BY <1>1 DEF Relation
  <2>1. CASE i \in DOMAIN rows /\ j \in DOMAIN rows
    <3>1. SameTriple(rows[i], rows[j])
      BY <1>3, <1>6, <2>1 DEF SameTriple
    <3>2. /\ rows[i].version # rows[j].version
          /\ rows[i].open /\ rows[i].version < rows[j].version =>
               /\ rows[j].open => /\ rows[i].type \in RegistryType
                                  /\ rows[i].state # RegistryState(rows[i].type)
                                  /\ rows[j].state \in {RegistryState(rows[j].type), "confirmed"}
               /\ ~rows[j].open => rows[i].type = "MAY_INCLUDE_WORKSPACE" /\ rows[j].superseded
      BY <1>6, <2>1, <3>1 DEF OneOpenIn
    <3>3. rows[i].open /\ rows[j].open /\ rows[i].version < rows[j].version =>
            after[i].state = rows[i].state
      <4> SUFFICES ASSUME rows[i].open, rows[j].open, rows[i].version < rows[j].version,
                          after[i].state # rows[i].state
                   PROVE  FALSE
        OBVIOUS
      <4>1. SameTriple(rows[i], e)
            /\ \A l \in OpenRows(rows, e) : rows[l].version <= rows[i].version
        BY <2>1 DEF AssertedRows
      <4>2. j \in OpenRows(rows, e)
        BY <2>1, <3>1, <4>1 DEF OpenRows, SameTriple
      <4>3. rows[i].version \in Nat /\ rows[j].version \in Nat
        BY <1>1, <2>1 DEF Relation
      <4> QED
        BY <4>1, <4>2, <4>3
    <3>4. after[j].state \in {rows[j].state, "confirmed"}
      BY <2>1 DEF AssertedRows
    <3>5. after[i].open = rows[i].open /\ after[j].open = rows[j].open
          /\ after[i].version = rows[i].version /\ after[j].version = rows[j].version
          /\ after[i].type = rows[i].type /\ after[j].type = rows[j].type
          /\ after[j].superseded = rows[j].superseded
      BY <1>3, <2>1
    <3> QED
      BY <3>2, <3>3, <3>4, <3>5
  <2>2. CASE i \in DOMAIN rows /\ j = n
    <3>1. SameTriple(rows[i], e)
      BY <1>2, <1>3, <1>6, <2>2 DEF SameTriple
    <3>2. after[i].open = rows[i].open /\ after[i].version = rows[i].version
      BY <1>3, <2>2
    <3> QED
      BY <1>2, <2>0, <2>2, <3>1, <3>2
  <2>3. CASE i = n /\ j \in DOMAIN rows
    <3>1. SameTriple(rows[j], e)
      BY <1>2, <1>3, <1>6, <2>3 DEF SameTriple
    <3>2. after[j].version = rows[j].version
      BY <1>3, <2>3
    <3>3. after[j].version < after[i].version
      BY <1>2, <2>3, <3>1, <3>2
    <3> QED
      BY <2>0, <3>3
  <2> QED
    BY <1>4, <1>6, <2>1, <2>2, <2>3
<1> QED
  BY <1>5, <1>6 DEF OneOpenIn

LEMMA NarrowedEndpoints ==
  ASSUME NEW rows \in Seq(Relation), NEW closed, NEW C, Narrowed(rows, closed, C),
         NEW objs, NEW after, EndpointsIn(objs, rows),
         \A i \in Current(rows), v \in Uri :
           i \notin C /\ Touches(rows[i], v) =>
             /\ after[v].state = "rejected" => objs[v].state = "rejected"
             /\ objs[v].state = "confirmed" => after[v].state = "confirmed"
  PROVE  EndpointsIn(after, closed)
<1> SUFFICES ASSUME NEW i \in Current(closed), NEW v \in Uri, Touches(closed[i], v)
             PROVE  /\ after[v].state # "rejected"
                    /\ closed[i].state = "confirmed" => after[v].state = "confirmed"
  BY DEF EndpointsIn
<1>1. i \in Current(rows) /\ i \notin C /\ Touches(rows[i], v)
      /\ closed[i].state = rows[i].state
  BY DEF Current, Touches, Narrowed
<1> QED
  BY <1>1 DEF EndpointsIn

LEMMA AssertedEndpoints ==
  ASSUME NEW rows \in Seq(Relation), NEW e \in Effect, NEW later, AssertedRows(rows, e, later),
         NEW objs, NEW after, EndpointsIn(objs, rows), ObjectsKept(objs, after),
         \A u \in {e.subject, e.target} : objs[u].state # "rejected",
         e.state = "confirmed" =>
           after[e.subject].state = "confirmed" /\ after[e.target].state = "confirmed"
  PROVE  EndpointsIn(after, later)
<1> SUFFICES ASSUME NEW i \in Current(later), NEW v \in Uri, Touches(later[i], v)
             PROVE  /\ after[v].state # "rejected"
                    /\ later[i].state = "confirmed" => after[v].state = "confirmed"
  BY DEF EndpointsIn
<1>1. i \in DOMAIN later /\ later[i].open
  BY DEF Current
<1>2. CASE i \in DOMAIN rows
  <2>1. /\ i \in Current(rows) /\ Touches(rows[i], v)
        /\ later[i].state = "confirmed" =>
             rows[i].state = "confirmed" \/ (e.state = "confirmed" /\ SameTriple(rows[i], e))
    BY <1>1, <1>2 DEF AssertedRows, Current, Touches
  <2>2. /\ objs[v].state # "rejected"
        /\ rows[i].state = "confirmed" => objs[v].state = "confirmed"
    BY <2>1 DEF EndpointsIn
  <2>3. SameTriple(rows[i], e) => v \in {e.subject, e.target}
    BY <2>1 DEF Touches, SameTriple
  <2> QED
    BY <2>1, <2>2, <2>3 DEF ObjectsKept
<1>3. CASE i \notin DOMAIN rows
  <2>1. later[i] = NewRow(rows, e)
    BY <1>1, <1>3 DEF AssertedRows
  <2>2. v \in {e.subject, e.target} /\ later[i].state = e.state
    BY <2>1 DEF NewRow, Touches
  <2> QED
    BY <2>2 DEF ObjectsKept
<1> QED
  BY <1>2, <1>3

\* A journal that has become one effect longer.
Extended(journal, e, after) ==
  /\ after \in Journal /\ Len(after) = Len(journal) + 1
  /\ DOMAIN journal = 1 .. Len(journal) /\ DOMAIN after = 1 .. Len(journal) + 1
  /\ \A n \in DOMAIN journal : after[n] = journal[n]
  /\ after[Len(journal) + 1].effect = e

LEMMA ExtendedShape ==
  ASSUME NEW journal \in Journal, NEW e \in Effect, NEW a \in Nat
  PROVE  Extended(journal, e, Append(journal, [activity |-> a, effect |-> e]))
<1> DEFINE line == [activity |-> a, effect |-> e]
           after == Append(journal, line)
<1>1. line \in [activity : Nat, effect : Effect] /\ line.effect = e
  OBVIOUS
<1> HIDE DEF line
<1>2. /\ after \in Journal /\ Len(after) = Len(journal) + 1 /\ Len(journal) \in Nat
      /\ DOMAIN journal = 1 .. Len(journal) /\ DOMAIN after = 1 .. Len(after)
      /\ \A n \in 1 .. Len(journal) : after[n] = journal[n]
      /\ after[Len(journal) + 1] = line
  BY <1>1, AppendProperties, LenProperties DEF Journal
<1> QED
  BY <1>1, <1>2 DEF Extended, line

\* An effect that is no retraction of the row's triple leaves what stands behind
\* the row.
LEMMA StandsOn ==
  ASSUME NEW r, NEW s, \A f : SameTriple(r, f) => SameTriple(s, f),
         NEW e \in Effect, e.op = "retract" => ~SameTriple(r, e),
         NEW journal \in Journal, NEW after, Extended(journal, e, after), Stands(r, journal)
  PROVE  Stands(s, after)
<1>0. Len(journal) \in Nat /\ Len(after) = Len(journal) + 1
  BY LenProperties DEF Journal, Extended
<1>1. PICK n \in DOMAIN journal :
        LET f == journal[n].effect IN
        /\ SameTriple(r, f) /\ f.op = "assert"
        /\ f.state = "confirmed" /\ f.authority # "agent_inference"
        /\ \A m \in n + 1 .. Len(journal) :
             journal[m].effect.op = "retract" => ~SameTriple(journal[m].effect, f)
  BY DEF Stands
<1>2. n \in DOMAIN after /\ after[n] = journal[n] /\ n \in 1 .. Len(journal)
  BY <1>0 DEF Extended
<1>3. ASSUME NEW m \in n + 1 .. Len(after), after[m].effect.op = "retract"
      PROVE  ~SameTriple(after[m].effect, after[n].effect)
  <2>1. CASE m = Len(journal) + 1
    <3>1. after[m].effect = e
      BY <2>1 DEF Extended
    <3> QED
      BY <1>1, <1>2, <1>3, <3>1 DEF SameTriple
  <2>2. CASE m \in n + 1 .. Len(journal)
    <3>1. after[m] = journal[m]
      BY <1>0, <1>2, <2>2 DEF Extended
    <3> QED
      BY <1>1, <1>2, <1>3, <2>2, <3>1
  <2> QED
    BY <1>0, <1>2, <1>3, <2>1, <2>2
<1> QED
  BY <1>1, <1>2, <1>3 DEF Stands

\* What becomes of the authority behind the current rows.
LEMMA RetractedAuthority ==
  ASSUME NEW rows \in Seq(Relation), NEW e \in Effect, NEW journal \in Journal, e.op = "retract",
         AuthorityIn(rows, journal), NEW after, Extended(journal, e, after)
  PROVE  AuthorityIn(Retracted(rows, e), after)
<1> DEFINE closed == Retracted(rows, e)
<1>1. Narrowed(rows, closed, OpenRows(rows, e))
  BY RetractedShape
<1> HIDE DEF closed
<1> SUFFICES ASSUME NEW i \in Current(closed), closed[i].state = "confirmed"
             PROVE  ByRegistry(closed[i]) \/ Stands(closed[i], after)
  BY DEF AuthorityIn, closed
<1>2. i \in Current(rows) /\ closed[i] = rows[i] /\ ~SameTriple(rows[i], e)
  BY <1>1 DEF Current, OpenRows, Narrowed
<1>3. ByRegistry(rows[i]) \/ Stands(rows[i], journal)
  BY <1>2 DEF AuthorityIn
<1>4. Stands(rows[i], journal) => Stands(rows[i], after)
  BY <1>2, StandsOn
<1> QED
  BY <1>2, <1>3, <1>4

LEMMA AssertedAuthority ==
  ASSUME NEW rows \in Seq(Relation), NEW e \in Effect, NEW later, AssertedRows(rows, e, later),
         e.op = "assert", e.state = "confirmed" => e.authority # "agent_inference",
         NEW journal \in Journal, AuthorityIn(rows, journal),
         NEW after, Extended(journal, e, after)
  PROVE  AuthorityIn(later, after)
<1>0. Len(journal) \in Nat /\ Len(after) = Len(journal) + 1
  BY LenProperties DEF Journal, Extended
<1> SUFFICES ASSUME NEW i \in Current(later), later[i].state = "confirmed"
             PROVE  ByRegistry(later[i]) \/ Stands(later[i], after)
  BY DEF AuthorityIn
<1>1. i \in DOMAIN later /\ later[i].open
  BY DEF Current
<1>2. CASE i \in DOMAIN rows /\ rows[i].state = "confirmed"
  <2>1. i \in Current(rows) /\ (\A f : SameTriple(rows[i], f) => SameTriple(later[i], f))
        /\ (ByRegistry(rows[i]) => ByRegistry(later[i]))
    BY <1>1, <1>2 DEF AssertedRows, Current, SameTriple, ByRegistry
  <2>2. ByRegistry(rows[i]) \/ Stands(rows[i], journal)
    BY <1>2, <2>1 DEF AuthorityIn
  <2>3. e.op # "retract"
    OBVIOUS
  <2>4. Stands(rows[i], journal) => Stands(later[i], after)
    BY <2>1, <2>3, StandsOn
  <2> QED
    BY <2>1, <2>2, <2>4
<1>3. CASE e.state = "confirmed" /\ SameTriple(later[i], e)
  <2> DEFINE n == Len(journal) + 1
  <2>1. n \in DOMAIN after /\ after[n].effect = e
    BY <1>0 DEF Extended
  <2>2. n + 1 .. Len(after) = {}
    BY <1>0
  <2> HIDE DEF n
  <2> QED
    BY <1>3, <2>1, <2>2 DEF Stands
<1>4. CASE i \in DOMAIN rows /\ rows[i].state # "confirmed"
  <2>1. e.state = "confirmed" /\ SameTriple(later[i], e)
    BY <1>4 DEF AssertedRows, SameTriple
  <2> QED
    BY <1>3, <2>1
<1>5. CASE i \notin DOMAIN rows
  <2>1. later[i] = NewRow(rows, e)
    BY <1>1, <1>5 DEF AssertedRows
  <2>2. e.state = "confirmed" /\ SameTriple(later[i], e)
    BY <2>1 DEF NewRow, SameTriple
  <2> QED
    BY <1>3, <2>2
<1> QED
  BY <1>2, <1>4, <1>5

\* Rows of a triple that are the same rows as before are explained as before.
Untouched(rows, later, f) ==
  /\ RowsOf(later, f) = RowsOf(rows, f)
  /\ \A i \in RowsOf(rows, f) : later[i] = rows[i]

LEMMA UntouchedExplained ==
  ASSUME NEW rows, NEW later, NEW f, Untouched(rows, later, f), Explained(rows, f)
  PROVE  Explained(later, f)
<1>1. OpenRows(later, f) = OpenRows(rows, f)
      /\ \A i \in OpenRows(rows, f) : later[i] = rows[i]
  BY DEF Untouched, RowsOf, OpenRows
<1>2. RowsOf(later, f) = RowsOf(rows, f) /\ \A i \in RowsOf(rows, f) : later[i] = rows[i]
  BY DEF Untouched
<1> QED
  BY <1>1, <1>2 DEF Explained

\* An effect decides about its own triple and leaves the others as they are.
Decided(rows, e, later) ==
  /\ e.op = "retract" <=> OpenRows(later, e) = {}
  /\ \A f \in Effect : ~SameTriple(e, f) => Untouched(rows, later, f)

\* The journal still explains the rows after such an effect.
LEMMA HistoryExtended ==
  ASSUME NEW rows, NEW later, NEW e \in Effect,
         NEW journal \in Journal, NEW after, Extended(journal, e, after),
         HistoryIn(rows, journal), Decided(rows, e, later)
  PROVE  HistoryIn(later, after)
<1>0. Len(journal) \in Nat /\ Len(after) = Len(journal) + 1
  BY LenProperties DEF Journal, Extended
<1> SUFFICES ASSUME NEW n \in DOMAIN after,
                    \A m \in n + 1 .. Len(after) :
                      ~SameTriple(after[m].effect, after[n].effect)
             PROVE  Explained(later, after[n].effect)
  BY DEF HistoryIn
<1>1. CASE n = Len(journal) + 1
  <2>1. after[n].effect = e
    BY <1>1 DEF Extended
  <2>2. e.op \in {"assert", "retract"}
    BY DEF Effect
  <2> QED
    BY <2>1, <2>2 DEF Decided, Explained
<1>2. CASE n \in 1 .. Len(journal)
  <2> DEFINE f == journal[n].effect
  <2>1. n \in DOMAIN journal /\ after[n] = journal[n] /\ f \in Effect
    <3>1. journal[n] \in [activity : Nat, effect : Effect]
      BY <1>2, ElementOfSeq DEF Journal
    <3> QED
      BY <1>2, <3>1 DEF Extended
  <2>2. ~SameTriple(e, f)
    <3>1. Len(journal) + 1 \in n + 1 .. Len(after)
      BY <1>0, <1>2
    <3> QED
      BY <2>1, <3>1 DEF Extended
  <2>3. ASSUME NEW m \in n + 1 .. Len(journal) PROVE ~SameTriple(journal[m].effect, f)
    <3>1. m \in n + 1 .. Len(after) /\ m \in DOMAIN journal
      BY <1>0, <1>2 DEF Extended
    <3>2. after[m] = journal[m]
      BY <3>1 DEF Extended
    <3> QED
      BY <2>1, <3>1, <3>2
  <2>4. Explained(rows, f)
    BY <2>1, <2>3 DEF HistoryIn
  <2> HIDE DEF f
  <2>5. Explained(later, f)
    BY <2>1, <2>2, <2>4, UntouchedExplained DEF Decided
  <2> QED
    BY <2>1, <2>5 DEF f
<1> QED
  BY <1>0, <1>1, <1>2 DEF Extended

LEMMA RetractedHistory ==
  ASSUME NEW rows \in Seq(Relation), NEW e \in Effect, e.op = "retract"
  PROVE  Decided(rows, e, Retracted(rows, e))
<1> DEFINE closed == Retracted(rows, e)
<1>1. Narrowed(rows, closed, OpenRows(rows, e))
  BY RetractedShape
<1> HIDE DEF closed
<1>2. OpenRows(closed, e) = {}
  BY <1>1 DEF OpenRows, SameTriple, Narrowed
<1>3. ASSUME NEW f \in Effect, ~SameTriple(e, f) PROVE Untouched(rows, closed, f)
  <2>1. RowsOf(closed, f) = RowsOf(rows, f)
    <3>1. \A i \in DOMAIN rows : SameTriple(closed[i], f) <=> SameTriple(rows[i], f)
      BY <1>1 DEF SameTriple, Narrowed
    <3> QED
      BY <1>1, <3>1 DEF RowsOf, Narrowed
  <2>2. \A i \in RowsOf(rows, f) : i \in DOMAIN rows /\ i \notin OpenRows(rows, e)
    BY <1>3 DEF RowsOf, OpenRows, SameTriple
  <2>3. \A i \in RowsOf(rows, f) : closed[i] = rows[i]
    BY <1>1, <2>2 DEF Narrowed
  <2> QED
    BY <2>1, <2>3 DEF Untouched
<1> QED
  BY <1>2, <1>3 DEF Decided, closed

LEMMA AssertedHistory ==
  ASSUME NEW rows \in Seq(Relation), NEW e \in Effect, e.op = "assert",
         NEW later, AssertedRows(rows, e, later)
  PROVE  Decided(rows, e, later)
<1>1. OpenRows(later, e) # {}
  BY DEF AssertedRows, OpenRows
<1>2. ASSUME NEW f \in Effect, ~SameTriple(e, f) PROVE Untouched(rows, later, f)
  <2>1. ASSUME NEW i \in DOMAIN rows
        PROVE  i \in DOMAIN later /\ (SameTriple(later[i], f) <=> SameTriple(rows[i], f))
    BY DEF AssertedRows, SameTriple
  <2>2. ASSUME NEW i \in DOMAIN later \ DOMAIN rows PROVE ~SameTriple(later[i], f)
    <3>1. later[i] = NewRow(rows, e)
      BY DEF AssertedRows
    <3> QED
      BY <1>2, <3>1 DEF NewRow, SameTriple
  <2>3. RowsOf(later, f) = RowsOf(rows, f)
    BY <2>1, <2>2 DEF RowsOf
  <2>4. ASSUME NEW i \in RowsOf(rows, f) PROVE later[i] = rows[i]
    <3>1. i \in DOMAIN rows /\ ~SameTriple(rows[i], e)
      BY <1>2 DEF RowsOf, SameTriple
    <3> QED
      BY <3>1 DEF AssertedRows
  <2> QED
    BY <2>3, <2>4 DEF Untouched
<1> QED
  BY <1>1, <1>2 DEF Decided

\* One effect, applied to tables that are as they should be.
LEMMA AppliedTables ==
  ASSUME NEW objs, NEW rows, NEW journal, RowsInv(objs, rows), JournalInv(rows, journal),
         NEW e \in Effect, NEW p \in Projects, NEW a \in Nat,
         \A u \in {e.subject, e.target} : objs[u].state # "rejected",
         e.state = "confirmed" => e.authority # "agent_inference"
  PROVE  LET d == Applied([objects |-> objs, relations |-> rows, effects |-> journal], e, p, a) IN
         /\ RowsInv(d.objects, d.relations)
         /\ JournalInv(d.relations, d.effects)
<1> DEFINE kept == Ensured(Ensured(objs, e.subject, p, e.state), e.target, p, e.state)
           later == IF e.op = "retract" THEN Retracted(rows, e) ELSE Asserted(rows, e)
           after == Append(journal, [activity |-> a, effect |-> e])
<1>1. /\ objs \in [Uri -> Object] /\ rows \in Seq(Relation) /\ journal \in Journal
      /\ VersionsCounted(rows) /\ OneOpenIn(rows) /\ EndpointsIn(objs, rows)
      /\ AuthorityIn(rows, journal) /\ HistoryIn(rows, journal)
  BY DEF RowsInv, JournalInv
<1>2. /\ kept \in [Uri -> Object] /\ ObjectsKept(objs, kept)
      /\ e.state = "confirmed" =>
           kept[e.subject].state = "confirmed" /\ kept[e.target].state = "confirmed"
  BY <1>1, EndpointsEnsured
<1>3. Extended(journal, e, after) /\ after \in Journal
  BY <1>1, ExtendedShape DEF Extended
<1> HIDE DEF kept, after
<1>4. CASE e.op = "retract"
  <2>0. later = Retracted(rows, e)
    BY <1>4
  <2> HIDE DEF later
  <2>1. Narrowed(rows, later, OpenRows(rows, e))
    BY <1>1, <2>0, RetractedShape
  <2>2. later \in Seq(Relation) /\ VersionsCounted(later) /\ OneOpenIn(later)
    BY <1>1, <2>0, <2>1, RetractedOneOpen DEF Narrowed
  <2>3. EndpointsIn(kept, later)
    BY <1>1, <1>2, <2>1, NarrowedEndpoints DEF ObjectsKept
  <2>4. AuthorityIn(later, after)
    BY <1>1, <1>3, <1>4, <2>0, RetractedAuthority
  <2>5. HistoryIn(later, after)
    <3>1. Decided(rows, e, later)
      BY <1>1, <1>4, <2>0, RetractedHistory
    <3> QED
      BY <1>1, <1>3, <3>1, HistoryExtended
  <2>6. RowsInv(kept, later) /\ JournalInv(later, after)
    BY <1>2, <1>3, <2>2, <2>3, <2>4, <2>5 DEF RowsInv, JournalInv
  <2> QED
    BY <2>6 DEF Applied, kept, after, later
<1>5. CASE e.op = "assert"
  <2>1. AssertedRows(rows, e, later)
    BY <1>1, <1>5, AssertedShape
  <2> HIDE DEF later
  <2>2. later \in Seq(Relation) /\ VersionsCounted(later) /\ OneOpenIn(later)
    BY <1>1, <2>1, AssertedOneOpen DEF AssertedRows
  <2>3. EndpointsIn(kept, later)
    BY <1>1, <1>2, <2>1, AssertedEndpoints
  <2>4. AuthorityIn(later, after)
    BY <1>1, <1>3, <1>5, <2>1, AssertedAuthority
  <2>5. HistoryIn(later, after)
    <3>1. Decided(rows, e, later)
      BY <1>1, <1>5, <2>1, AssertedHistory
    <3> QED
      BY <1>1, <1>3, <3>1, HistoryExtended
  <2>6. RowsInv(kept, later) /\ JournalInv(later, after)
    BY <1>2, <1>3, <2>2, <2>3, <2>4, <2>5 DEF RowsInv, JournalInv
  <2> QED
    BY <2>6 DEF Applied, kept, after, later
<1> QED
  BY <1>4, <1>5 DEF Effect

-----------------------------------------------------------------------------
(* What the registry does to the tables: it closes rows, and inserts others *)

LEMMA SetToSeqShape ==
  ASSUME NEW S, IsFiniteSet(S)
  PROVE  /\ SetToSeq(S) \in Seq(S) /\ DOMAIN SetToSeq(S) = 1 .. Len(SetToSeq(S))
         /\ Len(SetToSeq(S)) \in Nat
         /\ \A x \in S : \E i \in 1 .. Len(SetToSeq(S)) : SetToSeq(S)[i] = x
         /\ \A i, j \in DOMAIN SetToSeq(S) : SetToSeq(S)[i] = SetToSeq(S)[j] => i = j
<1> DEFINE n == Cardinality(S)
           s == SetToSeq(S)
<1>1. n \in Nat /\ ExistsBijection(1 .. n, S)
  BY FS_CardinalityType
<1>2. \E f \in [1 .. n -> S] : IsInjective(f)
  BY <1>1 DEF ExistsBijection, Bijection, Injection
<1>3. s \in [1 .. n -> S] /\ IsInjective(s)
  BY <1>2 DEF SetToSeq
<1>4. s \in Injection(1 .. n, S)
  BY <1>3 DEF Injection
<1>5. IsFiniteSet(1 .. n) /\ Cardinality(1 .. n) = n
  BY <1>1, FS_CountingElements, FS_NatBijection, FS_Interval
<1>6. s \in Surjection(1 .. n, S)
  BY <1>4, <1>5, FS_Injection
<1> HIDE DEF s, n
<1>7. s \in Seq(S) /\ Len(s) = n /\ DOMAIN s = 1 .. n
  BY <1>1, <1>3, FunctionIsSeq
<1>8. \A x \in S : \E i \in 1 .. n : s[i] = x
  BY <1>6 DEF Surjection
<1>9. \A i, j \in DOMAIN s : s[i] = s[j] => i = j
  BY <1>3 DEF IsInjective
<1> QED
  BY <1>1, <1>7, <1>8, <1>9 DEF s

EndedRows(rows, m) == {i \in DOMAIN rows : Ended(m, rows[i])}

LEMMA SupersededShape ==
  ASSUME NEW rows \in Seq(Relation), NEW m
  PROVE  /\ Narrowed(rows, Superseded(rows, m), EndedRows(rows, m))
         /\ \A i \in EndedRows(rows, m) : rows[i].open /\ Superseded(rows, m)[i].superseded
<1> DEFINE C == EndedRows(rows, m)
           later == Superseded(rows, m)
<1>1. later = [i \in DOMAIN rows |->
                 IF i \in C THEN [rows[i] EXCEPT !.open = FALSE, !.superseded = TRUE]
                            ELSE rows[i]]
  BY DEF Superseded, EndedRows
<1>2. \A i \in C : i \in DOMAIN rows /\ rows[i].open
  BY DEF EndedRows, Ended
<1> HIDE DEF C, later
<1>3. \A i \in DOMAIN rows : i \in C =>
        later[i] = [rows[i] EXCEPT !.open = FALSE, !.superseded = TRUE]
  BY <1>1
<1>4. later = [i \in DOMAIN rows |-> IF i \in C THEN later[i] ELSE rows[i]]
  BY <1>1
<1>5. Narrowed(rows, later, C)
  BY <1>3, <1>4, NarrowedShape
<1>6. ASSUME NEW i \in C PROVE later[i].superseded
  <2>1. i \in DOMAIN rows /\ rows[i] \in Relation
    BY <1>2
  <2>2. later[i] = [rows[i] EXCEPT !.open = FALSE, !.superseded = TRUE]
    BY <1>3, <2>1
  <2>3. [rows[i] EXCEPT !.open = FALSE, !.superseded = TRUE].superseded
    BY <2>1, ClosedRow
  <2> QED
    BY <2>2, <2>3
<1> QED
  BY <1>2, <1>5, <1>6 DEF C, later

\* What is open beside a row the registry has closed is a confirmed workspace.
LEMMA SupersededOneOpen ==
  ASSUME NEW rows \in Seq(Relation), NEW m, VersionsCounted(rows), OneOpenIn(rows)
  PROVE  VersionsCounted(Superseded(rows, m)) /\ OneOpenIn(Superseded(rows, m))
<1>1. Narrowed(rows, Superseded(rows, m), EndedRows(rows, m))
      /\ \A i \in EndedRows(rows, m) : rows[i].open /\ Superseded(rows, m)[i].superseded
  BY SupersededShape
<1>2. ASSUME NEW i \in DOMAIN rows, NEW j \in DOMAIN rows, SameTriple(rows[i], rows[j]),
             rows[i].open, i \notin EndedRows(rows, m), j \in EndedRows(rows, m)
      PROVE  rows[i].type = "MAY_INCLUDE_WORKSPACE" /\ Superseded(rows, m)[j].superseded
  <2>1. Ended(m, rows[j]) /\ ~Ended(m, rows[i])
    BY <1>2 DEF EndedRows
  <2>2. rows[i].type = "MAY_INCLUDE_WORKSPACE"
    BY <1>2, <2>1 DEF Ended, Touches, SameTriple
  <2> QED
    BY <1>1, <1>2, <2>2
<1> QED
  BY <1>1, <1>2, NarrowedOneOpen

\* What the registry closes leaves the journal's account of the rows true: it
\* marks what it closes, and the newest row of a triple is among that.
LEMMA SupersededExplained ==
  ASSUME NEW rows \in Seq(Relation), NEW m, VersionsCounted(rows), OneOpenIn(rows),
         NEW e, Explained(rows, e)
  PROVE  Explained(Superseded(rows, m), e)
<1> DEFINE C == EndedRows(rows, m)
           later == Superseded(rows, m)
           R == RowsOf(rows, e)
<1>1. Narrowed(rows, later, C) /\ \A i \in C : rows[i].open /\ later[i].superseded
  BY SupersededShape
<1> HIDE DEF C, later
<1>2. DOMAIN later = DOMAIN rows /\ RowsOf(later, e) = R
      /\ \A i \in DOMAIN rows : SameTriple(later[i], e) <=> SameTriple(rows[i], e)
  <2>1. \A i \in DOMAIN rows : SameTriple(later[i], e) <=> SameTriple(rows[i], e)
    BY <1>1 DEF Narrowed, SameTriple
  <2>2. DOMAIN later = DOMAIN rows
    BY <1>1 DEF Narrowed
  <2> QED
    BY <2>1, <2>2 DEF RowsOf
<1>3. OpenRows(later, e) = OpenRows(rows, e) \ C
  BY <1>1, <1>2 DEF OpenRows, Narrowed
<1>4. ASSUME e.op = "retract", NEW i \in OpenRows(later, e)
      PROVE  later[i].source = "registry" /\ later[i].type \in RegistryType
  <2>1. i \in OpenRows(rows, e) /\ i \in DOMAIN rows
    BY <1>3 DEF OpenRows
  <2> QED
    BY <1>1, <1>4, <2>1 DEF Explained, Narrowed
<1>5. ASSUME e.op = "assert", OpenRows(later, e) = {}
      PROVE  \E i \in R : later[i].superseded
               /\ \A j \in R : later[j].version <= later[i].version
  <2>1. \A i \in R : i \in DOMAIN rows /\ SameTriple(rows[i], e)
                     /\ later[i].version = rows[i].version
                     /\ (rows[i].superseded => later[i].superseded)
    BY <1>1 DEF RowsOf, Narrowed
  <2>2. CASE OpenRows(rows, e) = {}
    <3>1. PICK i \in R : rows[i].superseded /\ \A j \in R : rows[j].version <= rows[i].version
      BY <1>5, <2>2 DEF Explained
    <3> QED
      BY <2>1, <3>1
  <2>3. CASE OpenRows(rows, e) # {}
    <3>1. PICK o \in OpenRows(rows, e) : TRUE
      BY <2>3
    <3>2. o \in R /\ rows[o].open
      BY DEF OpenRows, RowsOf
    <3>3. PICK i \in R : \A j \in R : rows[j].version <= rows[i].version
      <4>1. R \in SUBSET DOMAIN rows /\ R # {}
        BY <3>2 DEF RowsOf
      <4> HIDE DEF R
      <4> QED
        BY <4>1, NewestRow
    <3>4. later[i].superseded
      <4>1. CASE rows[i].open
        <5>1. i \in OpenRows(rows, e)
          BY <2>1, <3>3, <4>1 DEF OpenRows
        <5> QED
          BY <1>1, <1>3, <1>5, <5>1
      <4>2. CASE ~rows[i].open
        <5>1. SameTriple(rows[o], rows[i]) /\ o # i
          BY <2>1, <3>2, <3>3, <4>2 DEF SameTriple
        <5>2. rows[o].version # rows[i].version
          BY <2>1, <3>2, <3>3, <5>1 DEF OneOpenIn
        <5>3. rows[o].version < rows[i].version
          <6>1. rows[o].version \in Nat /\ rows[i].version \in Nat
            <7>1. rows[o] \in Relation /\ rows[i] \in Relation
              BY <2>1, <3>2, <3>3
            <7> QED
              BY <7>1 DEF Relation
          <6>2. rows[o].version <= rows[i].version
            BY <3>2, <3>3
          <6> QED
            BY <5>2, <6>1, <6>2
        <5>4. rows[i].superseded
          BY <2>1, <3>2, <3>3, <4>2, <5>1, <5>3 DEF OneOpenIn
        <5> QED
          BY <2>1, <3>3, <5>4
      <4> QED
        BY <4>1, <4>2
    <3> QED
      BY <2>1, <3>3, <3>4
  <2> QED
    BY <2>2, <2>3
<1>6. Explained(later, e)
  <2> HIDE DEF R
  <2> QED
    BY <1>2, <1>4, <1>5 DEF Explained
<1> QED
  BY <1>6 DEF later

\* Rows after the registry has inserted what it misses.
InsertedRows(rows, m, after) ==
  /\ after \in Seq(Relation) /\ Len(rows) <= Len(after)
  /\ \A i \in DOMAIN rows : i \in DOMAIN after /\ after[i] = rows[i]
  /\ \A i \in DOMAIN after \ DOMAIN rows :
       \E w \in Missing(rows, m) : after[i] = RegistryRow(rows, w)
  /\ \A i, j \in DOMAIN after \ DOMAIN rows : SameTriple(after[i], after[j]) => i = j

LEMMA ManifestShape ==
  ASSUME NEW m \in Manifest
  PROVE  /\ IsFiniteSet(m.relations) /\ m.ensured \in [DOMAIN m.ensured -> Project]
         /\ DOMAIN m.ensured \subseteq Uri
         /\ \A w \in m.relations :
              /\ w \in [subject : Uri, type : RegistryType \cap RelationType, target : Uri]
              /\ w.subject \in DOMAIN m.ensured /\ w.target \in DOMAIN m.ensured
<1>1. m \in Reconciliation
  BY ConstantAssumption
<1>2. m.ensured \in UNION {[U -> Project] : U \in SUBSET Uri}
      /\ m.relations \in SUBSET [subject : Uri, type : RegistryType \cap RelationType, target : Uri]
  BY <1>1 DEF Reconciliation
<1>3. PICK U \in SUBSET Uri : m.ensured \in [U -> Project]
  BY <1>2
<1>4. IsFiniteSet(m.relations)
      /\ \A w \in m.relations : {w.subject, w.target} \subseteq DOMAIN m.ensured
  BY ConstantAssumption
<1> QED
  BY <1>2, <1>3, <1>4

LEMMA RegistryRowShape ==
  ASSUME NEW rows \in Seq(Relation), VersionsCounted(rows), NEW m \in Manifest,
         NEW w \in Missing(rows, m)
  PROVE  LET r == RegistryRow(rows, w) IN
         /\ r \in Relation /\ r.open /\ r.source = "registry" /\ r.type \in RegistryType
         /\ r.subject = w.subject /\ r.type = w.type /\ r.target = w.target
         /\ r.state = RegistryState(r.type) /\ w \in m.relations
         /\ r.version \in 1 .. Len(rows) + 1
         /\ \A i \in DOMAIN rows : SameTriple(rows[i], r) =>
              /\ rows[i].version < r.version
              /\ rows[i].open => rows[i].state # r.state
<1>1. w \in m.relations /\ \A i \in OpenRows(rows, w) : rows[i].state # RegistryState(w.type)
  BY DEF Missing
<1>2. w \in [subject : Uri, type : RegistryType \cap RelationType, target : Uri]
  BY <1>1, ManifestShape
<1>3. NextVersion(rows, w) \in 1 .. Len(rows) + 1 /\ NextVersion(rows, w) \in Nat
      /\ \A i \in DOMAIN rows : SameTriple(rows[i], w) => rows[i].version < NextVersion(rows, w)
  BY LenProperties, NextVersionIsNew
<1>4. RegistryState(w.type) \in {"candidate", "confirmed"}
  BY DEF RegistryState
<1> DEFINE r == RegistryRow(rows, w)
<1>5. /\ r.subject = w.subject /\ r.type = w.type /\ r.target = w.target
      /\ r.version = NextVersion(rows, w) /\ r.state = RegistryState(w.type)
      /\ r.source = "registry" /\ r.open = TRUE /\ r \in Relation
  BY <1>2, <1>3, <1>4 DEF RegistryRow, Relation
<1> HIDE DEF r
<1>6. ASSUME NEW i \in DOMAIN rows, SameTriple(rows[i], r)
      PROVE  rows[i].version < r.version /\ (rows[i].open => rows[i].state # r.state)
  <2>1. SameTriple(rows[i], w)
    BY <1>5, <1>6 DEF SameTriple
  <2> QED
    BY <1>1, <1>3, <1>5, <2>1 DEF OpenRows
<1>7. r.type \in RegistryType /\ r.version \in 1 .. Len(rows) + 1 /\ r.state = RegistryState(r.type)
  BY <1>2, <1>3, <1>5
<1> QED
  BY <1>1, <1>5, <1>6, <1>7 DEF r

LEMMA InsertedShape ==
  ASSUME NEW rows \in Seq(Relation), VersionsCounted(rows), NEW m \in Manifest
  PROVE  InsertedRows(rows, m, Inserted(rows, m))
<1> DEFINE S == Missing(rows, m)
           missing == SetToSeq(S)
           new == [k \in DOMAIN missing |-> RegistryRow(rows, missing[k])]
           after == Inserted(rows, m)
<1>1. IsFiniteSet(S)
  BY ManifestShape, FS_Subset DEF Missing
<1>2. /\ missing \in Seq(S) /\ DOMAIN missing = 1 .. Len(missing) /\ Len(missing) \in Nat
      /\ \A i, j \in DOMAIN missing : missing[i] = missing[j] => i = j
  BY <1>1, SetToSeqShape
<1>3. after = rows \o new
  BY DEF Inserted
<1> HIDE DEF missing, after
<1>4. \A k \in 1 .. Len(missing) : missing[k] \in S
  BY <1>2, ElementOfSeq
<1>5. \A k \in 1 .. Len(missing) : RegistryRow(rows, missing[k]) \in Relation
  BY <1>4, RegistryRowShape
<1>6. new \in Seq(Relation) /\ Len(new) = Len(missing) /\ DOMAIN new = 1 .. Len(missing)
      /\ \A k \in 1 .. Len(missing) : new[k] = RegistryRow(rows, missing[k])
  <2>1. new \in [1 .. Len(missing) -> Relation]
    BY <1>2, <1>5
  <2>2. \A k \in 1 .. Len(missing) : new[k] = RegistryRow(rows, missing[k])
    BY <1>2
  <2> HIDE DEF new
  <2> QED
    BY <1>2, <2>1, <2>2, FunctionIsSeq
<1> HIDE DEF new, S
<1>7. /\ after \in Seq(Relation) /\ Len(after) = Len(rows) + Len(missing)
      /\ DOMAIN rows = 1 .. Len(rows) /\ DOMAIN after = 1 .. Len(after) /\ Len(rows) \in Nat
      /\ \A i \in 1 .. Len(rows) + Len(missing) :
           after[i] = IF i <= Len(rows) THEN rows[i] ELSE new[i - Len(rows)]
  <2>1. /\ after \in Seq(Relation) /\ Len(after) = Len(rows) + Len(new)
        /\ \A i \in 1 .. Len(rows) + Len(new) :
             after[i] = IF i <= Len(rows) THEN rows[i] ELSE new[i - Len(rows)]
    <3>1. rows \in Seq(Relation) /\ new \in Seq(Relation)
      BY <1>6
    <3> QED
      BY <1>3, <3>1, ConcatProperties
  <2> QED
    BY <1>6, <2>1, LenProperties
<1>8. \A i \in DOMAIN rows : i \in DOMAIN after /\ after[i] = rows[i]
  BY <1>2, <1>7
<1>9. ASSUME NEW i \in DOMAIN after \ DOMAIN rows
      PROVE  /\ i - Len(rows) \in 1 .. Len(missing) /\ missing[i - Len(rows)] \in S
             /\ after[i] = RegistryRow(rows, missing[i - Len(rows)])
  <2>1. i - Len(rows) \in 1 .. Len(missing) /\ ~(i <= Len(rows))
        /\ i \in 1 .. Len(rows) + Len(missing)
    BY <1>2, <1>7
  <2> QED
    BY <1>4, <1>6, <1>7, <2>1
<1>10. ASSUME NEW i \in DOMAIN after \ DOMAIN rows, NEW j \in DOMAIN after \ DOMAIN rows,
              SameTriple(after[i], after[j])
       PROVE  i = j
  <2> DEFINE v == missing[i - Len(rows)]
             w == missing[j - Len(rows)]
  <2>1. v \in S /\ w \in S /\ after[i] = RegistryRow(rows, v) /\ after[j] = RegistryRow(rows, w)
    BY <1>9
  <2>2. \A x \in S : x \in [subject : Uri, type : RegistryType \cap RelationType, target : Uri]
    BY ManifestShape DEF S, Missing
  <2> HIDE DEF v, w
  <2>3. v.subject = w.subject /\ v.type = w.type /\ v.target = w.target
    BY <1>10, <2>1 DEF SameTriple, RegistryRow
  <2>4. v = w
    BY <2>1, <2>2, <2>3
  <2>5. i - Len(rows) = j - Len(rows)
    BY <1>2, <1>9, <2>4 DEF v, w
  <2>6. i \in Nat /\ j \in Nat
    BY <1>7
  <2> QED
    BY <1>7, <2>5, <2>6
<1>11. Len(rows) <= Len(after)
  BY <1>2, <1>7
<1>12. \A i \in DOMAIN after \ DOMAIN rows : \E w \in S : after[i] = RegistryRow(rows, w)
  BY <1>9
<1> QED
  BY <1>7, <1>8, <1>10, <1>11, <1>12 DEF InsertedRows, after, S

LEMMA InsertedOneOpen ==
  ASSUME NEW rows \in Seq(Relation), VersionsCounted(rows), OneOpenIn(rows), NEW m \in Manifest,
         NEW after, InsertedRows(rows, m, after)
  PROVE  VersionsCounted(after) /\ OneOpenIn(after)
<1>1. /\ after \in Seq(Relation) /\ Len(after) \in Nat /\ Len(rows) \in Nat
      /\ Len(rows) <= Len(after)
      /\ DOMAIN rows = 1 .. Len(rows) /\ DOMAIN after = 1 .. Len(after)
      /\ \A i \in DOMAIN rows : i \in DOMAIN after /\ after[i] = rows[i]
      /\ \A i \in DOMAIN rows : rows[i] \in Relation
  BY LenProperties DEF InsertedRows
<1>2. ASSUME NEW i \in DOMAIN after \ DOMAIN rows
      PROVE  /\ after[i].open /\ after[i].type \in RegistryType
             /\ after[i].state = RegistryState(after[i].type)
             /\ after[i].version \in 1 .. Len(rows) + 1
             /\ \A k \in DOMAIN rows : SameTriple(rows[k], after[i]) =>
                  /\ rows[k].version < after[i].version
                  /\ rows[k].open => rows[k].state # after[i].state
  <2>1. PICK w \in Missing(rows, m) : after[i] = RegistryRow(rows, w)
    BY DEF InsertedRows
  <2> QED
    BY <2>1, RegistryRowShape
<1>3. VersionsCounted(after)
  <2> SUFFICES ASSUME NEW i \in DOMAIN after PROVE after[i].version <= Len(after)
    BY DEF VersionsCounted
  <2>1. CASE i \in DOMAIN rows
    <3>1. rows[i].version \in Nat /\ rows[i].version <= Len(rows) /\ after[i] = rows[i]
      BY <1>1, <2>1 DEF VersionsCounted, Relation
    <3> QED
      BY <1>1, <3>1
  <2>2. CASE i \notin DOMAIN rows
    <3>1. after[i].version \in 1 .. Len(rows) + 1
      BY <1>2, <2>2
    <3>2. Len(rows) + 1 <= Len(after)
      BY <1>1, <2>2
    <3> QED
      BY <1>1, <3>1, <3>2
  <2> QED
    BY <2>1, <2>2
<1>4. ASSUME NEW i \in DOMAIN after, NEW j \in DOMAIN after, i # j,
             SameTriple(after[i], after[j])
      PROVE  /\ after[i].version # after[j].version
             /\ after[i].open /\ after[i].version < after[j].version =>
                  /\ after[j].open =>
                       /\ after[i].type \in RegistryType
                       /\ after[i].state # RegistryState(after[i].type)
                       /\ after[j].state \in {RegistryState(after[j].type), "confirmed"}
                  /\ ~after[j].open =>
                       after[i].type = "MAY_INCLUDE_WORKSPACE" /\ after[j].superseded
  <2>0. after[i].version \in Nat /\ after[j].version \in Nat /\ SameTriple(after[j], after[i])
    <3>1. after[i] \in Relation /\ after[j] \in Relation
      BY <1>1
    <3> QED
      BY <1>4, <3>1 DEF Relation, SameTriple
  <2>1. CASE i \in DOMAIN rows /\ j \in DOMAIN rows
    <3>1. after[i] = rows[i] /\ after[j] = rows[j] /\ SameTriple(rows[i], rows[j])
      BY <1>1, <1>4, <2>1
    <3> QED
      BY <1>4, <2>1, <3>1 DEF OneOpenIn
  <2>2. CASE i \in DOMAIN rows /\ j \notin DOMAIN rows
    <3>1. after[i] = rows[i]
      BY <1>1, <2>2
    <3>2. /\ after[j].open /\ after[j].type \in RegistryType
          /\ after[j].state = RegistryState(after[j].type)
          /\ rows[i].version < after[j].version
          /\ rows[i].open => rows[i].state # after[j].state
      BY <1>2, <1>4, <2>2, <3>1
    <3>3. after[i].type = after[j].type
      BY <1>4 DEF SameTriple
    <3> QED
      BY <2>0, <3>1, <3>2, <3>3
  <2>3. CASE i \notin DOMAIN rows /\ j \in DOMAIN rows
    <3>1. after[j] = rows[j]
      BY <1>1, <2>3
    <3>2. rows[j].version < after[i].version
      BY <1>2, <2>0, <2>3, <3>1
    <3> QED
      BY <2>0, <3>1, <3>2
  <2>4. CASE i \notin DOMAIN rows /\ j \notin DOMAIN rows
    BY <1>4, <2>4 DEF InsertedRows
  <2> QED
    BY <2>1, <2>2, <2>3, <2>4
<1> QED
  BY <1>3, <1>4 DEF OneOpenIn

LEMMA ReconciledEndpoints ==
  ASSUME NEW rows \in Seq(Relation), VersionsCounted(rows), NEW m \in Manifest,
         NEW objs \in [Uri -> Object], EndpointsIn(objs, rows)
  PROVE  /\ Reconciled(objs, m) \in [Uri -> Object]
         /\ EndpointsIn(Reconciled(objs, m), Superseded(rows, m))
<1> DEFINE after == Reconciled(objs, m)
           confirmed(u) == [state |-> "confirmed", project |-> m.ensured[u]]
           rejected(u) == [objs[u] EXCEPT !.state = "rejected"]
<1>1. \A u \in Uri :
        /\ u \in DOMAIN m.ensured => confirmed(u) \in Object
        /\ rejected(u) \in Object /\ objs[u] \in Object
  <2>1. \A u \in Uri : objs[u] \in Object
    OBVIOUS
  <2>2. \A u \in DOMAIN m.ensured : m.ensured[u] \in Project
    BY ManifestShape
  <2> QED
    BY <2>1, <2>2 DEF Object
<1>2. after = [u \in Uri |->
                 IF u \in DOMAIN m.ensured THEN confirmed(u)
                 ELSE IF \E rule \in m.supersede : rule.object = u THEN rejected(u) ELSE objs[u]]
  BY DEF Reconciled
<1>3. after \in [Uri -> Object]
  <2> HIDE DEF confirmed, rejected
  <2> QED
    BY <1>1, <1>2
<1>4. \A u \in Uri :
        /\ u \in DOMAIN m.ensured => after[u].state = "confirmed"
        /\ u \notin DOMAIN m.ensured /\ (\A rule \in m.supersede : rule.object # u) =>
             after[u] = objs[u]
  BY <1>2
<1> HIDE DEF after
<1>5. Narrowed(rows, Superseded(rows, m), EndedRows(rows, m))
  BY SupersededShape
<1>6. ASSUME NEW i \in Current(rows), NEW v \in Uri, i \notin EndedRows(rows, m),
             Touches(rows[i], v)
      PROVE  /\ after[v].state = "rejected" => objs[v].state = "rejected"
             /\ objs[v].state = "confirmed" => after[v].state = "confirmed"
  <2>1. \A rule \in m.supersede : rule.object # v
    BY <1>6 DEF EndedRows, Ended, Current
  <2> QED
    BY <1>4, <2>1
<1>7. EndpointsIn(after, Superseded(rows, m))
  BY <1>5, <1>6, NarrowedEndpoints
<1> QED
  BY <1>3, <1>7 DEF after

LEMMA InsertedEndpoints ==
  ASSUME NEW rows \in Seq(Relation), VersionsCounted(rows), NEW m \in Manifest,
         NEW objs, EndpointsIn(objs, rows),
         \A u \in DOMAIN m.ensured : objs[u].state = "confirmed",
         NEW after, InsertedRows(rows, m, after)
  PROVE  EndpointsIn(objs, after)
<1> SUFFICES ASSUME NEW i \in Current(after), NEW v \in Uri, Touches(after[i], v)
             PROVE  /\ objs[v].state # "rejected"
                    /\ after[i].state = "confirmed" => objs[v].state = "confirmed"
  BY DEF EndpointsIn
<1>1. CASE i \in DOMAIN rows
  <2>1. after[i] = rows[i] /\ i \in Current(rows)
    BY <1>1 DEF InsertedRows, Current
  <2> QED
    BY <2>1 DEF EndpointsIn
<1>2. CASE i \notin DOMAIN rows
  <2>1. PICK w \in Missing(rows, m) : after[i] = RegistryRow(rows, w)
    BY <1>2 DEF InsertedRows, Current
  <2>2. w \in m.relations /\ v \in {w.subject, w.target}
    BY <2>1 DEF Missing, RegistryRow, Touches
  <2>3. v \in DOMAIN m.ensured
    BY <2>2, ManifestShape
  <2> QED
    BY <2>3
<1> QED
  BY <1>1, <1>2

\* The journal's account of the rows, after both.
LEMMA RegistryAuthority ==
  ASSUME NEW rows \in Seq(Relation), NEW m \in Manifest, NEW journal, AuthorityIn(rows, journal),
         NEW closed, Narrowed(rows, closed, EndedRows(rows, m)), VersionsCounted(closed),
         NEW after, InsertedRows(closed, m, after)
  PROVE  AuthorityIn(after, journal)
<1> SUFFICES ASSUME NEW i \in Current(after), after[i].state = "confirmed"
             PROVE  ByRegistry(after[i]) \/ Stands(after[i], journal)
  BY DEF AuthorityIn
<1>1. closed \in Seq(Relation)
  BY DEF Narrowed
<1>2. CASE i \in DOMAIN closed
  <2>1. after[i] = closed[i] /\ closed[i].open
    BY <1>2 DEF InsertedRows, Current
  <2>2. i \in DOMAIN rows /\ rows[i].open /\ closed[i] = rows[i]
    BY <1>2, <2>1 DEF Narrowed
  <2> QED
    BY <2>1, <2>2 DEF AuthorityIn, Current
<1>3. CASE i \notin DOMAIN closed
  <2>1. PICK w \in Missing(closed, m) : after[i] = RegistryRow(closed, w)
    BY <1>3 DEF InsertedRows, Current
  <2>2. after[i].source = "registry" /\ after[i].state = RegistryState(after[i].type)
    BY <1>1, <2>1, RegistryRowShape
  <2> QED
    BY <2>2 DEF ByRegistry
<1> QED
  BY <1>2, <1>3

LEMMA InsertedExplained ==
  ASSUME NEW rows \in Seq(Relation), VersionsCounted(rows), NEW m \in Manifest,
         NEW after, InsertedRows(rows, m, after), NEW e, Explained(rows, e)
  PROVE  Explained(after, e)
<1>1. /\ \A i \in DOMAIN rows : i \in DOMAIN after /\ after[i] = rows[i]
      /\ \A i \in DOMAIN after \ DOMAIN rows :
           after[i].open /\ after[i].source = "registry" /\ after[i].type \in RegistryType
  <2>1. ASSUME NEW i \in DOMAIN after \ DOMAIN rows
        PROVE  after[i].open /\ after[i].source = "registry" /\ after[i].type \in RegistryType
    <3>1. PICK w \in Missing(rows, m) : after[i] = RegistryRow(rows, w)
      BY DEF InsertedRows
    <3> QED
      BY <3>1, RegistryRowShape
  <2> QED
    BY <2>1 DEF InsertedRows
<1>2. ASSUME e.op = "retract", NEW i \in OpenRows(after, e)
      PROVE  after[i].source = "registry" /\ after[i].type \in RegistryType
  <2>1. CASE i \in DOMAIN rows
    <3>1. i \in OpenRows(rows, e) /\ after[i] = rows[i]
      BY <1>1, <2>1 DEF OpenRows
    <3> QED
      BY <1>2, <3>1 DEF Explained
  <2>2. CASE i \notin DOMAIN rows
    BY <1>1, <2>2 DEF OpenRows
  <2> QED
    BY <2>1, <2>2
<1>3. ASSUME e.op = "assert", OpenRows(after, e) = {}
      PROVE  \E i \in RowsOf(after, e) :
               /\ after[i].superseded
               /\ \A j \in RowsOf(after, e) : after[j].version <= after[i].version
  <2>1. OpenRows(rows, e) = {}
    BY <1>1, <1>3 DEF OpenRows
  <2>2. RowsOf(after, e) = RowsOf(rows, e) /\ \A i \in RowsOf(rows, e) : after[i] = rows[i]
    BY <1>1, <1>3 DEF RowsOf, OpenRows
  <2>3. PICK i \in RowsOf(rows, e) :
          rows[i].superseded /\ \A j \in RowsOf(rows, e) : rows[j].version <= rows[i].version
    BY <1>3, <2>1 DEF Explained
  <2> QED
    BY <2>2, <2>3
<1> QED
  BY <1>2, <1>3 DEF Explained

\* The registry's step, on tables that are as they should be.
LEMMA ReconciledTables ==
  ASSUME NEW objs, NEW rows, NEW journal, RowsInv(objs, rows), JournalInv(rows, journal),
         NEW m \in Manifest
  PROVE  /\ RowsInv(Reconciled(objs, m), Inserted(Superseded(rows, m), m))
         /\ JournalInv(Inserted(Superseded(rows, m), m), journal)
<1> DEFINE kept == Reconciled(objs, m)
           closed == Superseded(rows, m)
           after == Inserted(closed, m)
<1>1. /\ objs \in [Uri -> Object] /\ rows \in Seq(Relation) /\ journal \in Journal
      /\ VersionsCounted(rows) /\ OneOpenIn(rows) /\ EndpointsIn(objs, rows)
      /\ AuthorityIn(rows, journal) /\ HistoryIn(rows, journal)
  BY DEF RowsInv, JournalInv
<1>2. Narrowed(rows, closed, EndedRows(rows, m)) /\ closed \in Seq(Relation)
  BY <1>1, SupersededShape DEF Narrowed
<1>3. VersionsCounted(closed) /\ OneOpenIn(closed)
  BY <1>1, SupersededOneOpen
<1>4. kept \in [Uri -> Object] /\ EndpointsIn(kept, closed)
  BY <1>1, ReconciledEndpoints
<1>5. \A u \in DOMAIN m.ensured : kept[u].state = "confirmed"
  BY ManifestShape DEF Reconciled
<1>6. ASSUME NEW n \in DOMAIN journal,
             \A k \in n + 1 .. Len(journal) :
               ~SameTriple(journal[k].effect, journal[n].effect)
      PROVE  Explained(closed, journal[n].effect)
  <2>1. Explained(rows, journal[n].effect)
    BY <1>1, <1>6 DEF HistoryIn
  <2> QED
    BY <1>1, <2>1, SupersededExplained
<1> HIDE DEF kept, closed
<1>7. InsertedRows(closed, m, after) /\ after \in Seq(Relation)
  BY <1>2, <1>3, InsertedShape DEF InsertedRows
<1> HIDE DEF after
<1>8. VersionsCounted(after) /\ OneOpenIn(after)
  BY <1>2, <1>3, <1>7, InsertedOneOpen
<1>9. EndpointsIn(kept, after)
  BY <1>2, <1>3, <1>4, <1>5, <1>7, InsertedEndpoints
<1>10. AuthorityIn(after, journal)
  BY <1>1, <1>2, <1>3, <1>7, RegistryAuthority
<1>11. HistoryIn(after, journal)
  <2> SUFFICES ASSUME NEW n \in DOMAIN journal,
                      \A k \in n + 1 .. Len(journal) :
                        ~SameTriple(journal[k].effect, journal[n].effect)
               PROVE  Explained(after, journal[n].effect)
    BY DEF HistoryIn
  <2>1. Explained(closed, journal[n].effect)
    BY <1>6
  <2> QED
    BY <1>2, <1>3, <1>7, <2>1, InsertedExplained
<1>12. RowsInv(kept, after) /\ JournalInv(after, journal)
  BY <1>1, <1>4, <1>7, <1>8, <1>9, <1>10, <1>11 DEF RowsInv, JournalInv
<1> QED
  BY <1>12 DEF kept, closed, after

-----------------------------------------------------------------------------
(* The invariant *)

\* Every line of the journal belongs to an activity there is.
LinesKnown(journal, acts) ==
  \A n \in DOMAIN journal : journal[n].activity \in 1 .. Len(acts)

\* The journal has the effects of each activity in one piece.
WrittenWhole(journal, acts) ==
  \A a \in DOMAIN acts :
    \E k \in 0 .. Len(journal) :
      /\ {n \in DOMAIN journal : journal[n].activity = a} = k + 1 .. k + Len(acts[a].effects)
      /\ \A i \in DOMAIN acts[a].effects : journal[k + i].effect = acts[a].effects[i]

KeysOnce(acts) ==
  \A a, b \in DOMAIN acts : acts[a].key = acts[b].key /\ a # b => acts[a].key = NoKey

CommittedInv ==
  /\ RowsInv(objects, relations) /\ JournalInv(relations, effects)
  /\ LinesKnown(effects, activities)
  /\ WrittenWhole(effects, activities) /\ KeysOnce(activities)

\* The client that applies its effects holds the lock.
LockInv ==
  /\ holder = Nobody => next = 1
  /\ \A c \in Client : phase[c] = "applying" <=> holder = c

\* While it does, what it has found when it was accepted still holds.
StillAccepted(c) ==
  /\ Prior(c) = {} /\ GuardHolds(request[c])
  /\ \A i \in DOMAIN request[c].effects :
       request[c].effects[i].state = "confirmed" =>
         request[c].effects[i].authority # "agent_inference"

\* Its draft is sound, and is the committed journal with its first effects.
DraftOf(c) ==
  /\ RowsInv(draft.objects, draft.relations)
  /\ JournalInv(draft.relations, draft.effects)
  /\ next \in 1 .. Len(request[c].effects) + 1
  /\ Len(draft.effects) = Len(effects) + (next - 1)
  /\ \A n \in DOMAIN effects : draft.effects[n] = effects[n]
  /\ \A i \in 1 .. next - 1 :
       draft.effects[Len(effects) + i] =
         [activity |-> Len(activities) + 1, effect |-> request[c].effects[i]]

DraftInv == \A c \in Client : holder = c => StillAccepted(c) /\ DraftOf(c)

\* A client that reads on has no answer any more.
AnswersInv ==
  /\ AnswersAreTrue
  /\ \A c \in Client : phase[c] \in {"idle", "read"} => answer[c] = "none"

OntologyInv == TypeOK /\ CommittedInv /\ LockInv /\ DraftInv /\ AnswersInv

LEMMA EmptyTables ==
  /\ RowsInv([u \in Uri |-> NoObject], << >>)
  /\ JournalInv(<< >>, << >>)
  /\ NoDraft \in Tables /\ << >> \in Journal
<1>1. NoObject \in Object /\ NoObject.state = "none"
  BY DEF NoObject, Object
<1>2. [u \in Uri |-> NoObject] \in [Uri -> Object]
  BY <1>1
<1>3. /\ << >> \in Seq(Relation) /\ << >> \in Journal
      /\ DOMAIN << >> = {} /\ Current(<< >>) = {}
  BY DEF Journal, Current
<1>4. RowsInv([u \in Uri |-> NoObject], << >>)
  BY <1>2, <1>3 DEF RowsInv, VersionsCounted, OneOpenIn, EndpointsIn
<1>5. JournalInv(<< >>, << >>)
  BY <1>3 DEF JournalInv, AuthorityIn, HistoryIn
<1> QED
  BY <1>2, <1>3, <1>4, <1>5 DEF NoDraft, Tables

LEMMA NoRequestIsRequest == NoRequest \in Request
<1>1. (CHOOSE s \in Session : TRUE) \in Session
  BY ConstantAssumption
<1> QED
  BY <1>1 DEF NoRequest, Request

LEMMA InitOntology == Init => OntologyInv
<1> SUFFICES ASSUME Init PROVE OntologyInv
  OBVIOUS
<1>1. TypeOK
  <2>1. << >> \in Seq(Request)
    OBVIOUS
  <2> QED
    BY <2>1, EmptyTables, NoRequestIsRequest DEF Init, TypeOK, NoDraft
<1>2. CommittedInv
  <2>1. DOMAIN << >> = {}
    OBVIOUS
  <2>2. LinesKnown(<< >>, << >>) /\ WrittenWhole(<< >>, << >>) /\ KeysOnce(<< >>)
    BY <2>1 DEF LinesKnown, WrittenWhole, KeysOnce
  <2> QED
    BY <2>2, EmptyTables DEF Init, CommittedInv
<1>3. LockInv /\ DraftInv
  BY ConstantAssumption DEF Init, LockInv, DraftInv
<1>4. AnswersInv
  BY DEF Init, AnswersInv, AnswersAreTrue
<1> QED
  BY <1>1, <1>2, <1>3, <1>4 DEF OntologyInv

-----------------------------------------------------------------------------
(* Steps that change neither the tables nor the draft *)

\* One client moves on, without the lock, and what it is told is true.
ClientStep(c, to, req, saw, said) ==
  /\ UNCHANGED <<committed, transaction>>
  /\ phase[c] # "applying" /\ to \in {"idle", "read", "sent", "auditing", "answered"}
  /\ phase' = [phase EXCEPT ![c] = to]
  /\ req \in Request /\ request' = [request EXCEPT ![c] = req]
  /\ saw \in SUBSET Nat /\ seen' = [seen EXCEPT ![c] = saw]
  /\ said \in {"none", "applied", "duplicate", "conflict", "rejected", "error"}
  /\ answer' = [answer EXCEPT ![c] = said]
  /\ audited' \subseteq Client /\ audited \subseteq audited' \cup {c}
  /\ said \in {"applied", "duplicate"} => \E a \in DOMAIN activities : activities[a] = req
  /\ said = "rejected" => c \in audited'
  /\ to \in {"idle", "read"} => said = "none"

LEMMA ClientStepInv ==
  ASSUME OntologyInv, NEW c \in Client, NEW to, NEW req, NEW saw, NEW said,
         ClientStep(c, to, req, saw, said)
  PROVE  OntologyInv'
<1>1. /\ TypeOK /\ CommittedInv /\ LockInv /\ DraftInv /\ AnswersInv
      /\ UNCHANGED <<objects, relations, effects, activities, holder, draft, next>>
  BY DEF OntologyInv, ClientStep, committed, transaction
<1>2. /\ phase \in [Client -> {"idle", "read", "sent", "applying", "auditing", "answered"}]
      /\ request \in [Client -> Request] /\ seen \in [Client -> SUBSET Nat]
      /\ answer \in [Client -> {"none", "applied", "duplicate", "conflict", "rejected", "error"}]
  BY <1>1 DEF TypeOK
<1>3. /\ \A o \in Client \ {c} : phase'[o] = phase[o] /\ request'[o] = request[o]
                                 /\ answer'[o] = answer[o]
      /\ phase'[c] = to /\ request'[c] = req /\ answer'[c] = said
  BY <1>2 DEF ClientStep
<1>4. TypeOK'
  BY <1>1, <1>2 DEF TypeOK, ClientStep
<1>5. CommittedInv'
  BY <1>1 DEF CommittedInv
<1>6. LockInv'
  BY <1>1, <1>3 DEF LockInv, ClientStep
<1>7. holder # c
  BY <1>1 DEF LockInv, ClientStep
<1>8. DraftInv'
  <2> SUFFICES ASSUME NEW o \in Client, holder = o PROVE StillAccepted(o)' /\ DraftOf(o)'
    BY <1>1 DEF DraftInv
  <2>1. request'[o] = request[o] /\ StillAccepted(o) /\ DraftOf(o)
    BY <1>1, <1>3, <1>7 DEF DraftInv
  <2>2. StillAccepted(o)'
    BY <1>1, <2>1 DEF StillAccepted, Prior, GuardHolds
  <2>3. DraftOf(o)'
    BY <1>1, <2>1 DEF DraftOf
  <2> QED
    BY <2>2, <2>3
<1>9. AnswersInv'
  <2> SUFFICES ASSUME NEW o \in Client
               PROVE  /\ answer'[o] \in {"applied", "duplicate"} =>
                           \E a \in DOMAIN activities' : activities'[a] = request'[o]
                      /\ answer'[o] = "rejected" => o \in audited'
                      /\ phase'[o] \in {"idle", "read"} => answer'[o] = "none"
    BY DEF AnswersInv, AnswersAreTrue
  <2>1. CASE o = c
    BY <1>1, <1>3, <2>1 DEF ClientStep
  <2>2. CASE o # c
    BY <1>1, <1>3, <2>2 DEF ClientStep, AnswersInv, AnswersAreTrue
  <2> QED
    BY <2>1, <2>2
<1> QED
  BY <1>4, <1>5, <1>6, <1>8, <1>9 DEF OntologyInv

LEMMA KeptRequest ==
  ASSUME TypeOK, NEW c \in Client
  PROVE  /\ request[c] \in Request /\ seen[c] \in SUBSET Nat
         /\ request = [request EXCEPT ![c] = request[c]] /\ seen = [seen EXCEPT ![c] = seen[c]]
         /\ answer[c] \in {"none", "applied", "duplicate", "conflict", "rejected", "error"}
         /\ answer = [answer EXCEPT ![c] = answer[c]]
         /\ audited \subseteq Client /\ DOMAIN activities = 1 .. Len(activities)
         /\ relations \in Seq(Relation)
BY DEF TypeOK, Tables

LEMMA SubmitInv ==
  ASSUME OntologyInv, NEW c \in Client, NEW s \in Session, NEW k \in Key \cup {NoKey},
         NEW g \in Guards(c), NEW b \in Batch,
         Submit(c, [session |-> s, key |-> k, guard |-> g, effects |-> b])
  PROVE  OntologyInv'
<1> DEFINE req == [session |-> s, key |-> k, guard |-> g, effects |-> b]
<1>1. TypeOK /\ answer[c] = "none"
  BY DEF OntologyInv, AnswersInv, Submit
<1>2. g \in {NoGuard} \cup [subject : Uri, expected : SUBSET Nat]
  <2>1. CASE g = NoGuard
    BY <2>1
  <2>2. CASE g # NoGuard
    <3>1. PICK u \in Guarded :
            g = [subject |-> u, expected |-> {i \in seen[c] : relations[i].subject = u}]
      BY <2>2 DEF Guards
    <3>2. u \in Uri /\ {i \in seen[c] : relations[i].subject = u} \in SUBSET Nat
      BY <1>1, ConstantAssumption, KeptRequest
    <3> QED
      BY <3>1, <3>2
  <2> QED
    BY <2>1, <2>2
<1>3. req \in Request
  BY <1>2 DEF Request
<1> HIDE DEF req
<1>4. ClientStep(c, "sent", req, {}, answer[c])
  BY <1>1, <1>3, KeptRequest DEF Submit, GoTo, ClientStep, transaction, req
<1> QED
  BY <1>4, ClientStepInv

LEMMA ReadInv ==
  ASSUME OntologyInv, NEW c \in Client, Read(c)
  PROVE  OntologyInv'
<1>1. TypeOK
  BY DEF OntologyInv
<1>2. Current(relations) \in SUBSET Nat
  <2>1. DOMAIN relations = 1 .. Len(relations) /\ Len(relations) \in Nat
    BY <1>1, KeptRequest, LenProperties
  <2> QED
    BY <2>1 DEF Current
<1>3. ClientStep(c, "read", NoRequest, Current(relations), "none")
  BY <1>1, <1>2, KeptRequest, NoRequestIsRequest DEF Read, GoTo, ClientStep
<1> QED
  BY <1>3, ClientStepInv

LEMMA ResendInv ==
  ASSUME OntologyInv, NEW c \in Client, Resend(c)
  PROVE  OntologyInv'
<1>1. TypeOK
  BY DEF OntologyInv
<1>2. ClientStep(c, "sent", request[c], seen[c], "none")
  BY <1>1, KeptRequest DEF Resend, GoTo, ClientStep
<1> QED
  BY <1>2, ClientStepInv

LEMMA AnsweredInv ==
  ASSUME OntologyInv, NEW c \in Client,
         \/ AnswerRetry(c) \/ RefuseGuard(c) \/ Reject(c) \/ AuditRejection(c)
         \/ LoseAudit(c) \/ (Abort(c) /\ phase[c] = "sent")
  PROVE  OntologyInv'
<1> DEFINE Step(to, said) == ClientStep(c, to, request[c], seen[c], said)
<1>1. TypeOK /\ AnswersAreTrue
  BY DEF OntologyInv, AnswersInv
<1>2. CASE AnswerRetry(c)
  <2>1. ASSUME \A a \in Prior(c) : SameRequest(c, a)
        PROVE  \E a \in DOMAIN activities : activities[a] = request[c]
    BY <1>2, <2>1 DEF AnswerRetry, Prior, SameRequest
  <2>2. \E said \in {"duplicate", "conflict"} : Step("answered", said)
    BY <1>1, <1>2, <2>1, KeptRequest
       DEF AnswerRetry, Respond, GoTo, Locked, ClientStep
  <2> QED
    BY <2>2, ClientStepInv
<1>3. CASE RefuseGuard(c)
  <2>1. Step("answered", "conflict")
    BY <1>1, <1>3, KeptRequest DEF RefuseGuard, Respond, GoTo, Locked, ClientStep
  <2> QED
    BY <2>1, ClientStepInv
<1>4. CASE Reject(c)
  <2>1. Step("auditing", answer[c])
    BY <1>1, <1>4, KeptRequest DEF Reject, GoTo, Locked, ClientStep, AnswersAreTrue
  <2> QED
    BY <2>1, ClientStepInv
<1>5. CASE AuditRejection(c)
  <2>1. Step("answered", "rejected")
    BY <1>1, <1>5, KeptRequest DEF AuditRejection, Respond, GoTo, ClientStep
  <2> QED
    BY <2>1, ClientStepInv
<1>6. CASE LoseAudit(c)
  <2>1. Step("answered", "error")
    BY <1>1, <1>6, KeptRequest DEF LoseAudit, Respond, GoTo, ClientStep
  <2> QED
    BY <2>1, ClientStepInv
<1>7. CASE Abort(c) /\ phase[c] = "sent"
  <2>1. Step("answered", "error")
    BY <1>1, <1>7, KeptRequest DEF Abort, Respond, GoTo, ClientStep
  <2> QED
    BY <2>1, ClientStepInv
<1> QED
  BY <1>2, <1>3, <1>4, <1>5, <1>6, <1>7

-----------------------------------------------------------------------------
(* The transaction *)

\* What a step of the client that answers or takes the lock leaves as it is.
LEMMA PhaseKept ==
  ASSUME TypeOK, NEW c \in Client, NEW to, phase' = [phase EXCEPT ![c] = to]
  PROVE  phase'[c] = to /\ \A o \in Client \ {c} : phase'[o] = phase[o]
BY DEF TypeOK

LEMMA RequestEffects ==
  ASSUME TypeOK, NEW c \in Client
  PROVE  LET es == request[c].effects IN
         /\ es \in Seq(Effect) /\ Len(es) \in Nat /\ DOMAIN es = 1 .. Len(es)
         /\ \A i \in DOMAIN es : es[i] \in Effect
         /\ ProjectOf[request[c].session] \in Projects
<1>1. request[c] \in Request
  BY KeptRequest
<1>2. request[c].effects \in Batch \cup {<< >>} /\ request[c].session \in Session
  BY <1>1 DEF Request
<1>3. << >> \in Seq(Effect) /\ Batch \subseteq Seq(Effect)
  BY ConstantAssumption
<1>4. request[c].effects \in Seq(Effect)
  BY <1>2, <1>3
<1> QED
  BY <1>2, <1>4, ConstantAssumption, LenProperties, ElementOfSeq DEF Projects

LEMMA AcceptInv ==
  ASSUME OntologyInv, NEW c \in Client, Accept(c)
  PROVE  OntologyInv'
<1>1. /\ TypeOK /\ CommittedInv /\ LockInv /\ DraftInv /\ AnswersInv
      /\ holder = Nobody /\ next = 1 /\ holder' = c
      /\ UNCHANGED <<objects, relations, effects, activities, audited, next, request, seen, answer>>
      /\ draft' = [objects |-> objects, relations |-> relations, effects |-> effects]
      /\ phase' = [phase EXCEPT ![c] = "applying"] /\ phase[c] = "sent"
  BY DEF OntologyInv, LockInv, Accept, Locked, GoTo, committed
<1>2. phase'[c] = "applying" /\ \A o \in Client \ {c} : phase'[o] = phase[o]
  BY <1>1, PhaseKept
<1>3. TypeOK'
  BY <1>1 DEF TypeOK
<1>4. CommittedInv'
  BY <1>1 DEF CommittedInv
<1>5. LockInv'
  BY <1>1, <1>2, ConstantAssumption DEF LockInv
<1>6. StillAccepted(c)'
  <2>1. Prior(c)' = Prior(c) /\ (GuardHolds(request[c])' <=> GuardHolds(request[c]))
    BY <1>1 DEF Prior, GuardHolds
  <2> QED
    BY <1>1, <2>1 DEF Accept, Governed, Allowed, StillAccepted
<1>7. DraftOf(c)'
  <2>1. Len(request[c].effects) \in Nat /\ Len(effects) \in Nat
    BY <1>1, RequestEffects, LenProperties DEF TypeOK, Tables, Journal
  <2> QED
    BY <1>1, <2>1 DEF DraftOf, CommittedInv
<1>8. DraftInv'
  BY <1>1, <1>6, <1>7 DEF DraftInv
<1>9. AnswersInv'
  BY <1>1, <1>2 DEF AnswersInv, AnswersAreTrue
<1> QED
  BY <1>3, <1>4, <1>5, <1>8, <1>9 DEF OntologyInv

LEMMA RegistryInv ==
  ASSUME OntologyInv, NEW m \in Manifest, Reconcile(m)
  PROVE  OntologyInv'
<1>1. /\ TypeOK /\ CommittedInv /\ LockInv /\ DraftInv /\ AnswersInv /\ holder = Nobody
      /\ UNCHANGED <<effects, activities, audited, holder, draft, next, phase, request, seen,
                     answer>>
      /\ objects' = Reconciled(objects, m)
      /\ relations' = Inserted(Superseded(relations, m), m)
  BY DEF OntologyInv, Reconcile, transaction, clients
<1>2. RowsInv(objects', relations') /\ JournalInv(relations', effects')
  <2>1. RowsInv(objects, relations) /\ JournalInv(relations, effects)
    BY <1>1 DEF CommittedInv
  <2>2. /\ RowsInv(Reconciled(objects, m), Inserted(Superseded(relations, m), m))
        /\ JournalInv(Inserted(Superseded(relations, m), m), effects)
    BY <2>1, ReconciledTables
  <2> QED
    BY <1>1, <2>2
<1>3. CommittedInv'
  BY <1>1, <1>2 DEF CommittedInv
<1>4. TypeOK'
  BY <1>1, <1>2 DEF TypeOK, Tables, RowsInv, JournalInv
<1>5. LockInv' /\ AnswersInv'
  BY <1>1 DEF LockInv, AnswersInv, AnswersAreTrue
<1>6. DraftInv'
  BY <1>1, ConstantAssumption DEF DraftInv
<1> QED
  BY <1>3, <1>4, <1>5, <1>6 DEF OntologyInv

LEMMA ApplyEffectInv ==
  ASSUME OntologyInv, NEW c \in Client, ApplyEffect(c)
  PROVE  OntologyInv'
<1> DEFINE e == request[c].effects[next]
           p == ProjectOf[request[c].session]
           a == Len(activities) + 1
<1>1. /\ TypeOK /\ CommittedInv /\ LockInv /\ DraftInv /\ AnswersInv
      /\ UNCHANGED <<objects, relations, effects, activities, audited, holder, phase, request,
                     seen, answer>>
      /\ phase[c] = "applying" /\ next \in DOMAIN request[c].effects /\ next' = next + 1
      /\ \A u \in {e.subject, e.target} : draft.objects[u].state # "rejected"
      /\ draft' = Applied(draft, e, p, a)
  BY DEF OntologyInv, ApplyEffect, committed, clients
<1>2. /\ holder = c /\ StillAccepted(c) /\ DraftOf(c)
  BY <1>1 DEF LockInv, DraftInv
<1>3. /\ request[c].effects \in Seq(Effect) /\ Len(request[c].effects) \in Nat
      /\ next \in 1 .. Len(request[c].effects) /\ e \in Effect /\ p \in Projects
      /\ a \in Nat /\ Len(effects) \in Nat /\ DOMAIN effects = 1 .. Len(effects)
      /\ e.state = "confirmed" => e.authority # "agent_inference"
  <2>1. Len(activities) \in Nat /\ Len(effects) \in Nat /\ DOMAIN effects = 1 .. Len(effects)
    BY <1>1, LenProperties DEF TypeOK, Tables, Journal
  <2> QED
    BY <1>1, <1>2, <2>1, RequestEffects DEF StillAccepted
<1> HIDE DEF e, p, a
<1> DEFINE drafted == [objects |-> draft.objects, relations |-> draft.relations,
                       effects |-> draft.effects]
<1>4. /\ draft'.effects = Append(draft.effects, [activity |-> a, effect |-> e])
      /\ draft'.objects = Applied(drafted, e, p, a).objects
      /\ draft'.relations = Applied(drafted, e, p, a).relations
      /\ draft'.effects = Applied(drafted, e, p, a).effects
      /\ draft' = [objects |-> draft'.objects, relations |-> draft'.relations,
                   effects |-> draft'.effects]
  BY <1>1 DEF Applied
<1>5. RowsInv(draft'.objects, draft'.relations)
      /\ JournalInv(draft'.relations, draft'.effects)
  <2>1. RowsInv(draft.objects, draft.relations)
        /\ JournalInv(draft.relations, draft.effects)
    BY <1>2 DEF DraftOf
  <2>2. LET d == Applied(drafted, e, p, a) IN
        RowsInv(d.objects, d.relations) /\ JournalInv(d.relations, d.effects)
    BY <1>1, <1>3, <2>1, AppliedTables
  <2> HIDE DEF drafted
  <2> QED
    BY <1>4, <2>2
<1>6. TypeOK'
  <2>1. draft' \in Tables
    BY <1>4, <1>5 DEF RowsInv, JournalInv, Tables
  <2> QED
    BY <1>1, <2>1 DEF TypeOK
<1>7. CommittedInv' /\ LockInv' /\ AnswersInv'
  <2>1. CommittedInv'
    BY <1>1 DEF CommittedInv
  <2>2. LockInv'
    BY <1>1, <1>2, ConstantAssumption DEF LockInv
  <2>3. AnswersInv'
    BY <1>1 DEF AnswersInv, AnswersAreTrue
  <2> QED
    BY <2>1, <2>2, <2>3
<1>8. DraftOf(c)'
  <2> DEFINE last == Len(effects) + next
  <2>1. /\ draft.effects \in Journal /\ Len(draft.effects) = Len(effects) + (next - 1)
        /\ \A n \in DOMAIN effects : draft.effects[n] = effects[n]
        /\ \A i \in 1 .. next - 1 :
             draft.effects[Len(effects) + i] = [activity |-> a, effect |-> request[c].effects[i]]
    BY <1>2 DEF DraftOf, JournalInv, a
  <2>2. Extended(draft.effects, e, draft'.effects)
        /\ draft'.effects[Len(draft.effects) + 1] = [activity |-> a, effect |-> e]
    <3> DEFINE line == [activity |-> a, effect |-> e]
    <3>1. line \in [activity : Nat, effect : Effect]
      BY <1>3
    <3>2. Extended(draft.effects, e, draft'.effects)
      BY <1>3, <1>4, <2>1, ExtendedShape
    <3> HIDE DEF line
    <3>3. draft'.effects[Len(draft.effects) + 1] = line
      BY <1>4, <2>1, <3>1, AppendProperties DEF Journal, line
    <3> QED
      BY <3>2, <3>3 DEF line
  <2>3. Len(draft'.effects) = last /\ \A n \in 1 .. last - 1 : draft'.effects[n] = draft.effects[n]
    <3>1. Len(draft'.effects) = Len(draft.effects) + 1
          /\ \A n \in 1 .. Len(draft.effects) : draft'.effects[n] = draft.effects[n]
      BY <2>2 DEF Extended
    <3>2. Len(draft.effects) = last - 1 /\ Len(draft.effects) + 1 = last
      BY <1>3, <2>1
    <3> QED
      BY <3>1, <3>2
  <2>4. \A n \in DOMAIN effects : draft'.effects[n] = effects[n]
    BY <1>3, <2>1, <2>3
  <2>5. \A i \in 1 .. next :
          draft'.effects[Len(effects) + i] = [activity |-> a, effect |-> request[c].effects[i]]
    <3> SUFFICES ASSUME NEW i \in 1 .. next
                 PROVE  draft'.effects[Len(effects) + i] =
                          [activity |-> a, effect |-> request[c].effects[i]]
      OBVIOUS
    <3>1. CASE i = next
      <4>1. Len(draft.effects) + 1 = Len(effects) + next
        BY <1>3, <2>1
      <4> QED
        BY <2>2, <3>1, <4>1 DEF e
    <3>2. CASE i \in 1 .. next - 1
      <4>1. Len(effects) + i \in 1 .. last - 1
        BY <1>3, <3>2
      <4> QED
        BY <2>1, <2>3, <3>2, <4>1
    <3> QED
      BY <1>3, <3>1, <3>2
  <2> QED
    BY <1>1, <1>3, <1>5, <2>3, <2>4, <2>5 DEF DraftOf, a
<1>9. StillAccepted(c)'
  <2>1. Prior(c)' = Prior(c) /\ (GuardHolds(request[c])' <=> GuardHolds(request[c]))
    BY <1>1 DEF Prior, GuardHolds
  <2> QED
    BY <1>1, <1>2, <2>1 DEF StillAccepted
<1>10. DraftInv'
  BY <1>1, <1>2, <1>8, <1>9 DEF DraftInv
<1> QED
  BY <1>6, <1>7, <1>10 DEF OntologyInv

\* A journal that has grown by all the effects of a new activity.
LEMMA WrittenOnce ==
  ASSUME NEW journal \in Journal, NEW after \in Journal, NEW acts \in Seq(Request),
         NEW req \in Request, NEW es \in Seq(Effect), es = req.effects,
         LinesKnown(journal, acts), WrittenWhole(journal, acts),
         Len(after) = Len(journal) + Len(es),
         \A n \in DOMAIN journal : after[n] = journal[n],
         \A i \in 1 .. Len(es) :
           after[Len(journal) + i] = [activity |-> Len(acts) + 1, effect |-> es[i]]
  PROVE  /\ LinesKnown(after, Append(acts, req))
         /\ WrittenWhole(after, Append(acts, req))
<1> DEFINE new == Append(acts, req)
           old == Len(journal)
<1>1. /\ Len(es) \in Nat /\ old \in Nat /\ Len(acts) \in Nat /\ DOMAIN es = 1 .. Len(es)
      /\ DOMAIN journal = 1 .. old /\ DOMAIN after = 1 .. old + Len(es)
      /\ DOMAIN acts = 1 .. Len(acts)
  BY LenProperties DEF Journal
<1>2. /\ Len(new) = Len(acts) + 1 /\ DOMAIN new = 1 .. Len(acts) + 1
      /\ \A b \in 1 .. Len(acts) : new[b] = acts[b]
      /\ new[Len(acts) + 1] = req
  <2>1. new \in Seq(Request) /\ Len(new) = Len(acts) + 1
    BY AppendProperties
  <2> QED
    BY <1>1, <2>1, AppendProperties, LenProperties
<1> HIDE DEF new
<1>3. \A n \in 1 .. old : after[n].activity = journal[n].activity
                         /\ after[n].effect = journal[n].effect
                         /\ after[n].activity \in 1 .. Len(acts)
  BY <1>1 DEF LinesKnown
<1>4. \A n \in old + 1 .. old + Len(es) :
        after[n].activity = Len(acts) + 1 /\ after[n].effect = es[n - old]
  <2> SUFFICES ASSUME NEW n \in old + 1 .. old + Len(es)
               PROVE  after[n].activity = Len(acts) + 1 /\ after[n].effect = es[n - old]
    OBVIOUS
  <2>1. n - old \in 1 .. Len(es) /\ old + (n - old) = n
    BY <1>1
  <2>2. after[old + (n - old)] = [activity |-> Len(acts) + 1, effect |-> es[n - old]]
    BY <2>1
  <2> QED
    BY <2>1, <2>2
<1>5. LinesKnown(after, new)
  <2> SUFFICES ASSUME NEW n \in 1 .. old + Len(es)
               PROVE  after[n].activity \in 1 .. Len(acts) + 1
    BY <1>1, <1>2 DEF LinesKnown
  <2>1. n \in 1 .. old \/ n \in old + 1 .. old + Len(es)
    BY <1>1
  <2>2. 1 .. Len(acts) \subseteq 1 .. Len(acts) + 1 /\ Len(acts) + 1 \in 1 .. Len(acts) + 1
    BY <1>1
  <2> QED
    BY <1>3, <1>4, <2>1, <2>2
<1>6. WrittenWhole(after, new)
  <2> SUFFICES ASSUME NEW b \in 1 .. Len(acts) + 1
               PROVE  \E k \in 0 .. Len(after) :
                        /\ {n \in DOMAIN after : after[n].activity = b}
                             = k + 1 .. k + Len(new[b].effects)
                        /\ \A i \in DOMAIN new[b].effects :
                             after[k + i].effect = new[b].effects[i]
    BY <1>2 DEF WrittenWhole
  <2>1. CASE b = Len(acts) + 1
    <3>1. {n \in DOMAIN after : after[n].activity = b} = old + 1 .. old + Len(es)
      <4>1. ASSUME NEW n \in 1 .. old PROVE after[n].activity # b
        BY <1>1, <1>3, <2>1
      <4> QED
        BY <1>1, <1>4, <2>1, <4>1
    <3>2. new[b] = req /\ old \in 0 .. Len(after)
      BY <1>1, <1>2, <2>1
    <3>3. \A i \in DOMAIN es : after[old + i].effect = es[i]
      <4> SUFFICES ASSUME NEW i \in 1 .. Len(es) PROVE after[old + i].effect = es[i]
        BY <1>1
      <4>1. after[old + i] = [activity |-> Len(acts) + 1, effect |-> es[i]]
        OBVIOUS
      <4> QED
        BY <4>1
    <3> QED
      BY <3>1, <3>2, <3>3
  <2>2. CASE b \in 1 .. Len(acts)
    <3>1. new[b] = acts[b] /\ b \in DOMAIN acts
      BY <1>1, <1>2, <2>2
    <3>2. PICK k \in 0 .. old :
            /\ {n \in DOMAIN journal : journal[n].activity = b}
                 = k + 1 .. k + Len(acts[b].effects)
            /\ \A i \in DOMAIN acts[b].effects : journal[k + i].effect = acts[b].effects[i]
      BY <3>1 DEF WrittenWhole
    <3>3. {n \in DOMAIN after : after[n].activity = b}
            = {n \in DOMAIN journal : journal[n].activity = b}
      <4>1. ASSUME NEW n \in old + 1 .. old + Len(es) PROVE after[n].activity # b
        BY <1>1, <1>4, <2>2
      <4> QED
        BY <1>1, <1>3, <4>1
    <3>4. ASSUME NEW i \in DOMAIN acts[b].effects
          PROVE  after[k + i].effect = acts[b].effects[i]
      <4>1. acts[b].effects \in Seq(Effect)
        <5>1. acts[b] \in Request
          BY <2>2, ElementOfSeq
        <5>2. acts[b].effects \in Batch \cup {<< >>} /\ << >> \in Seq(Effect)
          BY <5>1 DEF Request
        <5> QED
          BY <5>2, ConstantAssumption
      <4>2. i \in 1 .. Len(acts[b].effects) /\ Len(acts[b].effects) \in Nat
        BY <4>1, LenProperties
      <4>3. k + i \in k + 1 .. k + Len(acts[b].effects)
        BY <1>1, <3>2, <4>2
      <4>4. k + i \in DOMAIN journal
        BY <3>2, <4>3
      <4> QED
        BY <1>1, <1>3, <3>2, <4>4
    <3>5. k \in 0 .. Len(after)
      BY <1>1, <3>2
    <3> QED
      BY <3>1, <3>2, <3>3, <3>4, <3>5
  <2>3. b = Len(acts) + 1 \/ b \in 1 .. Len(acts)
    BY <1>1
  <2> QED
    BY <2>1, <2>2, <2>3
<1> QED
  BY <1>5, <1>6 DEF new

LEMMA CommitInv ==
  ASSUME OntologyInv, NEW c \in Client, Commit(c)
  PROVE  OntologyInv'
<1> DEFINE req == request[c]
           es == request[c].effects
<1>1. /\ TypeOK /\ CommittedInv /\ LockInv /\ DraftInv /\ AnswersInv
      /\ UNCHANGED <<audited, request, seen>>
      /\ phase[c] = "applying" /\ next > Len(es)
      /\ objects' = draft.objects /\ relations' = draft.relations /\ effects' = draft.effects
      /\ activities' = Append(activities, req)
      /\ answer' = [answer EXCEPT ![c] = "applied"] /\ phase' = [phase EXCEPT ![c] = "answered"]
      /\ holder' = Nobody /\ draft' = NoDraft /\ next' = 1
  BY DEF OntologyInv, Commit, Respond, Release, GoTo
<1>2. holder = c /\ StillAccepted(c) /\ DraftOf(c)
  BY <1>1 DEF LockInv, DraftInv
<1>3. /\ es \in Seq(Effect) /\ Len(es) \in Nat /\ req \in Request /\ activities \in Seq(Request)
      /\ Len(activities) \in Nat /\ DOMAIN activities = 1 .. Len(activities)
  BY <1>1, RequestEffects, KeptRequest, LenProperties DEF TypeOK
<1>4. next = Len(es) + 1 /\ next - 1 = Len(es)
  <2>1. next \in 1 .. Len(es) + 1 /\ next > Len(es) /\ Len(es) \in Nat
    BY <1>1, <1>2, <1>3 DEF DraftOf
  <2> HIDE DEF es
  <2> QED
    BY <2>1
<1>5. /\ activities' \in Seq(Request) /\ DOMAIN activities' = 1 .. Len(activities) + 1
      /\ \A a \in 1 .. Len(activities) : activities'[a] = activities[a]
      /\ activities'[Len(activities) + 1] = req
  <2> HIDE DEF req
  <2>1. /\ activities' \in Seq(Request) /\ Len(activities') = Len(activities) + 1
        /\ \A a \in 1 .. Len(activities) : activities'[a] = activities[a]
        /\ activities'[Len(activities) + 1] = req
    BY <1>1, <1>3, AppendProperties
  <2> QED
    BY <2>1, LenProperties
<1>6. RowsInv(objects', relations') /\ JournalInv(relations', effects')
  BY <1>1, <1>2 DEF DraftOf
<1>7. LinesKnown(effects', activities') /\ WrittenWhole(effects', activities')
  <2>1. effects \in Journal /\ effects' \in Journal
    BY <1>1, <1>6 DEF CommittedInv, JournalInv
  <2>2. /\ Len(effects') = Len(effects) + Len(es)
        /\ \A n \in DOMAIN effects : effects'[n] = effects[n]
        /\ \A i \in 1 .. Len(es) :
             effects'[Len(effects) + i] = [activity |-> Len(activities) + 1, effect |-> es[i]]
    BY <1>1, <1>2, <1>4 DEF DraftOf
  <2>3. LinesKnown(effects, activities) /\ WrittenWhole(effects, activities)
    BY <1>1 DEF CommittedInv
  <2> QED
    BY <1>1, <1>3, <2>1, <2>2, <2>3, WrittenOnce
<1>8. KeysOnce(activities')
  <2>1. KeysOnce(activities) /\ Prior(c) = {}
    BY <1>1, <1>2 DEF CommittedInv, StillAccepted
  <2>2. \A a \in 1 .. Len(activities) : activities[a].key = req.key => req.key = NoKey
    BY <1>3, <2>1 DEF Prior
  <2>3. \A a \in 1 .. Len(activities) + 1 :
          a \in 1 .. Len(activities) \/ a = Len(activities) + 1
    BY <1>3
  <2> HIDE DEF req
  <2> QED
    BY <1>3, <1>5, <2>1, <2>2, <2>3 DEF KeysOnce
<1>9. TypeOK'
  <2>1. [objects |-> objects', relations |-> relations', effects |-> effects'] \in Tables
    BY <1>6 DEF Tables, RowsInv, JournalInv
  <2> QED
    BY <1>1, <1>5, <2>1, EmptyTables DEF TypeOK
<1>10. phase'[c] = "answered" /\ \A o \in Client \ {c} : phase'[o] = phase[o]
  BY <1>1, PhaseKept
<1>11. LockInv' /\ DraftInv'
  BY <1>1, <1>2, <1>10, ConstantAssumption DEF LockInv, DraftInv
<1>12. AnswersInv'
  <2> SUFFICES ASSUME NEW o \in Client
               PROVE  /\ answer'[o] \in {"applied", "duplicate"} =>
                           \E a \in DOMAIN activities' : activities'[a] = request'[o]
                      /\ answer'[o] = "rejected" => o \in audited'
                      /\ phase'[o] \in {"idle", "read"} => answer'[o] = "none"
    BY DEF AnswersInv, AnswersAreTrue
  <2>1. CASE o = c
    <3>1. answer'[c] = "applied"
      BY <1>1 DEF TypeOK
    <3>2. Len(activities) + 1 \in DOMAIN activities'
      BY <1>3, <1>5
    <3> QED
      BY <1>1, <1>5, <1>10, <2>1, <3>1, <3>2
  <2>2. CASE o # c
    <3>1. answer'[o] = answer[o] /\ phase'[o] = phase[o] /\ request'[o] = request[o]
      BY <1>1, <1>10, <2>2 DEF TypeOK
    <3>2. \A a \in DOMAIN activities : a \in DOMAIN activities' /\ activities'[a] = activities[a]
      BY <1>3, <1>5
    <3> QED
      BY <1>1, <3>1, <3>2 DEF AnswersInv, AnswersAreTrue
  <2> QED
    BY <2>1, <2>2
<1> QED
  BY <1>6, <1>7, <1>8, <1>9, <1>11, <1>12 DEF OntologyInv, CommittedInv

LEMMA AbortInv ==
  ASSUME OntologyInv, NEW c \in Client, Abort(c), phase[c] = "applying"
  PROVE  OntologyInv'
<1>1. /\ TypeOK /\ CommittedInv /\ LockInv /\ DraftInv /\ AnswersInv /\ holder = c
      /\ UNCHANGED <<objects, relations, effects, activities, audited, request, seen>>
      /\ answer' = [answer EXCEPT ![c] = "error"] /\ phase' = [phase EXCEPT ![c] = "answered"]
      /\ holder' = Nobody /\ draft' = NoDraft /\ next' = 1
  BY DEF OntologyInv, LockInv, Abort, Respond, Release, GoTo, committed
<1>2. phase'[c] = "answered" /\ \A o \in Client \ {c} : phase'[o] = phase[o]
  BY <1>1, PhaseKept
<1>3. TypeOK'
  BY <1>1, EmptyTables DEF TypeOK
<1>4. CommittedInv'
  BY <1>1 DEF CommittedInv
<1>5. LockInv' /\ DraftInv'
  BY <1>1, <1>2, ConstantAssumption DEF LockInv, DraftInv
<1>6. AnswersInv'
  <2>1. answer'[c] = "error" /\ \A o \in Client \ {c} : answer'[o] = answer[o]
    BY <1>1 DEF TypeOK
  <2> QED
    BY <1>1, <1>2, <2>1 DEF AnswersInv, AnswersAreTrue
<1> QED
  BY <1>3, <1>4, <1>5, <1>6 DEF OntologyInv

-----------------------------------------------------------------------------
(* The theorems *)

LEMMA StepOntology == OntologyInv /\ [Next]_vars => OntologyInv'
<1> SUFFICES ASSUME OntologyInv, [Next]_vars PROVE OntologyInv'
  OBVIOUS
<1>1. ASSUME NEW c \in Client, RecordActivity(c) PROVE OntologyInv'
  <2>1. phase[c] \in {"sent", "applying"} \/ ~Abort(c)
    BY DEF Abort
  <2> QED
    BY <1>1, <2>1, AnsweredInv, AcceptInv, ApplyEffectInv, CommitInv, AbortInv
       DEF RecordActivity
<1>2. CASE \E c \in Client :
             \/ Read(c) \/ Resend(c) \/ RecordActivity(c)
             \/ \E s \in Session, k \in Key \cup {NoKey}, g \in Guards(c), b \in Batch :
                  Submit(c, [session |-> s, key |-> k, guard |-> g, effects |-> b])
  BY <1>1, <1>2, ReadInv, ResendInv, SubmitInv
<1>3. CASE \E m \in Manifest : Reconcile(m)
  BY <1>3, RegistryInv
<1>4. CASE UNCHANGED vars
  <2>1. UNCHANGED <<objects, relations, effects, activities, audited, holder, draft, next,
                    phase, request, seen, answer>>
    BY <1>4 DEF vars, committed, transaction, clients
  <2>2. TypeOK' /\ CommittedInv' /\ LockInv' /\ AnswersInv'
    BY <2>1 DEF OntologyInv, TypeOK, CommittedInv, LockInv, AnswersInv, AnswersAreTrue
  <2>3. DraftInv'
    BY <2>1 DEF OntologyInv, DraftInv, StillAccepted, Prior, GuardHolds, DraftOf
  <2> QED
    BY <2>2, <2>3 DEF OntologyInv
<1> QED
  BY <1>2, <1>3, <1>4 DEF Next

\* The inductive invariant holds, whoever writes and reads, and
\* whatever the registry closes, revives and inserts.
THEOREM OntologyInvariant == Spec => []OntologyInv
<1>1. Init => OntologyInv
  BY InitOntology
<1>2. OntologyInv /\ [Next]_vars => OntologyInv'
  BY StepOntology
<1> QED
  BY <1>1, <1>2, PTL DEF Spec

\* Tables, draft, requests and answers keep their types: no step of
\* applyRelationEffect, of the commit or of the registry leaves a malformed row.
THEOREM OntologyTypeCorrect == Spec => []TypeOK
<1>1. OntologyInv => TypeOK
  BY DEF OntologyInv
<1> QED
  BY <1>1, OntologyInvariant, PTL

\* A triple has one open row, and it is the newest version, however assertions,
\* retractions and the registry's plans alternate; the rows of the registry's
\* own types that may be open beside it are the ones its insert does not look for.
THEOREM OneVersionIsOpen == Spec => []OneOpenVersion
<1>1. OntologyInv => OneOpenVersion
  BY DEF OntologyInv, CommittedInv, RowsInv, OneOpenIn, OneOpenVersion
<1> QED
  BY <1>1, OntologyInvariant, PTL

\* A current relation has no rejected endpoint, and a current confirmed one has
\* two confirmed endpoints: both writers keep the tables objects and relations
\* in step.
THEOREM EndpointsAreConfirmed == Spec => []ConfirmedEndpoints
<1>1. OntologyInv => ConfirmedEndpoints
  BY DEF OntologyInv, CommittedInv, RowsInv, EndpointsIn, ConfirmedEndpoints
<1> QED
  BY <1>1, OntologyInvariant, PTL

\* No inference confirms itself: a current confirmed relation is one the registry
\* has inserted so, or behind it there is an assertion under another authority
\* that has not been retracted since.
THEOREM AuthorityBehindConfirmed == Spec => []ConfirmedByAuthority
<1>1. OntologyInv => ConfirmedByAuthority
  BY DEF OntologyInv, CommittedInv, JournalInv, AuthorityIn, ByRegistry, Stands,
         ConfirmedByAuthority
<1> QED
  BY <1>1, OntologyInvariant, PTL

\* The current relations are what the journal of relation_effects says they are,
\* but for rows the registry has superseded or inserted itself.
THEOREM CurrentIsDerived == Spec => []HistoryExplainsState
<1>1. OntologyInv => HistoryExplainsState
  BY DEF OntologyInv, CommittedInv, JournalInv, HistoryIn, Explained, RowsOf,
         HistoryExplainsState
<1> QED
  BY <1>1, OntologyInvariant, PTL

\* A write with an idempotency key is stored once, and every stored write is in
\* the journal whole, in one piece and in order, whatever is resent or aborted.
THEOREM WrittenOnceAndWhole == Spec => []OnceAndWhole
<1>1. OntologyInv => OnceAndWhole
  BY DEF OntologyInv, CommittedInv, WrittenWhole, KeysOnce, OnceAndWhole
<1> QED
  BY <1>1, OntologyInvariant, PTL

\* A client is told "applied" or "duplicate" only of a request that is stored,
\* and "rejected" only when the rejection is in the audit.
THEOREM AnswersAreHonest == Spec => []AnswersAreTrue
<1>1. OntologyInv => AnswersAreTrue
  BY DEF OntologyInv, AnswersInv
<1> QED
  BY <1>1, OntologyInvariant, PTL

\* When a guarded write is committed, the current relations of its subject are
\* still those its client had read: nothing came between the check of the
\* preconditions and the commit.
THEOREM NoWriteInBetween == Spec => GuardedWritesSeeWhatTheyRead
<1> DEFINE Seen == \A c \in Client :
             activities' # activities /\ holder = c /\ request[c].guard # NoGuard =>
               \A i \in 1 .. Len(relations) :
                 relations[i].subject = request[c].guard.subject =>
                   (relations[i].open <=> i \in request[c].guard.expected)
<1>1. OntologyInv => Seen
  <2> SUFFICES ASSUME OntologyInv, NEW c \in Client, holder = c, request[c].guard # NoGuard,
                      NEW i \in 1 .. Len(relations),
                      relations[i].subject = request[c].guard.subject
               PROVE  relations[i].open <=> i \in request[c].guard.expected
    OBVIOUS
  <2>1. request[c].guard.expected
          = {j \in Current(relations) : relations[j].subject = request[c].guard.subject}
    BY DEF OntologyInv, DraftInv, StillAccepted, GuardHolds
  <2>2. i \in DOMAIN relations
    BY DEF OntologyInv, TypeOK, Tables
  <2> QED
    BY <2>1, <2>2 DEF Current
<1>2. OntologyInv => [Seen]_vars
  BY <1>1
<1> QED
  BY <1>2, OntologyInvariant, PTL DEF GuardedWritesSeeWhatTheyRead
==============================================================================
