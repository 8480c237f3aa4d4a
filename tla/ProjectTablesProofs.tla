------------------------- MODULE ProjectTablesProofs -------------------------
(***************************************************************************)
(* Facts about the tables of projects, for any names, Codex ids, roots,    *)
(* URIs, objects and registries: what a statement of an apply does to      *)
(* tables that obey the schema, what all the parts of an apply do, one     *)
(* after the other, and that a registry that may be repeated finds all it  *)
(* would write when it is applied again.                                   *)
(***************************************************************************)
EXTENDS ProjectTables, SequenceTheorems, FiniteSetTheorems, WellFoundedInduction, TLAPS

-----------------------------------------------------------------------------
(* Recursion over the parts of an apply *)

\* What holds of 0, and of n + 1 if it does of n, holds of every number.
LEMMA SetInduction ==
  ASSUME NEW T, 0 \in T, \A n \in Nat : n \in T => n + 1 \in T
  PROVE  Nat \subseteq T
<1>1. SUFFICES ASSUME Nat \ T # {} PROVE FALSE
  OBVIOUS
<1>2. PICK x \in Nat \ T : \A y \in Nat \ T : <<y, x>> \notin OpToRel(<, Nat)
  BY <1>1, NatLessThanWellFounded, WFMin
<1>3. x \in Nat /\ x # 0
  BY <1>2
<1>4. x - 1 \in Nat /\ x - 1 < x /\ (x - 1) + 1 = x
  BY <1>3
<1>5. x - 1 \notin T
  BY <1>2, <1>4
<1>6. <<x - 1, x>> \in OpToRel(<, Nat)
  BY <1>3, <1>4 DEF OpToRel
<1> QED
  BY <1>2, <1>4, <1>5, <1>6

\* The tables that the parts of an apply leave, one after the other.
Trace(f, t, r, k) ==
  f = [i \in 0 .. k |->
         IF i = 0 THEN t ELSE Applied(f[i - 1], t.projects, r, Parts(r)[i])]

LEMMA TraceExtends ==
  ASSUME NEW t, NEW r, NEW k \in Nat, NEW f, Trace(f, t, r, k)
  PROVE  \E g : Trace(g, t, r, k + 1)
<1> DEFINE A(u, i) == Applied(u, t.projects, r, Parts(r)[i])
           g == [i \in 0 .. k + 1 |-> IF i \in 0 .. k THEN f[i] ELSE A(f[k], i)]
<1>1. f = [i \in 0 .. k |-> IF i = 0 THEN t ELSE A(f[i - 1], i)]
  BY DEF Trace
<1> HIDE DEF A
<1>2. \A i \in 0 .. k + 1 : g[i] = IF i = 0 THEN t ELSE A(g[i - 1], i)
  <2> SUFFICES ASSUME NEW i \in 0 .. k + 1
               PROVE  g[i] = IF i = 0 THEN t ELSE A(g[i - 1], i)
    OBVIOUS
  <2>1. CASE i = 0
    BY <1>1, <2>1
  <2>2. CASE i \in 1 .. k
    <3>1. i - 1 \in 0 .. k /\ i \in 0 .. k /\ i - 1 \in 0 .. k + 1
      BY <2>2
    <3>2. g[i] = f[i] /\ g[i - 1] = f[i - 1]
      BY <3>1
    <3> QED
      BY <1>1, <2>2, <3>1, <3>2
  <2>3. CASE i = k + 1
    <3>1. i - 1 = k /\ i \notin 0 .. k /\ k \in 0 .. k /\ k \in 0 .. k + 1 /\ i # 0
      BY <2>3
    <3>2. g[i] = A(f[k], i) /\ g[i - 1] = f[k]
      BY <3>1
    <3> QED
      BY <3>1, <3>2
  <2> QED
    BY <2>1, <2>2, <2>3
<1>3. g = [i \in 0 .. k + 1 |-> IF i = 0 THEN t ELSE A(g[i - 1], i)]
  <2> DEFINE h == [i \in 0 .. k + 1 |-> IF i = 0 THEN t ELSE A(g[i - 1], i)]
  <2>1. \A i \in 0 .. k + 1 : g[i] = h[i]
    BY <1>2
  <2>2. DOMAIN g = DOMAIN h /\ DOMAIN g = 0 .. k + 1
    OBVIOUS
  <2>3. g = [i \in 0 .. k + 1 |-> g[i]] /\ h = [i \in 0 .. k + 1 |-> h[i]]
    OBVIOUS
  <2> HIDE DEF g, h
  <2>4. g = h
    BY <2>1, <2>3
  <2> QED
    BY <2>4 DEF h
<1> QED
  BY <1>3 DEF Trace, A

\* The recursion of AllApplied is well defined, and is the trace's last.
LEMMA AllAppliedIsTraced ==
  ASSUME NEW t, NEW r, Len(Parts(r)) \in Nat
  PROVE  \E f : Trace(f, t, r, Len(Parts(r))) /\ AllApplied(t, r) = f[Len(Parts(r))]
<1> DEFINE T == {k \in Nat : \E f : Trace(f, t, r, k)}
<1>1. 0 \in T
  <2> DEFINE f == [i \in 0 .. 0 |-> t]
  <2>1. f = [i \in 0 .. 0 |->
               IF i = 0 THEN t ELSE Applied(f[i - 1], t.projects, r, Parts(r)[i])]
    OBVIOUS
  <2> QED
    BY <2>1 DEF Trace
<1>2. \A k \in Nat : k \in T => k + 1 \in T
  BY TraceExtends
<1>3. Len(Parts(r)) \in T
  <2> HIDE DEF T
  <2> QED
    BY <1>1, <1>2, SetInduction
<1> DEFINE c == CHOOSE f : Trace(f, t, r, Len(Parts(r)))
<1>4. Trace(c, t, r, Len(Parts(r)))
  BY <1>3
<1>5. AllApplied(t, r) = c[Len(Parts(r))]
  BY DEF AllApplied, Trace
<1> QED
  BY <1>4, <1>5

-----------------------------------------------------------------------------
(* Tables that obey the schema *)

Live(objects, o) == o \in DOMAIN objects /\ objects[o].state # "rejected"

\* A relation's ends are there, and not retired while it is current.
SoundRelation(objects, rel) ==
  /\ rel \in [from : DOMAIN objects, type : {rel.type}, to : DOMAIN objects,
              state : {rel.state}, open : BOOLEAN, version : {rel.version}]
  /\ rel.open => Live(objects, rel.from) /\ Live(objects, rel.to)

SoundRelations(objects, relations) == \A rel \in relations : SoundRelation(objects, rel)

ObjectRow(ps) ==
  [state : {"confirmed", "candidate", "rejected"}, project : DOMAIN ps \cup {NoProject}]

Shaped(t) ==
  t = [projects |-> t.projects, objects |-> t.objects, relations |-> t.relations, ok |-> t.ok]

\* Rows are typed and refer to rows that there are; as long as no statement has
\* failed, the unique indexes hold.
SoundTables(t) ==
  /\ Shaped(t)
  /\ t.projects \in Seq(Row)
  /\ t.ok \in BOOLEAN /\ (t.ok => Indexed(t.projects))
  /\ t.objects \in [DOMAIN t.objects -> ObjectRow(t.projects)]
  /\ SoundRelations(t.objects, t.relations)

\* No row goes away.
Grown(t, u) ==
  DOMAIN t.projects \subseteq DOMAIN u.projects /\ DOMAIN t.objects \subseteq DOMAIN u.objects

LEMMA GrownTransitive ==
  ASSUME NEW t, NEW u, NEW v, Grown(t, u), Grown(u, v)
  PROVE  Grown(t, v)
BY DEF Grown

LEMMA WithProjectsSound ==
  ASSUME NEW t, SoundTables(t), NEW ps \in Seq(Row), DOMAIN t.projects \subseteq DOMAIN ps
  PROVE  /\ SoundTables(WithProjects(t, ps)) /\ Grown(t, WithProjects(t, ps))
         /\ WithProjects(t, ps).projects = ps
         /\ WithProjects(t, ps).objects = t.objects
         /\ WithProjects(t, ps).relations = t.relations
<1> DEFINE u == WithProjects(t, ps)
<1>1. u = [projects |-> ps, objects |-> t.objects, relations |-> t.relations,
           ok |-> t.ok /\ Indexed(ps)]
  <2> DEFINE ok == t.ok /\ Indexed(ps)
  <2>1. WithProjects(t, ps) = [t EXCEPT !.projects = ps, !.ok = ok]
    BY DEF WithProjects
  <2> HIDE DEF ok
  <2>2. u = [projects |-> ps, objects |-> t.objects, relations |-> t.relations, ok |-> ok]
    BY <2>1 DEF SoundTables, Shaped
  <2> QED
    BY <2>2 DEF ok
<1>2. /\ u.projects = ps /\ u.objects = t.objects /\ u.relations = t.relations
      /\ u.ok = (t.ok /\ Indexed(ps)) /\ Shaped(u)
  BY <1>1 DEF Shaped
<1> HIDE DEF u
<1>3. u.ok \in BOOLEAN /\ (u.ok => Indexed(u.projects))
  BY <1>2 DEF SoundTables, Indexed
<1>4. u.objects \in [DOMAIN u.objects -> ObjectRow(u.projects)]
  BY <1>2 DEF SoundTables, ObjectRow
<1>5. SoundTables(u) /\ Grown(t, u)
  BY <1>2, <1>3, <1>4 DEF SoundTables, Grown
<1> QED
  BY <1>2, <1>5 DEF u

\* An update of a row that there is not changes nothing.
LEMMA NoRowNoChange ==
  ASSUME NEW S, NEW ps \in Seq(S), NEW p, p \notin DOMAIN ps, NEW row
  PROVE  [ps EXCEPT ![p] = row] = ps
<1>1. ps \in [DOMAIN ps -> S]
  OBVIOUS
<1> QED
  BY <1>1

\* Whatever aliases the row of a project gets, if there is such a row.
LEMMA AliasesTyped ==
  ASSUME NEW ps \in Seq(Row), NEW p,
         NEW aliases \in [Name -> {"none", "historical", "identity", "rejected"}]
  PROVE  /\ [ps EXCEPT ![p].aliases = aliases] \in Seq(Row)
         /\ DOMAIN [ps EXCEPT ![p].aliases = aliases] = DOMAIN ps
<1>1. CASE p \in DOMAIN ps
  <2>1. ps[p] \in Row
    BY <1>1
  <2>2. [ps[p] EXCEPT !.aliases = aliases] \in Row
    BY <2>1 DEF Row
  <2>3. [ps EXCEPT ![p] = [ps[p] EXCEPT !.aliases = aliases]] \in Seq(Row)
    BY <1>1, <2>2
  <2> QED
    BY <1>1, <2>3
<1>2. CASE p \notin DOMAIN ps
  BY <1>2, NoRowNoChange
<1> QED
  BY <1>1, <1>2

LEMMA WithIdentitiesSound ==
  ASSUME NEW t, SoundTables(t), NEW p, NEW names
  PROVE  /\ SoundTables(WithIdentities(t, p, names)) /\ Grown(t, WithIdentities(t, p, names))
         /\ DOMAIN WithIdentities(t, p, names).projects = DOMAIN t.projects
         /\ WithIdentities(t, p, names).objects = t.objects
<1> DEFINE marks == {"none", "historical", "identity", "rejected"}
           aliases == [n \in Name |-> IF n \in names THEN "identity" ELSE t.projects[p].aliases[n]]
           ps == [t.projects EXCEPT ![p].aliases = aliases]
<1>1. t.projects \in Seq(Row)
  BY DEF SoundTables
<1>2. WithIdentities(t, p, names) = WithProjects(t, ps)
  BY DEF WithIdentities
<1>3. ps \in Seq(Row) /\ DOMAIN ps = DOMAIN t.projects
  <2>1. CASE p \in DOMAIN t.projects
    <3>1. t.projects[p] \in Row
      BY <1>1, <2>1
    <3>2. aliases \in [Name -> marks]
      BY <3>1 DEF Row
    <3> QED
      BY <1>1, <3>2, AliasesTyped
  <2>2. CASE p \notin DOMAIN t.projects
    BY <1>1, <2>2, NoRowNoChange
  <2> QED
    BY <2>1, <2>2
<1> HIDE DEF ps
<1> QED
  BY <1>2, <1>3, WithProjectsSound

LEMMA RejectAliasSound ==
  ASSUME NEW t, SoundTables(t), NEW s
  PROVE  SoundTables(RejectAlias(t, s)) /\ Grown(t, RejectAlias(t, s))
<1> DEFINE p == TheOne(Owners(t.projects, s.owner))
           aliases == [t.projects[p].aliases EXCEPT ![s.alias] = "rejected"]
           ps == [t.projects EXCEPT ![p].aliases = aliases]
<1>1. t.projects \in Seq(Row)
  BY DEF SoundTables
<1>2. RejectAlias(t, s) = WithProjects(t, ps)
  BY DEF RejectAlias
<1> HIDE DEF p
<1>3. ps \in Seq(Row) /\ DOMAIN ps = DOMAIN t.projects
  <2>1. CASE p \in DOMAIN t.projects
    <3>1. t.projects[p] \in Row
      BY <1>1, <2>1
    <3>2. aliases \in [Name -> {"none", "historical", "identity", "rejected"}]
      BY <3>1 DEF Row
    <3> QED
      BY <1>1, <3>2, AliasesTyped
  <2>2. CASE p \notin DOMAIN t.projects
    BY <1>1, <2>2, NoRowNoChange
  <2> QED
    BY <2>1, <2>2
<1> HIDE DEF ps
<1> QED
  BY <1>2, <1>3, WithProjectsSound

-----------------------------------------------------------------------------
(* Relations and objects *)

\* Relations that end are current no longer; what they join stays.
LEMMA CloseSound ==
  ASSUME NEW t, SoundTables(t), NEW rels \in SUBSET t.relations
  PROVE  /\ SoundTables(Close(t, rels)) /\ Grown(t, Close(t, rels))
         /\ Close(t, rels).projects = t.projects /\ Close(t, rels).objects = t.objects
         /\ Close(t, rels).ok = t.ok
         /\ Close(t, rels).relations =
              (t.relations \ rels) \cup {[rel EXCEPT !.open = FALSE] : rel \in rels}
<1> DEFINE closed == {[rel EXCEPT !.open = FALSE] : rel \in rels}
           all == (t.relations \ rels) \cup closed
           u == Close(t, rels)
<1>1. u = [projects |-> t.projects, objects |-> t.objects, relations |-> all, ok |-> t.ok]
  <2>1. u = [t EXCEPT !.relations = all]
    BY DEF Close
  <2> HIDE DEF all, u
  <2> QED
    BY <2>1 DEF SoundTables, Shaped
<1>2. \A rel \in closed : ~rel.open /\ SoundRelation(t.objects, rel)
  <2> SUFFICES ASSUME NEW old \in rels
               PROVE  ~[old EXCEPT !.open = FALSE].open
                      /\ SoundRelation(t.objects, [old EXCEPT !.open = FALSE])
    OBVIOUS
  <2>1. SoundRelation(t.objects, old)
    BY DEF SoundTables, SoundRelations
  <2> DEFINE new == [old EXCEPT !.open = FALSE]
  <2>2. /\ new \in [from : DOMAIN t.objects, type : {old.type}, to : DOMAIN t.objects,
                    state : {old.state}, open : BOOLEAN, version : {old.version}]
        /\ ~new.open
    BY <2>1 DEF SoundRelation
  <2> HIDE DEF new
  <2>3. new.type = old.type /\ new.state = old.state /\ new.version = old.version
    BY <2>2
  <2>4. ~new.open /\ SoundRelation(t.objects, new)
    BY <2>2, <2>3 DEF SoundRelation
  <2> QED
    BY <2>4 DEF new
<1>3. \A rel \in t.relations : SoundRelation(t.objects, rel)
  BY DEF SoundTables, SoundRelations
<1> HIDE DEF closed, u
<1>4. SoundRelations(t.objects, all)
  BY <1>2, <1>3 DEF SoundRelations
<1>5. SoundTables(u) /\ Grown(t, u)
  BY <1>1, <1>4 DEF SoundTables, Shaped, Grown
<1> QED
  BY <1>1, <1>5 DEF u, closed

\* The relations of a retired object are closed with it.
LEMMA RejectObjectSound ==
  ASSUME NEW t, SoundTables(t), NEW s, s.object \in DOMAIN t.objects
  PROVE  SoundTables(RejectObject(t, s)) /\ Grown(t, RejectObject(t, s))
<1> DEFINE o == s.object
           row == [t.objects[o] EXCEPT !.state = "rejected"]
           objects == [t.objects EXCEPT ![o] = row]
           touched == {rel \in t.relations : rel.open /\ Touches(rel, o)}
           u == RejectObject(t, s)
           c == Close(t, touched)
<1>1. SoundTables(c) /\ c.projects = t.projects /\ c.objects = t.objects
      /\ c.relations = (t.relations \ touched) \cup {[rel EXCEPT !.open = FALSE] : rel \in touched}
  BY CloseSound
<1>2. u = [projects |-> t.projects, objects |-> objects, relations |-> c.relations, ok |-> t.ok]
  <2> DEFINE rejected == [t EXCEPT !.objects[s.object].state = "rejected"]
  <2>1. rejected = [projects |-> t.projects, objects |-> objects, relations |-> t.relations,
                    ok |-> t.ok]
    BY DEF SoundTables, Shaped
  <2>2. u = Close(rejected, touched)
    BY DEF RejectObject
  <2> DEFINE closed == (t.relations \ touched) \cup {[rel EXCEPT !.open = FALSE] : rel \in touched}
  <2>3. u = [rejected EXCEPT !.relations = closed]
    BY <2>1, <2>2 DEF Close
  <2> HIDE DEF closed, rejected, u, touched, objects
  <2> QED
    BY <1>1, <2>1, <2>3 DEF closed
<1>3. t.objects \in [DOMAIN t.objects -> ObjectRow(t.projects)]
  BY DEF SoundTables
<1>4. row \in ObjectRow(t.projects) /\ row.state = "rejected"
  BY <1>3 DEF ObjectRow
<1>5. /\ objects \in [DOMAIN t.objects -> ObjectRow(t.projects)]
      /\ \A p \in DOMAIN t.objects \ {o} : objects[p] = t.objects[p]
  BY <1>3, <1>4
<1>6. \A rel \in c.relations : rel.open => rel.from # o /\ rel.to # o
  <2>1. \A rel \in touched : ~[rel EXCEPT !.open = FALSE].open
    BY DEF SoundTables, SoundRelations, SoundRelation
  <2>2. \A rel \in t.relations \ touched : rel.open => rel.from # o /\ rel.to # o
    BY DEF Touches
  <2> HIDE DEF touched
  <2> QED
    BY <1>1, <2>1, <2>2
<1> HIDE DEF u, c, objects, touched, row
<1>7. SoundRelations(c.objects, c.relations)
  BY <1>1 DEF SoundTables
<1>8. SoundRelations(objects, c.relations)
  <2> SUFFICES ASSUME NEW rel \in c.relations
               PROVE  SoundRelation(objects, rel)
    BY <1>7 DEF SoundRelations
  <2>1. SoundRelation(t.objects, rel)
    BY <1>1, <1>7 DEF SoundRelations
  <2>2. DOMAIN objects = DOMAIN t.objects
    BY <1>5
  <2>3. rel.open => Live(objects, rel.from) /\ Live(objects, rel.to)
    BY <1>5, <1>6, <2>1, <2>2 DEF SoundRelation, Live
  <2> QED
    BY <2>1, <2>2, <2>3 DEF SoundRelation
<1>9. u.projects = t.projects /\ u.objects = objects /\ u.relations = c.relations
      /\ u.ok = t.ok /\ Shaped(u)
  BY <1>2 DEF Shaped
<1>10. DOMAIN objects = DOMAIN t.objects
  BY <1>5
<1>11. SoundTables(u) /\ Grown(t, u)
  BY <1>5, <1>8, <1>9, <1>10 DEF SoundTables, Grown
<1> QED
  BY <1>11 DEF u

\* Objects that a registry ensures are there and confirmed.
LEMMA EnsureObjectsSound ==
  ASSUME NEW t, SoundTables(t), NEW project,
         \A o \in DOMAIN project : project[o] \in DOMAIN t.projects \cup {NoProject}
  PROVE  LET u == EnsureObjects(t, project) IN
         /\ SoundTables(u) /\ Grown(t, u) /\ u.projects = t.projects
         /\ u.relations = t.relations
         /\ \A o \in DOMAIN project : Live(u.objects, o)
         /\ \A o \in DOMAIN t.objects : Live(t.objects, o) => Live(u.objects, o)
<1> DEFINE domain == DOMAIN t.objects \cup DOMAIN project
           objects == [o \in domain |-> IF o \in DOMAIN project
                         THEN [state |-> "confirmed", project |-> project[o]]
                         ELSE t.objects[o]]
           u == EnsureObjects(t, project)
<1>1. u = [projects |-> t.projects, objects |-> objects, relations |-> t.relations, ok |-> t.ok]
  BY DEF EnsureObjects, SoundTables, Shaped
<1>2. t.objects \in [DOMAIN t.objects -> ObjectRow(t.projects)]
  BY DEF SoundTables
<1>3. objects \in [domain -> ObjectRow(t.projects)]
  <2> SUFFICES ASSUME NEW o \in domain
               PROVE  objects[o] \in ObjectRow(t.projects)
    OBVIOUS
  <2>1. CASE o \in DOMAIN project
    BY <2>1 DEF ObjectRow
  <2>2. CASE o \notin DOMAIN project
    BY <1>2, <2>2
  <2> QED
    BY <2>1, <2>2
<1>4. DOMAIN objects = domain
  OBVIOUS
<1>5. \A o \in DOMAIN project : Live(objects, o)
  BY DEF Live
<1>6. \A o \in DOMAIN t.objects : Live(t.objects, o) => Live(objects, o)
  BY DEF Live
<1> HIDE DEF objects, u
<1>7. SoundRelations(objects, t.relations)
  BY <1>4, <1>6 DEF SoundTables, SoundRelations, SoundRelation, Live
<1>8. u.projects = t.projects /\ u.objects = objects /\ u.relations = t.relations
      /\ u.ok = t.ok /\ Shaped(u)
  BY <1>1 DEF Shaped
<1>9. SoundTables(u) /\ Grown(t, u)
  BY <1>3, <1>4, <1>7, <1>8 DEF SoundTables, Grown
<1> QED
  BY <1>5, <1>6, <1>8, <1>9 DEF u

\* New versions join what is there and not retired.
LEMMA EnsureRelationsSound ==
  ASSUME NEW t, SoundTables(t), NEW from, NEW type, NEW ends, NEW state,
         Live(t.objects, from), \A to \in ends : Live(t.objects, to)
  PROVE  LET u == EnsureRelations(t, from, type, ends, state) IN
         /\ SoundTables(u) /\ Grown(t, u) /\ u.projects = t.projects /\ u.objects = t.objects
         /\ u.ok = t.ok
<1> DEFINE missing == {to \in ends : ~\E rel \in Versions(t, from, type, to) :
                                         rel.open /\ rel.state = state}
           New(to) == [from |-> from, type |-> type, to |-> to, state |-> state, open |-> TRUE,
                       version |-> Cardinality(Versions(t, from, type, to)) + 1]
           new == {New(to) : to \in missing}
           u == EnsureRelations(t, from, type, ends, state)
<1>1. u = [projects |-> t.projects, objects |-> t.objects, relations |-> t.relations \cup new,
           ok |-> t.ok]
  <2>1. u = [t EXCEPT !.relations = t.relations \cup new]
    BY DEF EnsureRelations
  <2> HIDE DEF new, u
  <2> QED
    BY <2>1 DEF SoundTables, Shaped
<1>2. \A rel \in new : SoundRelation(t.objects, rel)
  <2> SUFFICES ASSUME NEW to \in missing
               PROVE  SoundRelation(t.objects, New(to))
    OBVIOUS
  <2> HIDE DEF missing
  <2>1. Live(t.objects, to)
    BY DEF missing
  <2> QED
    BY <2>1 DEF SoundRelation, Live
<1> HIDE DEF new, missing, New, u
<1>3. SoundRelations(t.objects, t.relations \cup new)
  BY <1>2 DEF SoundTables, SoundRelations
<1>4. u.projects = t.projects /\ u.objects = t.objects /\ u.relations = t.relations \cup new
      /\ u.ok = t.ok /\ Shaped(u)
  BY <1>1 DEF Shaped
<1>5. SoundTables(u) /\ Grown(t, u)
  BY <1>3, <1>4 DEF SoundTables, Grown
<1> QED
  BY <1>4, <1>5 DEF u

\* What an agent's effect mentions is there, and as little retired as before.
LEMMA MentionSound ==
  ASSUME NEW t, SoundTables(t), NEW ends, NEW state \in {"candidate", "confirmed"},
         NEW p \in DOMAIN t.projects \cup {NoProject},
         \A o \in ends \cap DOMAIN t.objects : t.objects[o].state # "rejected"
  PROVE  LET u == Mention(t, ends, state, p) IN
         /\ SoundTables(u) /\ Grown(t, u) /\ u.projects = t.projects /\ u.ok = t.ok
         /\ \A o \in ends : Live(u.objects, o)
<1> DEFINE domain == DOMAIN t.objects \cup ends
           row(o) == IF o \notin DOMAIN t.objects THEN [state |-> state, project |-> p]
                     ELSE IF o \notin ends THEN t.objects[o]
                     ELSE [state |-> IF state = "confirmed" THEN state ELSE t.objects[o].state,
                           project |-> IF t.objects[o].project = NoProject THEN p
                                       ELSE t.objects[o].project]
           objects == [o \in domain |-> row(o)]
           u == Mention(t, ends, state, p)
<1>1. u = [projects |-> t.projects, objects |-> objects, relations |-> t.relations, ok |-> t.ok]
  <2>1. u = [t EXCEPT !.objects = objects]
    BY DEF Mention
  <2> HIDE DEF objects, u
  <2> QED
    BY <2>1 DEF SoundTables, Shaped
<1>2. \A o \in DOMAIN t.objects : t.objects[o] \in ObjectRow(t.projects)
  BY DEF SoundTables
<1>3. \A o \in domain : row(o) \in ObjectRow(t.projects)
  BY <1>2 DEF ObjectRow
<1>4. \A o \in ends : row(o).state # "rejected"
  OBVIOUS
<1>5. \A o \in DOMAIN t.objects : t.objects[o].state # "rejected" => row(o).state # "rejected"
  BY <1>2
<1> HIDE DEF row
<1>6. /\ DOMAIN objects = domain /\ objects \in [domain -> ObjectRow(t.projects)]
      /\ \A o \in domain : objects[o] = row(o)
  BY <1>3
<1> HIDE DEF objects, u
<1>7. \A o \in ends : Live(objects, o)
  BY <1>4, <1>6 DEF Live
<1>8. \A o \in DOMAIN t.objects : Live(t.objects, o) => Live(objects, o)
  BY <1>5, <1>6 DEF Live
<1>9. SoundRelations(objects, t.relations)
  BY <1>6, <1>8 DEF SoundTables, SoundRelations, SoundRelation, Live
<1>10. u.projects = t.projects /\ u.objects = objects /\ u.relations = t.relations
       /\ u.ok = t.ok /\ Shaped(u)
  BY <1>1 DEF Shaped
<1>11. SoundTables(u) /\ Grown(t, u)
  BY <1>6, <1>9, <1>10 DEF SoundTables, Grown
<1> QED
  BY <1>7, <1>10, <1>11 DEF u

\* An assertion gives the newest open version a state, or adds one.
LEMMA AssertSound ==
  ASSUME NEW t, SoundTables(t), NEW c, Live(t.objects, c.from), Live(t.objects, c.to)
  PROVE  LET u == Assert(t, c) IN
         SoundTables(u) /\ Grown(t, u) /\ u.projects = t.projects /\ u.ok = t.ok
<1> DEFINE u == Assert(t, c)
<1>1. CASE OpenVersions(t, c) = {}
  <2>1. u = EnsureRelations(t, c.from, c.type, {c.to}, c.state)
    BY <1>1 DEF Assert
  <2>2. \A to \in {c.to} : Live(t.objects, to)
    OBVIOUS
  <2> QED
    BY <2>1, <2>2, EnsureRelationsSound
<1>2. CASE OpenVersions(t, c) # {}
  <2> DEFINE newest == Newest(OpenVersions(t, c))
             New(rel) == [rel EXCEPT !.state = IF @ = "confirmed" THEN @ ELSE c.state]
             new == {New(rel) : rel \in newest}
             rels == (t.relations \ newest) \cup new
  <2>1. u = [t EXCEPT !.relations = rels]
    BY <1>2 DEF Assert
  <2>2. newest \in SUBSET t.relations
    BY DEF Newest, OpenVersions, Versions
  <2>3. \A rel \in new : SoundRelation(t.objects, rel)
    <3> SUFFICES ASSUME NEW old \in newest
                 PROVE  SoundRelation(t.objects, New(old))
      OBVIOUS
    <3>1. SoundRelation(t.objects, old)
      BY <2>2 DEF SoundTables, SoundRelations
    <3> DEFINE state == IF old.state = "confirmed" THEN old.state ELSE c.state
    <3>2. /\ New(old) \in [from : DOMAIN t.objects, type : {old.type}, to : DOMAIN t.objects,
                           state : {state}, open : BOOLEAN, version : {old.version}]
          /\ New(old).from = old.from /\ New(old).to = old.to /\ New(old).open = old.open
      BY <3>1 DEF SoundRelation
    <3> HIDE DEF New, state
    <3>3. New(old).type = old.type /\ New(old).state = state /\ New(old).version = old.version
      BY <3>2
    <3> QED
      BY <3>1, <3>2, <3>3 DEF SoundRelation
  <2> HIDE DEF newest, new, u
  <2>4. SoundRelations(t.objects, rels)
    BY <2>2, <2>3 DEF SoundTables, SoundRelations
  <2> HIDE DEF rels
  <2>5. /\ u.projects = t.projects /\ u.objects = t.objects /\ u.relations = rels
        /\ u.ok = t.ok /\ Shaped(u)
    BY <2>1 DEF SoundTables, Shaped
  <2>6. SoundTables(u) /\ Grown(t, u)
    BY <2>4, <2>5 DEF SoundTables, Grown
  <2> QED
    BY <2>5, <2>6 DEF u
<1> QED
  BY <1>1, <1>2

\* An effect that an agent records leaves sound tables.
LEMMA ApplyEffectSound ==
  ASSUME NEW t, SoundTables(t), NEW c, c.state \in {"candidate", "confirmed"},
         NEW p \in DOMAIN t.projects \cup {NoProject},
         \A o \in {c.from, c.to} \cap DOMAIN t.objects : t.objects[o].state # "rejected"
  PROVE  LET u == ApplyEffect(t, c, p) IN
         SoundTables(u) /\ Grown(t, u) /\ u.projects = t.projects /\ u.ok = t.ok
<1> DEFINE m == Mention(t, {c.from, c.to}, c.state, p)
           u == ApplyEffect(t, c, p)
<1>1. /\ SoundTables(m) /\ Grown(t, m) /\ m.projects = t.projects /\ m.ok = t.ok
      /\ \A o \in {c.from, c.to} : Live(m.objects, o)
  <2> DEFINE ends == {c.from, c.to}
  <2>1. \A o \in ends \cap DOMAIN t.objects : t.objects[o].state # "rejected"
    OBVIOUS
  <2> HIDE DEF ends
  <2>2. LET v == Mention(t, ends, c.state, p) IN
        /\ SoundTables(v) /\ Grown(t, v) /\ v.projects = t.projects /\ v.ok = t.ok
        /\ \A o \in ends : Live(v.objects, o)
    BY <2>1, MentionSound
  <2> QED
    BY <2>2 DEF ends
<1>2. u = IF c.op = "retract" THEN Close(m, OpenVersions(m, c)) ELSE Assert(m, c)
  BY DEF ApplyEffect
<1> HIDE DEF m, u
<1>3. OpenVersions(m, c) \in SUBSET m.relations
  BY DEF OpenVersions, Versions
<1>4. SoundTables(u) /\ Grown(m, u) /\ u.projects = m.projects /\ u.ok = m.ok
  <2>1. CASE c.op = "retract"
    BY <1>1, <1>2, <1>3, <2>1, CloseSound
  <2>2. CASE c.op # "retract"
    <3>1. Live(m.objects, c.from) /\ Live(m.objects, c.to)
      BY <1>1
    <3> QED
      BY <1>1, <1>2, <2>2, <3>1, AssertSound
  <2> QED
    BY <2>1, <2>2
<1>5. Grown(t, u)
  BY <1>1, <1>4, GrownTransitive
<1> QED
  BY <1>1, <1>4, <1>5 DEF u

\* The object of an owner and of each of its roots.
LEMMA WithRootsSound ==
  ASSUME NEW t, SoundTables(t), NEW p \in DOMAIN t.projects, NEW owner, Live(t.objects, owner),
         NEW scope, NEW roots
  PROVE  LET u == WithRoots(t, p, owner, scope, roots) IN
         SoundTables(u) /\ Grown(t, u) /\ u.projects = t.projects /\ Live(u.objects, owner)
<1> DEFINE uris == {<<"root", scope, root>> : root \in roots}
           project == [uri \in uris |-> p]
           v == EnsureObjects(t, project)
           u == EnsureRelations(v, owner, "HAS_REGISTERED_ROOT", uris, "confirmed")
<1>1. \A o \in DOMAIN project : project[o] \in DOMAIN t.projects \cup {NoProject}
  OBVIOUS
<1>2. DOMAIN project = uris
  OBVIOUS
<1> HIDE DEF uris, project
<1>3. /\ SoundTables(v) /\ Grown(t, v) /\ v.projects = t.projects
      /\ \A o \in uris : Live(v.objects, o)
      /\ \A o \in DOMAIN t.objects : Live(t.objects, o) => Live(v.objects, o)
  BY <1>1, <1>2, EnsureObjectsSound
<1>4. Live(v.objects, owner)
  BY <1>3 DEF Live
<1> HIDE DEF v
<1>5. SoundTables(u) /\ Grown(v, u) /\ u.projects = v.projects /\ u.objects = v.objects
  BY <1>3, <1>4, EnsureRelationsSound
<1>6. WithRoots(t, p, owner, scope, roots) = u
  BY DEF WithRoots, RootObjects, v, uris, project
<1> HIDE DEF u
<1> QED
  BY <1>3, <1>4, <1>5, <1>6, GrownTransitive

LEMMA WithScopesSound ==
  ASSUME NEW t, SoundTables(t), NEW ps \in SUBSET DOMAIN t.projects
  PROVE  LET u == WithScopes(t, ps) IN
         /\ SoundTables(u) /\ Grown(t, u) /\ u.projects = t.projects
         /\ \A o \in Scopes(ps) : Live(u.objects, o)
         /\ \A o \in DOMAIN t.objects : Live(t.objects, o) => Live(u.objects, o)
<1> DEFINE project == [uri \in Scopes(ps) |-> uri[2]]
<1>1. \A o \in DOMAIN project : project[o] \in DOMAIN t.projects \cup {NoProject}
  BY DEF Scopes
<1>2. DOMAIN project = Scopes(ps)
  OBVIOUS
<1>3. WithScopes(t, ps) = EnsureObjects(t, project)
  BY DEF WithScopes
<1> HIDE DEF project
<1> QED
  BY <1>1, <1>2, <1>3, EnsureObjectsSound

\* What was a candidate is a workspace, and no candidate any more.
LEMMA WithWorkspacesSound ==
  ASSUME NEW t, SoundTables(t), NEW group, Live(t.objects, group),
         NEW ps \in SUBSET DOMAIN t.projects
  PROVE  LET u == WithWorkspaces(t, group, ps) IN
         SoundTables(u) /\ Grown(t, u) /\ u.projects = t.projects /\ Live(u.objects, group)
<1> DEFINE v == WithScopes(t, ps)
           candidates == {rel \in v.relations :
             /\ rel.open /\ rel.from = group /\ rel.type = "MAY_INCLUDE_WORKSPACE"
             /\ rel.to \in Scopes(ps) /\ rel.state = "candidate"}
           w == Close(v, candidates)
           u == EnsureRelations(w, group, "HAS_REGISTERED_WORKSPACE", Scopes(ps), "confirmed")
<1>1. /\ SoundTables(v) /\ Grown(t, v) /\ v.projects = t.projects
      /\ \A o \in Scopes(ps) : Live(v.objects, o)
      /\ \A o \in DOMAIN t.objects : Live(t.objects, o) => Live(v.objects, o)
  BY WithScopesSound
<1>2. candidates \in SUBSET v.relations
  OBVIOUS
<1>3. Live(v.objects, group)
  BY <1>1 DEF Live
<1>4. WithWorkspaces(t, group, ps) = u
  BY DEF WithWorkspaces
<1> HIDE DEF candidates, v
<1>5. SoundTables(w) /\ Grown(v, w) /\ w.projects = v.projects /\ w.objects = v.objects
  BY <1>1, <1>2, CloseSound
<1> HIDE DEF w
<1>6. SoundTables(u) /\ Grown(w, u) /\ u.projects = w.projects /\ u.objects = w.objects
  BY <1>1, <1>3, <1>5, EnsureRelationsSound
<1> HIDE DEF u
<1>7. Grown(t, u)
  BY <1>1, <1>5, <1>6 DEF Grown
<1> QED
  BY <1>1, <1>3, <1>4, <1>5, <1>6, <1>7

LEMMA WithCandidatesSound ==
  ASSUME NEW t, SoundTables(t), NEW group, Live(t.objects, group),
         NEW ps \in SUBSET DOMAIN t.projects
  PROVE  LET u == WithCandidates(t, group, ps) IN
         SoundTables(u) /\ Grown(t, u) /\ u.projects = t.projects
<1> DEFINE v == WithScopes(t, ps)
           u == EnsureRelations(v, group, "MAY_INCLUDE_WORKSPACE", Scopes(ps), "candidate")
<1>1. /\ SoundTables(v) /\ Grown(t, v) /\ v.projects = t.projects
      /\ \A o \in Scopes(ps) : Live(v.objects, o)
      /\ \A o \in DOMAIN t.objects : Live(t.objects, o) => Live(v.objects, o)
  BY WithScopesSound
<1>2. Live(v.objects, group)
  BY <1>1 DEF Live
<1>3. WithCandidates(t, group, ps) = u
  BY DEF WithCandidates
<1> HIDE DEF v
<1>4. SoundTables(u) /\ Grown(v, u) /\ u.projects = v.projects /\ u.objects = v.objects
  BY <1>1, <1>2, EnsureRelationsSound
<1> HIDE DEF u
<1> QED
  BY <1>1, <1>3, <1>4, GrownTransitive

-----------------------------------------------------------------------------
(* The projects of a registry *)

\* What loadCodexRegistry makes of an input.
Codices ==
  [codex : Codex, name : Name, aliases : SUBSET Name, roots : SUBSET Root,
   adopt : SUBSET Uri, adoptObject : SUBSET Object, replace : BOOLEAN]
Independents == [name : Name, source : Uri, aliases : SUBSET Name, roots : SUBSET Root]
Registries ==
  [projects : Seq(Codices), independents : Seq(Independents),
   supersedeAliases : Seq([owner : Uri, alias : Name, by : Codex]),
   supersedeObjects : Seq([object : Object, by : Object]),
   standalone : Seq([owner : Uri, aliases : SUBSET Name])]

LEMMA SequenceOfRows ==
  ASSUME NEW n \in Nat, NEW S, NEW f \in [1 .. n -> S]
  PROVE  f \in Seq(S)
BY SeqDef

LEMMA UniqueIsMember ==
  ASSUME NEW S, Unique(S)
  PROVE  TheOne(S) \in S
<1>1. S # {}
  BY FS_EmptySet DEF Unique
<1> QED
  BY <1>1 DEF TheOne

LEMMA RegistryTyped ==
  ASSUME NEW input \in Input, NEW present \in SUBSET Root
  PROVE  Registry(input, present) \in Registries
<1> DEFINE r == Registry(input, present)
           Project(i) == Discovered(input.projects[i].entry, input.projects[i].override, present)
           Independent(i) == Listed(input.independents[i], present)
           projects == [i \in DOMAIN input.projects |-> Project(i)]
           independents == [i \in DOMAIN input.independents |-> Independent(i)]
<1>1. r = [input EXCEPT !.projects = projects, !.independents = independents]
  BY DEF Registry
<1>2. projects \in Seq(Codices)
  <2> DEFINE n == Len(input.projects)
  <2> DEFINE Item == [entry : [codex : Codex, name : Name, roots : SUBSET Root],
                      override : [name : SUBSET Name, aliases : SUBSET Name,
                                  roots : SUBSET Root, adopt : SUBSET Uri,
                                  adoptObject : SUBSET Object, replace : BOOLEAN]]
  <2>0. input.projects \in Seq(Item)
    BY DEF Input
  <2>1. /\ n \in Nat /\ DOMAIN input.projects = 1 .. n
        /\ \A i \in 1 .. n : input.projects[i] \in Item
    <3> HIDE DEF Item
    <3> QED
      BY <2>0
  <2>2. ASSUME NEW i \in 1 .. n
        PROVE  Project(i) \in Codices
    <3> DEFINE entry == input.projects[i].entry
               override == input.projects[i].override
               name == IF override.name = {} THEN entry.name ELSE TheOne(override.name)
    <3>1. /\ entry \in [codex : Codex, name : Name, roots : SUBSET Root]
          /\ override \in [name : SUBSET Name, aliases : SUBSET Name, roots : SUBSET Root,
                           adopt : SUBSET Uri, adoptObject : SUBSET Object, replace : BOOLEAN]
      BY <2>1
    <3> HIDE DEF entry, override
    <3>2. name \in Name
      BY <3>1 DEF TheOne
    <3>3. Discovered(entry, override, present) =
            [codex |-> entry.codex, name |-> name,
             aliases |-> {name, entry.name} \cup override.aliases,
             roots |-> ((entry.roots \cup override.roots) \ {Home}) \cap present,
             adopt |-> override.adopt, adoptObject |-> override.adoptObject,
             replace |-> override.replace]
      BY DEF Discovered
    <3> HIDE DEF name
    <3>4. Discovered(entry, override, present) \in Codices
      BY <3>1, <3>2, <3>3 DEF Codices
    <3> QED
      BY <3>4 DEF entry, override
  <2> HIDE DEF Project, n
  <2> QED
    BY <2>1, <2>2, SequenceOfRows
<1>3. independents \in Seq(Independents)
  <2> DEFINE n == Len(input.independents)
  <2>0. input.independents \in Seq(Independents)
    BY DEF Input, Independents
  <2>1. /\ n \in Nat /\ DOMAIN input.independents = 1 .. n
        /\ \A i \in 1 .. n : input.independents[i] \in Independents
    BY <2>0
  <2>2. ASSUME NEW i \in 1 .. n
        PROVE  Independent(i) \in Independents
    <3>1. input.independents[i] \in Independents
      BY <2>1
    <3> QED
      BY <3>1 DEF Independents, Listed
  <2> HIDE DEF Independent, n
  <2> QED
    BY <2>1, <2>2, SequenceOfRows
<1> HIDE DEF projects, independents
<1>4. r \in Registries
  BY <1>1, <1>2, <1>3 DEF Registries, Input
<1> QED
  BY <1>4

LEMMA AdoptedIsRow ==
  ASSUME NEW ps, NEW e
  PROVE  Adopted(ps, e) \in DOMAIN ps \cup {NoProject}
<1> DEFINE explicit == IF e.adopt = {} THEN {} ELSE Owners(ps, TheOne(e.adopt))
           byCodexId == {p \in DOMAIN ps : ps[p].codex = e.codex}
           byCodexUri == {p \in DOMAIN ps : ps[p].source = CodexUri(e.codex)}
           byRoot == {p \in DOMAIN ps : /\ ps[p].source \in e.roots
                                        /\ ps[p].codex \in {NoCodex, e.codex}}
<1>1. explicit \subseteq DOMAIN ps /\ byCodexId \subseteq DOMAIN ps
      /\ byCodexUri \subseteq DOMAIN ps /\ byRoot \subseteq DOMAIN ps
  BY DEF Owners
<1>2. Adopted(ps, e) =
        CASE Unique(explicit)   -> TheOne(explicit)
          [] ~Unique(explicit) /\ Unique(byCodexId) -> TheOne(byCodexId)
          [] ~Unique(explicit) /\ byCodexId = {} /\ Unique(byCodexUri) -> TheOne(byCodexUri)
          [] ~Unique(explicit) /\ byCodexId = {} /\ byCodexUri = {} /\ Unique(byRoot) ->
               TheOne(byRoot)
          [] OTHER -> NoProject
  BY DEF Adopted
<1> HIDE DEF explicit, byCodexId, byCodexUri, byRoot
<1> QED
  BY <1>1, <1>2, UniqueIsMember

LEMMA BySourceIsRow ==
  ASSUME NEW ps, NEW u
  PROVE  /\ BySource(ps, u) \in DOMAIN ps \cup {NoProject}
         /\ BySource(ps, u) = NoProject \/ ps[BySource(ps, u)].source = u
BY DEF BySource, TheOne, NoProject

\* The row that is written: a new one at the end, or the one that is there.
LEMMA SaveProjectSound ==
  ASSUME NEW t, SoundTables(t), NEW p \in DOMAIN t.projects \cup {NoProject},
         NEW e, e.name \in Name, NEW target \in Uri, NEW codex \in Codex \cup {NoCodex}
  PROVE  LET u == SaveProject(t, p, e, target, codex)
             q == IF p = NoProject THEN Len(t.projects) + 1 ELSE p IN
         SoundTables(u) /\ Grown(t, u) /\ q \in DOMAIN u.projects
<1> DEFINE u == SaveProject(t, p, e, target, codex)
<1>0. /\ t.projects \in Seq(Row) /\ Len(t.projects) \in Nat
      /\ DOMAIN t.projects = 1 .. Len(t.projects)
  BY DEF SoundTables
<1>1. CASE p = NoProject
  <2> DEFINE row == [Blank(e.name, target) EXCEPT !.codex = codex,
                                                  !.aliases = [n \in Name |-> "none"]]
             ps == Append(t.projects, row)
  <2>1. row \in Row
    BY DEF Blank, Row
  <2>2. u = WithProjects(t, ps)
    BY <1>1 DEF SaveProject
  <2> HIDE DEF row
  <2>3. ps \in Seq(Row) /\ Len(ps) = Len(t.projects) + 1 /\ DOMAIN ps = 1 .. Len(ps)
    BY <1>0, <2>1
  <2> HIDE DEF ps, u
  <2>4. DOMAIN t.projects \subseteq DOMAIN ps /\ Len(t.projects) + 1 \in DOMAIN ps
    BY <1>0, <2>3
  <2>5. SoundTables(u) /\ Grown(t, u) /\ u.projects = ps
    BY <2>2, <2>3, <2>4, WithProjectsSound
  <2> QED
    BY <1>1, <2>4, <2>5 DEF u
<1>2. CASE p # NoProject
  <2> DEFINE old == t.projects[p]
             row == [old EXCEPT !.name = e.name, !.source = target, !.status = "confirmed",
                                !.codex = codex,
                                !.old = @ \cup ({old.source} \ {target})]
             ps == [t.projects EXCEPT ![p] = row]
  <2>1. p \in DOMAIN t.projects /\ old \in Row
    BY <1>0, <1>2
  <2>2. row \in Row
    BY <2>1 DEF Row
  <2>3. u = WithProjects(t, ps)
    BY <1>2 DEF SaveProject
  <2> HIDE DEF row
  <2>4. ps \in Seq(Row) /\ DOMAIN ps = DOMAIN t.projects
    BY <1>0, <2>1, <2>2
  <2> HIDE DEF ps, u
  <2>5. SoundTables(u) /\ Grown(t, u) /\ u.projects = ps
    BY <2>3, <2>4, WithProjectsSound
  <2> QED
    BY <1>2, <2>1, <2>4, <2>5 DEF u
<1> QED
  BY <1>1, <1>2

\* A Codex project: its row, its identities, its group, and what is at its roots
\* or has its names.
LEMMA RegisterCodexSound ==
  ASSUME NEW t, SoundTables(t), NEW ps \in Seq(Row), DOMAIN ps \subseteq DOMAIN t.projects,
         NEW e \in Codices, NEW superseded
  PROVE  LET u == RegisterCodex(t, ps, e, superseded) IN SoundTables(u) /\ Grown(t, u)
<1> DEFINE adopted == Adopted(ps, e)
           p == IF adopted = NoProject THEN Len(t.projects) + 1 ELSE adopted
           group == IF e.adoptObject = {} THEN <<"group", e.codex>> ELSE TheOne(e.adoptObject)
           saved == SaveProject(t, adopted, e, TargetSource(ps, e), e.codex)
           named == WithIdentities(saved, p, e.aliases)
           owned == EnsureObject(named, group, p)
           rooted == WithRoots(owned, p, group, <<"group", e.codex>>, e.roots)
           scoped == WithWorkspaces(rooted, group, Workspaces(ps, e))
           u == WithCandidates(scoped, group, Candidates(ps, e, superseded))
<1>1. adopted \in DOMAIN ps \cup {NoProject}
  BY AdoptedIsRow
<1>2. Workspaces(ps, e) \subseteq DOMAIN ps /\ Candidates(ps, e, superseded) \subseteq DOMAIN ps
  BY DEF Workspaces, Candidates
<1>3. e.name \in Name /\ e.codex \in Codex
  BY DEF Codices
<1>4. TargetSource(ps, e) \in Uri
  <2>1. CASE e.replace \/ adopted = NoProject
    BY <1>3, <2>1, TablesAssumption DEF TargetSource
  <2>2. CASE ~(e.replace \/ adopted = NoProject)
    <3>1. ps[adopted] \in Row
      BY <1>1, <2>2
    <3> QED
      BY <2>2, <3>1 DEF TargetSource, Row
  <2> QED
    BY <2>1, <2>2
<1>5. RegisterCodex(t, ps, e, superseded) = u
  BY DEF RegisterCodex, GroupOf
<1> HIDE DEF adopted
<1>6. SoundTables(saved) /\ Grown(t, saved) /\ p \in DOMAIN saved.projects
  BY <1>1, <1>3, <1>4, SaveProjectSound
<1> HIDE DEF saved, p
<1>7. SoundTables(named) /\ Grown(saved, named) /\ p \in DOMAIN named.projects
  BY <1>6, WithIdentitiesSound
<1> HIDE DEF named
<1>8. SoundTables(owned) /\ Grown(named, owned) /\ p \in DOMAIN owned.projects
      /\ Live(owned.objects, group)
  <2> DEFINE project == [o \in {group} |-> p]
  <2>1. \A o \in DOMAIN project : project[o] \in DOMAIN named.projects \cup {NoProject}
    BY <1>7
  <2>2. group \in DOMAIN project
    OBVIOUS
  <2>3. owned = EnsureObjects(named, project)
    BY DEF EnsureObject
  <2> HIDE DEF project, group, owned
  <2> QED
    BY <1>7, <2>1, <2>2, <2>3, EnsureObjectsSound
<1> HIDE DEF owned, group
<1>9. SoundTables(rooted) /\ Grown(owned, rooted) /\ Live(rooted.objects, group)
  BY <1>8, WithRootsSound
<1> HIDE DEF rooted
<1>10. Grown(t, rooted)
  BY <1>6, <1>7, <1>8, <1>9, GrownTransitive
<1>11. Workspaces(ps, e) \in SUBSET DOMAIN rooted.projects
  BY <1>2, <1>10 DEF Grown
<1>12. SoundTables(scoped) /\ Grown(rooted, scoped) /\ Live(scoped.objects, group)
  BY <1>9, <1>11, WithWorkspacesSound
<1> HIDE DEF scoped
<1>13. Candidates(ps, e, superseded) \in SUBSET DOMAIN scoped.projects
  BY <1>2, <1>10, <1>12 DEF Grown
<1>14. SoundTables(u) /\ Grown(scoped, u)
  BY <1>12, <1>13, WithCandidatesSound
<1> HIDE DEF u
<1>15. Grown(t, u)
  BY <1>10, <1>12, <1>14, GrownTransitive
<1> QED
  BY <1>5, <1>14, <1>15

\* A project that Codex does not know: the same without a group.
LEMMA RegisterIndependentSound ==
  ASSUME NEW t, SoundTables(t), NEW ps \in Seq(Row), DOMAIN ps \subseteq DOMAIN t.projects,
         NEW e \in Independents
  PROVE  LET u == RegisterIndependent(t, ps, e) IN SoundTables(u) /\ Grown(t, u)
<1> DEFINE own == BySource(ps, e.source)
           p == IF own = NoProject THEN Len(t.projects) + 1 ELSE own
           scope == <<"registered", e.source>>
           codex == IF own = NoProject THEN NoCodex ELSE ps[own].codex
           saved == SaveProject(t, own, e, e.source, codex)
           named == WithIdentities(saved, p, e.aliases)
           owned == EnsureObject(named, scope, p)
           u == WithRoots(owned, p, scope, scope, e.roots)
<1>1. own \in DOMAIN ps \cup {NoProject}
  BY BySourceIsRow
<1>2. e.name \in Name /\ e.source \in Uri
  BY DEF Independents
<1> HIDE DEF own
<1>3. codex \in Codex \cup {NoCodex}
  <2>1. CASE own # NoProject
    <3>1. ps[own] \in Row
      BY <1>1, <2>1
    <3> QED
      BY <2>1, <3>1 DEF Row
  <2> QED
    BY <2>1
<1>4. RegisterIndependent(t, ps, e) = u
  BY DEF RegisterIndependent, own
<1> HIDE DEF codex
<1>5. SoundTables(saved) /\ Grown(t, saved) /\ p \in DOMAIN saved.projects
  BY <1>1, <1>2, <1>3, SaveProjectSound
<1> HIDE DEF saved, p
<1>6. SoundTables(named) /\ Grown(saved, named) /\ p \in DOMAIN named.projects
  BY <1>5, WithIdentitiesSound
<1> HIDE DEF named
<1>7. SoundTables(owned) /\ Grown(named, owned) /\ p \in DOMAIN owned.projects
      /\ Live(owned.objects, scope)
  <2> DEFINE project == [o \in {scope} |-> p]
  <2>1. \A o \in DOMAIN project : project[o] \in DOMAIN named.projects \cup {NoProject}
    BY <1>6
  <2>2. scope \in DOMAIN project
    OBVIOUS
  <2>3. owned = EnsureObjects(named, project)
    BY DEF EnsureObject
  <2> HIDE DEF project, scope, owned
  <2> QED
    BY <1>6, <2>1, <2>2, <2>3, EnsureObjectsSound
<1> HIDE DEF owned, scope
<1>8. SoundTables(u) /\ Grown(owned, u)
  BY <1>7, WithRootsSound
<1> HIDE DEF u
<1>9. Grown(t, u)
  BY <1>5, <1>6, <1>7, <1>8, GrownTransitive
<1> QED
  BY <1>4, <1>8, <1>9

-----------------------------------------------------------------------------
(* A whole apply *)

\* One part of an apply and what is said of it before.
PartFits(t, r, part) ==
  \/ part.kind = "alias"
  \/ part.kind = "object" /\ part.of.object \in DOMAIN t.objects
  \/ part.kind = "standalone"
  \/ part.kind = "codex" /\ part.of \in Codices
  \/ part.kind = "independent" /\ part.of \in Independents

LEMMA AppliedSound ==
  ASSUME NEW t, NEW ps \in Seq(Row), SoundTables(t),
         DOMAIN ps \subseteq DOMAIN t.projects,
         NEW r, NEW part, PartFits(t, r, part)
  PROVE  LET u == Applied(t, ps, r, part) IN SoundTables(u) /\ Grown(t, u)
<1>1. CASE part.kind = "alias"
  <2>1. Applied(t, ps, r, part) = RejectAlias(t, part.of)
    BY <1>1 DEF Applied
  <2> QED
    BY <2>1, RejectAliasSound
<1>2. CASE part.kind = "object" /\ part.of.object \in DOMAIN t.objects
  <2>1. Applied(t, ps, r, part) = RejectObject(t, part.of)
    BY <1>2 DEF Applied
  <2> QED
    BY <1>2, <2>1, RejectObjectSound
<1>3. CASE part.kind = "standalone"
  <2>1. Applied(t, ps, r, part) =
          WithIdentities(t, TheOne(Owners(ps, part.of.owner)), part.of.aliases)
    BY <1>3 DEF Applied
  <2> QED
    BY <2>1, WithIdentitiesSound
<1>4. CASE part.kind = "codex" /\ part.of \in Codices
  <2>1. Applied(t, ps, r, part) = RegisterCodex(t, ps, part.of, Superseded(r))
    BY <1>4 DEF Applied
  <2> QED
    BY <1>4, <2>1, RegisterCodexSound
<1>5. CASE part.kind = "independent" /\ part.of \in Independents
  <2>1. Applied(t, ps, r, part) = RegisterIndependent(t, ps, part.of)
    BY <1>5 DEF Applied
  <2> QED
    BY <1>5, <2>1, RegisterIndependentSound
<1> QED
  BY <1>1, <1>2, <1>3, <1>4, <1>5 DEF PartFits

LEMMA EachTyped ==
  ASSUME NEW S, NEW rules \in Seq(S), NEW kind, NEW X,
         \A x \in S : x \in Range(rules) => [kind |-> kind, of |-> x] \in X
  PROVE  Each(kind, rules) \in Seq(X)
<1>1. Len(rules) \in Nat /\ DOMAIN rules = 1 .. Len(rules)
      /\ \A i \in 1 .. Len(rules) : rules[i] \in S
  OBVIOUS
<1>2. \A i \in 1 .. Len(rules) : rules[i] \in Range(rules)
  BY <1>1 DEF Range
<1>3. Each(kind, rules) \in [1 .. Len(rules) -> X]
  BY <1>1, <1>2 DEF Each
<1> QED
  BY <1>1, <1>3, SequenceOfRows

\* Each part is one of the registry's, of the kind it is tagged with.
LEMMA PartsFit ==
  ASSUME NEW t, NEW r \in Registries, RulesApply(t, r)
  PROVE  /\ Len(Parts(r)) \in Nat
         /\ \A i \in 1 .. Len(Parts(r)) : PartFits(t, r, Parts(r)[i])
<1> DEFINE Tag(kind, rules) == {[kind |-> kind, of |-> x] : x \in Range(rules)}
           X == Tag("alias", r.supersedeAliases) \cup Tag("object", r.supersedeObjects)
                \cup Tag("standalone", r.standalone) \cup Tag("codex", r.projects)
                \cup Tag("independent", r.independents)
<1>1. /\ r.supersedeAliases \in Seq([owner : Uri, alias : Name, by : Codex])
      /\ r.supersedeObjects \in Seq([object : Object, by : Object])
      /\ r.standalone \in Seq([owner : Uri, aliases : SUBSET Name])
      /\ r.projects \in Seq(Codices) /\ r.independents \in Seq(Independents)
  BY DEF Registries
<1>2. \A part \in X : PartFits(t, r, part)
  <2>1. \A part \in Tag("alias", r.supersedeAliases) : PartFits(t, r, part)
    BY DEF PartFits
  <2>2. \A part \in Tag("object", r.supersedeObjects) : PartFits(t, r, part)
    BY DEF PartFits, RulesApply
  <2>3. \A part \in Tag("standalone", r.standalone) : PartFits(t, r, part)
    BY DEF PartFits
  <2>4. \A part \in Tag("codex", r.projects) : PartFits(t, r, part)
    <3>1. \A x \in Range(r.projects) : x \in Codices
      BY <1>1 DEF Range
    <3> QED
      BY <3>1 DEF PartFits
  <2>5. \A part \in Tag("independent", r.independents) : PartFits(t, r, part)
    <3>1. \A x \in Range(r.independents) : x \in Independents
      BY <1>1 DEF Range
    <3> QED
      BY <3>1 DEF PartFits
  <2> HIDE DEF Tag
  <2> QED
    BY <2>1, <2>2, <2>3, <2>4, <2>5
<1>3. /\ Tag("alias", r.supersedeAliases) \subseteq X
      /\ Tag("object", r.supersedeObjects) \subseteq X
      /\ Tag("standalone", r.standalone) \subseteq X
      /\ Tag("codex", r.projects) \subseteq X
      /\ Tag("independent", r.independents) \subseteq X
  <2> HIDE DEF Tag
  <2> QED
    OBVIOUS
<1> HIDE DEF X
<1>4. /\ Each("alias", r.supersedeAliases) \in Seq(X)
      /\ Each("object", r.supersedeObjects) \in Seq(X)
      /\ Each("standalone", r.standalone) \in Seq(X)
      /\ Each("codex", r.projects) \in Seq(X)
      /\ Each("independent", r.independents) \in Seq(X)
  <2>1. ASSUME NEW kind, NEW S, NEW rules \in Seq(S), Tag(kind, rules) \subseteq X
        PROVE  Each(kind, rules) \in Seq(X)
    <3>1. \A x \in S : x \in Range(rules) => [kind |-> kind, of |-> x] \in X
      BY <2>1
    <3> QED
      BY <3>1, EachTyped
  <2> HIDE DEF Tag
  <2> QED
    BY <1>1, <1>3, <2>1
<1>5. Parts(r) \in Seq(X)
  BY <1>4 DEF Parts
<1> QED
  BY <1>2, <1>5

\* Each part of an apply leaves sound tables to the next.
LEMMA AllAppliedSound ==
  ASSUME NEW t, SoundTables(t), NEW r \in Registries, RulesApply(t, r)
  PROVE  SoundTables(AllApplied(t, r)) /\ Grown(t, AllApplied(t, r))
<1> DEFINE n == Len(Parts(r))
<1>1. n \in Nat /\ \A i \in 1 .. n : PartFits(t, r, Parts(r)[i])
  BY PartsFit
<1>2. PICK f : Trace(f, t, r, n) /\ AllApplied(t, r) = f[n]
  BY <1>1, AllAppliedIsTraced
<1> HIDE DEF n
<1>3. /\ f[0] = t
      /\ \A i \in 1 .. n : f[i] = Applied(f[i - 1], t.projects, r, Parts(r)[i])
  BY <1>1, <1>2 DEF Trace
<1> DEFINE T == {i \in Nat : i <= n => SoundTables(f[i]) /\ Grown(t, f[i])}
<1>4. 0 \in T
  BY <1>3 DEF Grown
<1>5. ASSUME NEW i \in Nat, i \in T
      PROVE  i + 1 \in T
  <2> SUFFICES ASSUME i + 1 <= n
               PROVE  SoundTables(f[i + 1]) /\ Grown(t, f[i + 1])
    OBVIOUS
  <2> DEFINE part == Parts(r)[i + 1]
  <2>1. SoundTables(f[i]) /\ Grown(t, f[i])
    BY <1>1, <1>5
  <2>2. i + 1 \in 1 .. n /\ (i + 1) - 1 = i
    BY <1>1
  <2>3. f[i + 1] = Applied(f[i], t.projects, r, part)
    BY <1>3, <2>2
  <2>4. PartFits(t, r, part)
    BY <1>1, <2>2
  <2> HIDE DEF part
  <2>5. PartFits(f[i], r, part)
    BY <2>1, <2>4 DEF PartFits, Grown
  <2>6. t.projects \in Seq(Row) /\ DOMAIN t.projects \subseteq DOMAIN f[i].projects
    BY <2>1 DEF SoundTables, Grown
  <2>7. SoundTables(f[i + 1]) /\ Grown(f[i], f[i + 1])
    BY <2>1, <2>3, <2>5, <2>6, AppliedSound
  <2> QED
    BY <2>1, <2>7, GrownTransitive
<1>6. n \in T
  <2> HIDE DEF T
  <2> QED
    BY <1>1, <1>4, <1>5, SetInduction
<1> QED
  BY <1>1, <1>2, <1>6

\* An apply as a whole: it commits sound tables, or leaves what there was.
LEMMA ReconciledSound ==
  ASSUME NEW t, SoundTables(t), t.ok, NEW r \in Registries
  PROVE  LET u == Reconciled(t, r) IN SoundTables(u) /\ u.ok /\ Grown(t, u)
<1>1. CASE Plannable(t, r) /\ Accepted(AllApplied(t, r), r)
  <2>1. SoundTables(AllApplied(t, r)) /\ Grown(t, AllApplied(t, r))
    BY <1>1, AllAppliedSound DEF Plannable
  <2> QED
    BY <1>1, <2>1 DEF Reconciled, Accepted
<1>2. CASE ~(Plannable(t, r) /\ Accepted(AllApplied(t, r), r))
  <2>1. Reconciled(t, r) = t
    BY <1>2 DEF Reconciled
  <2> QED
    BY <2>1 DEF Grown
<1> QED
  BY <1>1, <1>2

-----------------------------------------------------------------------------
(***************************************************************************)
(* The rest is about a registry that is applied again (Repeatable).  Each  *)
(* statement changes nothing if it finds what it would write; so the parts *)
(* of the second apply change nothing, one by one, if the tables that the  *)
(* first has left are what each of them would write.  The proof follows    *)
(* what a part writes through all later parts of the first apply: its row, *)
(* its aliases, its objects, its relations.                                *)
(***************************************************************************)
(* Statements that find what they would write *)

\* An object is as a registry ensures it.
Confirmed(u, o, p) ==
  o \in DOMAIN u.objects /\ u.objects[o] = [state |-> "confirmed", project |-> p]

\* The state in which a registry asserts relations of a type.
StateOf(type) == IF type = "MAY_INCLUDE_WORKSPACE" THEN "candidate" ELSE "confirmed"

\* A current relation in the registry's state, which is the only one it looks at;
\* agents may have asserted others beside it.
Ours(rel) == rel.open /\ rel.state = StateOf(rel.type)

\* What is current in the registry's state.
Currents(u) == {<<rel.from, rel.type, rel.to>> : rel \in {rel \in u.relations : Ours(rel)}}

LEMMA CurrentsMember ==
  ASSUME NEW u, NEW from, NEW type, NEW to
  PROVE  <<from, type, to>> \in Currents(u) <=>
           \E rel \in u.relations :
             Ours(rel) /\ rel.from = from /\ rel.type = type /\ rel.to = to
BY DEF Currents

\* Rows that are written as they are fail no index.
LEMMA SameProjects ==
  ASSUME NEW u, SoundTables(u), u.ok
  PROVE  WithProjects(u, u.projects) = u
<1>1. (u.ok /\ Indexed(u.projects)) = u.ok
  BY DEF SoundTables
<1>2. [u EXCEPT !.projects = u.projects, !.ok = u.ok] = u
  BY DEF SoundTables, Shaped
<1> QED
  BY <1>1, <1>2 DEF WithProjects

\* A row that is replaced by itself.
LEMMA SameRow ==
  ASSUME NEW ps \in Seq(Row), NEW p \in DOMAIN ps, NEW row, row = ps[p]
  PROVE  [ps EXCEPT ![p] = row] = ps
OBVIOUS

\* Aliases that are replaced by themselves.
LEMMA SameAliases ==
  ASSUME NEW ps \in Seq(Row), NEW p \in DOMAIN ps, NEW aliases, aliases = ps[p].aliases
  PROVE  [ps EXCEPT ![p].aliases = aliases] = ps
<1>1. ps[p] \in Row
  OBVIOUS
<1>2. [ps[p] EXCEPT !.aliases = aliases] = ps[p]
  BY <1>1 DEF Row
<1>3. [ps EXCEPT ![p] = [ps[p] EXCEPT !.aliases = aliases]] = ps
  BY <1>2, SameRow
<1> QED
  BY <1>3

\* Names that are identities of the project already.
LEMMA IdentitiesThere ==
  ASSUME NEW u, SoundTables(u), u.ok, NEW p \in DOMAIN u.projects, NEW names,
         \A n \in Name : n \in names => u.projects[p].aliases[n] = "identity"
  PROVE  WithIdentities(u, p, names) = u
<1> DEFINE aliases == [n \in Name |-> IF n \in names THEN "identity" ELSE u.projects[p].aliases[n]]
<1>1. u.projects \in Seq(Row) /\ u.projects[p] \in Row
  BY DEF SoundTables
<1>2. u.projects[p].aliases = [n \in Name |-> u.projects[p].aliases[n]]
  BY <1>1 DEF Row
<1>3. aliases = u.projects[p].aliases
  BY <1>2
<1>4. WithIdentities(u, p, names) = WithProjects(u, [u.projects EXCEPT ![p].aliases = aliases])
  BY DEF WithIdentities
<1> HIDE DEF aliases
<1> QED
  BY <1>1, <1>3, <1>4, SameAliases, SameProjects

\* An alias that is rejected already.
LEMMA AliasRejectedThere ==
  ASSUME NEW u, SoundTables(u), u.ok, NEW s, s.alias \in Name,
         NEW p \in DOMAIN u.projects, p = TheOne(Owners(u.projects, s.owner)),
         u.projects[p].aliases[s.alias] = "rejected"
  PROVE  RejectAlias(u, s) = u
<1> DEFINE aliases == [u.projects[p].aliases EXCEPT ![s.alias] = "rejected"]
<1>1. u.projects \in Seq(Row) /\ u.projects[p] \in Row
  BY DEF SoundTables
<1>2. aliases = u.projects[p].aliases
  BY <1>1 DEF Row
<1>3. RejectAlias(u, s) = WithProjects(u, [u.projects EXCEPT ![p].aliases = aliases])
  BY DEF RejectAlias
<1> HIDE DEF aliases
<1> QED
  BY <1>1, <1>2, <1>3, SameAliases, SameProjects

\* A row that has the name, source, state and Codex id already.
LEMMA ProjectSaved ==
  ASSUME NEW u, SoundTables(u), u.ok, NEW p \in DOMAIN u.projects, NEW e, NEW target, NEW codex,
         u.projects[p].name = e.name, u.projects[p].source = target,
         u.projects[p].status = "confirmed", u.projects[p].codex = codex
  PROVE  SaveProject(u, p, e, target, codex) = u
<1> DEFINE row == u.projects[p]
           new == [row EXCEPT !.name = e.name, !.source = target, !.status = "confirmed",
                              !.codex = codex, !.old = @ \cup ({row.source} \ {target})]
<1>1. u.projects \in Seq(Row) /\ row \in Row
  BY DEF SoundTables
<1>2. row.old \cup ({row.source} \ {target}) = row.old
  OBVIOUS
<1>3. new = row
  BY <1>1, <1>2 DEF Row
<1>4. p # NoProject
  BY <1>1 DEF NoProject
<1>5. SaveProject(u, p, e, target, codex) = WithProjects(u, [u.projects EXCEPT ![p] = new])
  BY <1>4 DEF SaveProject
<1> HIDE DEF new
<1> QED
  BY <1>1, <1>3, <1>5, SameRow, SameProjects

\* Objects that are confirmed already, of the same projects.
LEMMA ObjectsThere ==
  ASSUME NEW u, SoundTables(u), NEW project,
         \A o \in DOMAIN project : Confirmed(u, o, project[o])
  PROVE  EnsureObjects(u, project) = u
<1> DEFINE objects == [o \in DOMAIN u.objects \cup DOMAIN project |->
                         IF o \in DOMAIN project
                           THEN [state |-> "confirmed", project |-> project[o]]
                           ELSE u.objects[o]]
<1>1. DOMAIN u.objects \cup DOMAIN project = DOMAIN u.objects
  BY DEF Confirmed
<1>2. u.objects = [o \in DOMAIN u.objects |-> u.objects[o]]
  BY DEF SoundTables
<1>3. objects = u.objects
  BY <1>1, <1>2 DEF Confirmed
<1>4. EnsureObjects(u, project) = [u EXCEPT !.objects = objects]
  BY DEF EnsureObjects
<1> HIDE DEF objects
<1> QED
  BY <1>3, <1>4 DEF SoundTables, Shaped

\* Relations that are current already.
LEMMA RelationsThere ==
  ASSUME NEW u, SoundTables(u), NEW from, NEW type, NEW ends, NEW state, state = StateOf(type),
         \A to \in ends : <<from, type, to>> \in Currents(u)
  PROVE  EnsureRelations(u, from, type, ends, state) = u
<1> DEFINE missing == {to \in ends : ~\E rel \in Versions(u, from, type, to) :
                                         rel.open /\ rel.state = state}
           New(to) == [from |-> from, type |-> type, to |-> to, state |-> state, open |-> TRUE,
                       version |-> Cardinality(Versions(u, from, type, to)) + 1]
<1>1. missing = {}
  <2> SUFFICES ASSUME NEW to \in ends
               PROVE  \E rel \in Versions(u, from, type, to) : rel.open /\ rel.state = state
    OBVIOUS
  <2>0. <<from, type, to>> \in Currents(u)
    OBVIOUS
  <2>1. PICK rel \in u.relations :
          Ours(rel) /\ rel.from = from /\ rel.type = type /\ rel.to = to
    BY <2>0, CurrentsMember
  <2> QED
    BY <2>1 DEF Versions, Ours
<1>2. EnsureRelations(u, from, type, ends, state) =
        [u EXCEPT !.relations = u.relations \cup {New(to) : to \in missing}]
  BY DEF EnsureRelations
<1> HIDE DEF missing, New
<1>3. u.relations \cup {New(to) : to \in missing} = u.relations
  BY <1>1
<1> QED
  BY <1>2, <1>3 DEF SoundTables, Shaped

\* Closing none changes nothing.
LEMMA NothingToClose ==
  ASSUME NEW u, SoundTables(u)
  PROVE  Close(u, {}) = u
<1>1. Close(u, {}) =
        [u EXCEPT !.relations = (u.relations \ {}) \cup {[rel EXCEPT !.open = FALSE] : rel \in {}}]
  BY DEF Close
<1>2. (u.relations \ {}) \cup {[rel EXCEPT !.open = FALSE] : rel \in {}} = u.relations
  OBVIOUS
<1> QED
  BY <1>1, <1>2 DEF SoundTables, Shaped

\* An object that is retired already: it has no current relation to close.
LEMMA ObjectRejectedThere ==
  ASSUME NEW u, SoundTables(u), NEW s, s.object \in DOMAIN u.objects,
         u.objects[s.object].state = "rejected"
  PROVE  RejectObject(u, s) = u
<1> DEFINE o == s.object
           touched == {rel \in u.relations : rel.open /\ Touches(rel, o)}
           rejected == [u EXCEPT !.objects[s.object].state = "rejected"]
<1>1. touched = {}
  BY DEF SoundTables, SoundRelations, SoundRelation, Live, Touches
<1>2. rejected = u
  <2>1. u.objects[o] \in ObjectRow(u.projects)
    BY DEF SoundTables
  <2>2. [u.objects[o] EXCEPT !.state = "rejected"] = u.objects[o]
    BY <2>1 DEF ObjectRow
  <2>3. [u.objects EXCEPT ![o] = [u.objects[o] EXCEPT !.state = "rejected"]] = u.objects
    BY <2>2 DEF SoundTables
  <2> QED
    BY <2>3 DEF SoundTables, Shaped
<1>3. RejectObject(u, s) = Close(rejected, touched)
  BY DEF RejectObject
<1> HIDE DEF touched, rejected
<1> QED
  BY <1>1, <1>2, <1>3, NothingToClose

Ends(from, type, tos) == {<<from, type, to>> : to \in tos}

\* Roots that are registered already.
LEMMA RootsThere ==
  ASSUME NEW u, SoundTables(u), NEW p, NEW owner, NEW scope, NEW roots,
         \A o \in RootObjects(scope, roots) : Confirmed(u, o, p),
         Ends(owner, "HAS_REGISTERED_ROOT", RootObjects(scope, roots)) \subseteq Currents(u)
  PROVE  WithRoots(u, p, owner, scope, roots) = u
<1> DEFINE uris == RootObjects(scope, roots)
           project == [uri \in uris |-> p]
<1>1. \A o \in DOMAIN project : Confirmed(u, o, project[o])
  OBVIOUS
<1>2. \A to \in uris : <<owner, "HAS_REGISTERED_ROOT", to>> \in Currents(u)
  BY DEF Ends
<1>3. WithRoots(u, p, owner, scope, roots) =
        EnsureRelations(EnsureObjects(u, project), owner, "HAS_REGISTERED_ROOT", uris, "confirmed")
  BY DEF WithRoots
<1>4. "confirmed" = StateOf("HAS_REGISTERED_ROOT")
  BY DEF StateOf
<1> HIDE DEF uris, project
<1>5. EnsureObjects(u, project) = u
  BY <1>1, ObjectsThere
<1> QED
  BY <1>2, <1>3, <1>4, <1>5, RelationsThere

\* Scopes of other projects that are confirmed already.
LEMMA ScopesThere ==
  ASSUME NEW u, SoundTables(u), NEW ps, \A q \in ps : Confirmed(u, <<"scope", q>>, q)
  PROVE  WithScopes(u, ps) = u
<1> DEFINE project == [uri \in Scopes(ps) |-> uri[2]]
<1>1. \A o \in DOMAIN project : Confirmed(u, o, project[o])
  BY DEF Scopes
<1>2. WithScopes(u, ps) = EnsureObjects(u, project)
  BY DEF WithScopes
<1> HIDE DEF project
<1> QED
  BY <1>1, <1>2, ObjectsThere

\* Workspaces that are registered already, and are candidates no longer.
LEMMA WorkspacesThere ==
  ASSUME NEW u, SoundTables(u), NEW group, NEW ps,
         \A q \in ps : Confirmed(u, <<"scope", q>>, q),
         Ends(group, "HAS_REGISTERED_WORKSPACE", Scopes(ps)) \subseteq Currents(u),
         Ends(group, "MAY_INCLUDE_WORKSPACE", Scopes(ps)) \cap Currents(u) = {}
  PROVE  WithWorkspaces(u, group, ps) = u
<1> DEFINE candidates == {rel \in u.relations :
             /\ rel.open /\ rel.from = group /\ rel.type = "MAY_INCLUDE_WORKSPACE"
             /\ rel.to \in Scopes(ps) /\ rel.state = "candidate"}
<1>1. WithScopes(u, ps) = u
  BY ScopesThere
<1>2. candidates = {}
  <2> SUFFICES ASSUME NEW rel \in candidates PROVE FALSE
    OBVIOUS
  <2>1. <<rel.from, rel.type, rel.to>> \in Currents(u)
    BY DEF Currents, Ours, StateOf
  <2>2. <<rel.from, rel.type, rel.to>> \in Ends(group, "MAY_INCLUDE_WORKSPACE", Scopes(ps))
    BY DEF Ends
  <2> QED
    BY <2>1, <2>2
<1>3. WithWorkspaces(u, group, ps) =
        EnsureRelations(Close(u, candidates), group, "HAS_REGISTERED_WORKSPACE", Scopes(ps),
                        "confirmed")
  BY <1>1 DEF WithWorkspaces
<1>4. "confirmed" = StateOf("HAS_REGISTERED_WORKSPACE")
  BY DEF StateOf
<1>5. \A to \in Scopes(ps) : <<group, "HAS_REGISTERED_WORKSPACE", to>> \in Currents(u)
  BY DEF Ends
<1> HIDE DEF candidates
<1>6. Close(u, candidates) = u
  BY <1>2, NothingToClose
<1> QED
  BY <1>3, <1>4, <1>5, <1>6, RelationsThere

\* Candidates that are current already.
LEMMA CandidatesThere ==
  ASSUME NEW u, SoundTables(u), NEW group, NEW ps,
         \A q \in ps : Confirmed(u, <<"scope", q>>, q),
         Ends(group, "MAY_INCLUDE_WORKSPACE", Scopes(ps)) \subseteq Currents(u)
  PROVE  WithCandidates(u, group, ps) = u
<1>1. WithCandidates(u, group, ps) =
        EnsureRelations(u, group, "MAY_INCLUDE_WORKSPACE", Scopes(ps), "candidate")
  BY ScopesThere DEF WithCandidates
<1>2. "candidate" = StateOf("MAY_INCLUDE_WORKSPACE")
  BY DEF StateOf
<1>3. \A to \in Scopes(ps) : <<group, "MAY_INCLUDE_WORKSPACE", to>> \in Currents(u)
  BY DEF Ends
<1> QED
  BY <1>1, <1>2, <1>3, RelationsThere

\* The row of an entry is as its registration writes it.
RowOfEntry(row, e, source, codex) ==
  /\ row.name = e.name /\ row.source = source /\ row.status = "confirmed" /\ row.codex = codex
  /\ \A n \in Name : n \in e.aliases => row.aliases[n] = "identity"

\* What the registration of a Codex project makes current, given its workspaces
\* and candidates, and what it ends.
GroupEdges(e, workspaces, candidates) ==
  Ends(GroupOf(e), "HAS_REGISTERED_ROOT", RootObjects(<<"group", e.codex>>, e.roots))
    \cup Ends(GroupOf(e), "HAS_REGISTERED_WORKSPACE", Scopes(workspaces))
    \cup Ends(GroupOf(e), "MAY_INCLUDE_WORKSPACE", Scopes(candidates))

\* Objects of an entry's own, which are its project's.
GroupObjects(e) == {GroupOf(e)} \cup RootObjects(<<"group", e.codex>>, e.roots)
RegisteredEdges(e) ==
  Ends(<<"registered", e.source>>, "HAS_REGISTERED_ROOT",
       RootObjects(<<"registered", e.source>>, e.roots))

\* A Codex project that is registered as it is changes nothing.
LEMMA RegisterCodexAgain ==
  ASSUME NEW u, SoundTables(u), u.ok, NEW e, NEW superseded, NEW p \in DOMAIN u.projects,
         Adopted(u.projects, e) = p,
         RowOfEntry(u.projects[p], e, TargetSource(u.projects, e), e.codex),
         \A o \in GroupObjects(e) : Confirmed(u, o, p),
         \A q \in Workspaces(u.projects, e) \cup Candidates(u.projects, e, superseded) :
           Confirmed(u, <<"scope", q>>, q),
         GroupEdges(e, Workspaces(u.projects, e), Candidates(u.projects, e, superseded))
           \subseteq Currents(u),
         Ends(GroupOf(e), "MAY_INCLUDE_WORKSPACE", Scopes(Workspaces(u.projects, e)))
           \cap Currents(u) = {}
  PROVE  RegisterCodex(u, u.projects, e, superseded) = u
<1> DEFINE ps == u.projects
           adopted == Adopted(ps, e)
           q == IF adopted = NoProject THEN Len(u.projects) + 1 ELSE adopted
           group == GroupOf(e)
           saved == SaveProject(u, adopted, e, TargetSource(ps, e), e.codex)
           named == WithIdentities(saved, q, e.aliases)
           owned == EnsureObject(named, group, q)
           rooted == WithRoots(owned, q, group, <<"group", e.codex>>, e.roots)
           scoped == WithWorkspaces(rooted, group, Workspaces(ps, e))
<1>1. RegisterCodex(u, ps, e, superseded) =
        WithCandidates(scoped, group, Candidates(ps, e, superseded))
  BY DEF RegisterCodex
<1>2. q = p /\ adopted = p
  BY DEF SoundTables, NoProject
<1>3. saved = u
  BY <1>2, ProjectSaved DEF RowOfEntry
<1>4. named = u
  BY <1>2, <1>3, IdentitiesThere DEF RowOfEntry
<1>5. owned = u
  <2> DEFINE project == [o \in {group} |-> p]
  <2>1. \A o \in DOMAIN project : Confirmed(u, o, project[o])
    BY DEF GroupObjects
  <2>2. owned = EnsureObjects(u, project)
    BY <1>2, <1>4 DEF EnsureObject
  <2> HIDE DEF project
  <2> QED
    BY <2>1, <2>2, ObjectsThere
<1>6. rooted = u
  BY <1>2, <1>5, RootsThere DEF GroupEdges, GroupObjects
<1>7. scoped = u
  BY <1>6, WorkspacesThere DEF GroupEdges
<1> HIDE DEF scoped
<1>8. WithCandidates(u, group, Candidates(ps, e, superseded)) = u
  BY CandidatesThere DEF GroupEdges
<1> QED
  BY <1>1, <1>7, <1>8

\* A project outside Codex that is registered as it is changes nothing.
LEMMA RegisterIndependentAgain ==
  ASSUME NEW u, SoundTables(u), u.ok, NEW e, NEW p \in DOMAIN u.projects,
         BySource(u.projects, e.source) = p,
         RowOfEntry(u.projects[p], e, e.source, u.projects[p].codex),
         \A o \in RegisteredObjects(e) : Confirmed(u, o, p),
         RegisteredEdges(e) \subseteq Currents(u)
  PROVE  RegisterIndependent(u, u.projects, e) = u
<1> DEFINE own == BySource(u.projects, e.source)
           q == IF own = NoProject THEN Len(u.projects) + 1 ELSE own
           scope == <<"registered", e.source>>
           codex == IF own = NoProject THEN NoCodex ELSE u.projects[own].codex
           saved == SaveProject(u, own, e, e.source, codex)
           named == WithIdentities(saved, q, e.aliases)
           owned == EnsureObject(named, scope, q)
<1>1. RegisterIndependent(u, u.projects, e) = WithRoots(owned, q, scope, scope, e.roots)
  BY DEF RegisterIndependent
<1>2. q = p /\ own = p /\ codex = u.projects[p].codex
  BY DEF SoundTables, NoProject
<1>3. saved = u
  BY <1>2, ProjectSaved DEF RowOfEntry
<1>4. named = u
  BY <1>2, <1>3, IdentitiesThere DEF RowOfEntry
<1>5. owned = u
  <2> DEFINE project == [o \in {scope} |-> p]
  <2>1. \A o \in DOMAIN project : Confirmed(u, o, project[o])
    BY DEF RegisteredObjects
  <2>2. owned = EnsureObjects(u, project)
    BY <1>2, <1>4 DEF EnsureObject
  <2> HIDE DEF project
  <2> QED
    BY <2>1, <2>2, ObjectsThere
<1> QED
  BY <1>1, <1>2, <1>5, RootsThere DEF RegisteredObjects, RegisteredEdges

-----------------------------------------------------------------------------
(* What the statements of a registration write *)

\* Objects outside S are as they were.
Keeps(t, u, S) ==
  \A o \in DOMAIN t.objects \ S : o \in DOMAIN u.objects /\ u.objects[o] = t.objects[o]

\* What two steps keep.
LEMMA KeepsTransitive ==
  ASSUME NEW t, NEW u, NEW v, NEW S, NEW T, Keeps(t, u, S), Keeps(u, v, T)
  PROVE  Keeps(t, v, S \cup T)
BY DEF Keeps

\* Ensuring objects confirms them and keeps the others.
LEMMA EnsureObjectsEffect ==
  ASSUME NEW t, SoundTables(t), NEW project
  PROVE  LET u == EnsureObjects(t, project) IN
         /\ \A o \in DOMAIN project : Confirmed(u, o, project[o])
         /\ Keeps(t, u, DOMAIN project)
         /\ u.projects = t.projects /\ Currents(u) = Currents(t)
<1> DEFINE objects == [o \in DOMAIN t.objects \cup DOMAIN project |->
                         IF o \in DOMAIN project
                           THEN [state |-> "confirmed", project |-> project[o]]
                           ELSE t.objects[o]]
           u == EnsureObjects(t, project)
<1>1. u = [projects |-> t.projects, objects |-> objects, relations |-> t.relations, ok |-> t.ok]
  BY DEF EnsureObjects, SoundTables, Shaped
<1>2. u.objects = objects /\ u.relations = t.relations /\ u.projects = t.projects
  BY <1>1
<1>3. Currents(u) = Currents(t)
  BY <1>2 DEF Currents
<1>4. \A o \in DOMAIN project : Confirmed(u, o, project[o])
  BY <1>2 DEF Confirmed
<1>5. Keeps(t, u, DOMAIN project)
  BY <1>2 DEF Keeps
<1> QED
  BY <1>2, <1>3, <1>4, <1>5

\* Ensuring relations makes them current and ends none.
LEMMA EnsureRelationsEffect ==
  ASSUME NEW t, SoundTables(t), NEW from, NEW type, NEW ends, NEW state, state = StateOf(type)
  PROVE  LET u == EnsureRelations(t, from, type, ends, state) IN
         /\ Currents(u) = Currents(t) \cup Ends(from, type, ends)
         /\ u.objects = t.objects /\ u.projects = t.projects
<1> DEFINE missing == {to \in ends : ~\E rel \in Versions(t, from, type, to) :
                                         rel.open /\ rel.state = state}
           New(to) == [from |-> from, type |-> type, to |-> to, state |-> state, open |-> TRUE,
                       version |-> Cardinality(Versions(t, from, type, to)) + 1]
           new == {New(to) : to \in missing}
           u == EnsureRelations(t, from, type, ends, state)
<1>1. /\ u.objects = t.objects /\ u.projects = t.projects
      /\ u.relations = t.relations \cup new
  <2>1. u = [t EXCEPT !.relations = t.relations \cup new]
    BY DEF EnsureRelations
  <2> HIDE DEF new, u
  <2> QED
    BY <2>1 DEF SoundTables, Shaped
<1>2. \A to \in missing : /\ New(to).from = from /\ New(to).type = type /\ New(to).to = to
                          /\ Ours(New(to))
  BY DEF Ours
<1>3. missing \subseteq ends
  OBVIOUS
<1>4. \A to \in ends \ missing : <<from, type, to>> \in Currents(t)
  BY CurrentsMember DEF Versions, Ours
<1> HIDE DEF New, missing
<1>5. \A x : x \in Currents(u) => x \in Currents(t) \cup Ends(from, type, ends)
  <2> SUFFICES ASSUME NEW rel \in t.relations \cup new, Ours(rel)
               PROVE  <<rel.from, rel.type, rel.to>> \in Currents(t) \cup Ends(from, type, ends)
    BY <1>1 DEF Currents
  <2>1. CASE rel \in t.relations
    BY <2>1 DEF Currents
  <2>2. CASE rel \in new
    BY <1>2, <1>3, <2>2 DEF Ends
  <2> QED
    BY <2>1, <2>2
<1>6. Currents(t) \subseteq Currents(u)
  BY <1>1 DEF Currents
<1>7. \A to \in ends : <<from, type, to>> \in Currents(u)
  <2> SUFFICES ASSUME NEW to \in ends PROVE <<from, type, to>> \in Currents(u)
    OBVIOUS
  <2>1. CASE to \in missing
    <3>1. New(to) \in u.relations
      BY <1>1, <2>1
    <3> QED
      BY <1>2, <2>1, <3>1, CurrentsMember
  <2>2. CASE to \notin missing
    BY <1>4, <1>6, <2>2
  <2> QED
    BY <2>1, <2>2
<1> HIDE DEF u
<1>8. Ends(from, type, ends) \subseteq Currents(u)
  BY <1>7 DEF Ends
<1>9. Currents(u) = Currents(t) \cup Ends(from, type, ends)
  BY <1>5, <1>6, <1>8
<1> QED
  BY <1>1, <1>9 DEF u

\* Ending the relations of a type from a group to some objects.
OursBetween(t, from, type, ends) ==
  {rel \in t.relations : Ours(rel) /\ rel.from = from /\ rel.type = type /\ rel.to \in ends}

LEMMA CloseEffect ==
  ASSUME NEW t, SoundTables(t), NEW from, NEW type, NEW ends
  PROVE  Currents(Close(t, OursBetween(t, from, type, ends))) =
           Currents(t) \ Ends(from, type, ends)
<1> DEFINE rels == OursBetween(t, from, type, ends)
           u == Close(t, rels)
           closed == {[rel EXCEPT !.open = FALSE] : rel \in rels}
<1>0. /\ rels \in SUBSET t.relations
      /\ \A rel \in t.relations :
           rel \in rels <=> Ours(rel) /\ rel.from = from /\ rel.type = type /\ rel.to \in ends
  BY DEF OursBetween
<1> HIDE DEF rels
<1>1. SoundTables(u) /\ u.relations = (t.relations \ rels) \cup closed
  BY <1>0, CloseSound
<1>2. \A rel \in closed : ~rel.open
  BY <1>0 DEF SoundTables, SoundRelations, SoundRelation
<1> HIDE DEF u, closed
<1>3. \A x : x \in Currents(u) => x \in Currents(t) \ Ends(from, type, ends)
  <2> SUFFICES ASSUME NEW rel \in u.relations, Ours(rel)
               PROVE  <<rel.from, rel.type, rel.to>> \in Currents(t) \ Ends(from, type, ends)
    BY DEF Currents
  <2>1. rel \in t.relations \ rels
    BY <1>1, <1>2 DEF Ours
  <2>2. <<rel.from, rel.type, rel.to>> \in Currents(t)
    BY <2>1 DEF Currents
  <2>3. ~(rel.from = from /\ rel.type = type /\ rel.to \in ends)
    BY <1>0, <2>1
  <2>4. <<rel.from, rel.type, rel.to>> \notin Ends(from, type, ends)
    BY <2>3 DEF Ends
  <2> QED
    BY <2>2, <2>4
<1>4. \A x : x \in Currents(t) \ Ends(from, type, ends) => x \in Currents(u)
  <2> SUFFICES ASSUME NEW rel \in t.relations, Ours(rel),
                      <<rel.from, rel.type, rel.to>> \notin Ends(from, type, ends)
               PROVE  <<rel.from, rel.type, rel.to>> \in Currents(u)
    BY DEF Currents
  <2>1. rel \notin rels
    BY <1>0 DEF Ends
  <2> QED
    BY <1>1, <2>1 DEF Currents
<1>5. Currents(u) = Currents(t) \ Ends(from, type, ends)
  BY <1>3, <1>4
<1> QED
  BY <1>5 DEF u, rels

\* What the registration of roots does.
LEMMA WithRootsEffect ==
  ASSUME NEW t, SoundTables(t), NEW p \in DOMAIN t.projects, NEW owner, NEW scope, NEW roots
  PROVE  LET u == WithRoots(t, p, owner, scope, roots)  uris == RootObjects(scope, roots) IN
         /\ \A o \in uris : Confirmed(u, o, p)
         /\ Keeps(t, u, uris) /\ u.projects = t.projects
         /\ Currents(u) = Currents(t) \cup Ends(owner, "HAS_REGISTERED_ROOT", uris)
<1> DEFINE uris == RootObjects(scope, roots)
           project == [uri \in uris |-> p]
           v == EnsureObjects(t, project)
           u == EnsureRelations(v, owner, "HAS_REGISTERED_ROOT", uris, "confirmed")
<1>1. \A o \in DOMAIN project : project[o] \in DOMAIN t.projects \cup {NoProject}
  OBVIOUS
<1>2. DOMAIN project = uris /\ \A o \in uris : project[o] = p
  OBVIOUS
<1>3. WithRoots(t, p, owner, scope, roots) = u
  BY DEF WithRoots
<1> HIDE DEF uris, project
<1>4. SoundTables(v)
  BY <1>1, EnsureObjectsSound
<1>5. /\ \A o \in uris : Confirmed(v, o, p)
      /\ Keeps(t, v, uris) /\ v.projects = t.projects /\ Currents(v) = Currents(t)
  BY <1>2, EnsureObjectsEffect
<1>6. "confirmed" = StateOf("HAS_REGISTERED_ROOT")
  BY DEF StateOf
<1> HIDE DEF v
<1>7. /\ Currents(u) = Currents(v) \cup Ends(owner, "HAS_REGISTERED_ROOT", uris)
      /\ u.objects = v.objects /\ u.projects = v.projects
  BY <1>4, <1>6, EnsureRelationsEffect
<1> HIDE DEF u
<1>8. (\A o \in uris : Confirmed(u, o, p)) /\ Keeps(t, u, uris)
  BY <1>5, <1>7 DEF Confirmed, Keeps
<1> QED
  BY <1>3, <1>5, <1>7, <1>8 DEF uris

\* What confirming scopes does.
LEMMA WithScopesEffect ==
  ASSUME NEW t, SoundTables(t), NEW ps \in SUBSET DOMAIN t.projects
  PROVE  LET u == WithScopes(t, ps) IN
         /\ \A q \in ps : Confirmed(u, <<"scope", q>>, q)
         /\ Keeps(t, u, Scopes(ps)) /\ u.projects = t.projects /\ Currents(u) = Currents(t)
<1> DEFINE project == [uri \in Scopes(ps) |-> uri[2]]
           u == WithScopes(t, ps)
<1>1. \A q \in ps : <<"scope", q>> \in Scopes(ps) /\ <<"scope", q>>[2] = q
  BY DEF Scopes
<1>2. u = EnsureObjects(t, project)
  BY DEF WithScopes
<1>3. DOMAIN project = Scopes(ps) /\ \A q \in ps : project[<<"scope", q>>] = q
  BY <1>1
<1> HIDE DEF project, u
<1>4. /\ \A o \in DOMAIN project : Confirmed(u, o, project[o])
      /\ Keeps(t, u, DOMAIN project) /\ u.projects = t.projects /\ Currents(u) = Currents(t)
  BY <1>2, EnsureObjectsEffect
<1>5. \A q \in ps : Confirmed(u, <<"scope", q>>, q)
  BY <1>1, <1>3, <1>4
<1> QED
  BY <1>3, <1>4, <1>5 DEF u

\* What the registration of workspaces does.
LEMMA WithWorkspacesEffect ==
  ASSUME NEW t, SoundTables(t), NEW group, NEW ps \in SUBSET DOMAIN t.projects
  PROVE  LET u == WithWorkspaces(t, group, ps) IN
         /\ \A q \in ps : Confirmed(u, <<"scope", q>>, q)
         /\ Keeps(t, u, Scopes(ps)) /\ u.projects = t.projects
         /\ Currents(u) =
              (Currents(t) \ Ends(group, "MAY_INCLUDE_WORKSPACE", Scopes(ps)))
                \cup Ends(group, "HAS_REGISTERED_WORKSPACE", Scopes(ps))
<1> DEFINE v == WithScopes(t, ps)
           candidates == {rel \in v.relations :
             /\ rel.open /\ rel.from = group /\ rel.type = "MAY_INCLUDE_WORKSPACE"
             /\ rel.to \in Scopes(ps) /\ rel.state = "candidate"}
           w == Close(v, candidates)
           u == EnsureRelations(w, group, "HAS_REGISTERED_WORKSPACE", Scopes(ps), "confirmed")
<1>1. SoundTables(v)
  BY WithScopesSound
<1>2. /\ \A q \in ps : Confirmed(v, <<"scope", q>>, q)
      /\ Keeps(t, v, Scopes(ps)) /\ v.projects = t.projects /\ Currents(v) = Currents(t)
  BY WithScopesEffect
<1>3. WithWorkspaces(t, group, ps) = u
  BY DEF WithWorkspaces
<1>4. candidates \in SUBSET v.relations
  OBVIOUS
<1> HIDE DEF v
<1>5. SoundTables(w) /\ w.projects = v.projects /\ w.objects = v.objects
  BY <1>1, <1>4, CloseSound
<1>6. Currents(w) = Currents(v) \ Ends(group, "MAY_INCLUDE_WORKSPACE", Scopes(ps))
  <2>1. candidates = OursBetween(v, group, "MAY_INCLUDE_WORKSPACE", Scopes(ps))
    BY DEF OursBetween, Ours, StateOf
  <2> HIDE DEF candidates
  <2> QED
    BY <1>1, <2>1, CloseEffect
<1>7. "confirmed" = StateOf("HAS_REGISTERED_WORKSPACE")
  BY DEF StateOf
<1> HIDE DEF w, candidates
<1>8. /\ Currents(u) = Currents(w) \cup Ends(group, "HAS_REGISTERED_WORKSPACE", Scopes(ps))
      /\ u.objects = w.objects /\ u.projects = w.projects
  BY <1>5, <1>7, EnsureRelationsEffect
<1> HIDE DEF u
<1>9. (\A q \in ps : Confirmed(u, <<"scope", q>>, q)) /\ Keeps(t, u, Scopes(ps))
  BY <1>2, <1>5, <1>8 DEF Confirmed, Keeps
<1> QED
  BY <1>2, <1>3, <1>5, <1>6, <1>8, <1>9

\* What asserting candidates does.
LEMMA WithCandidatesEffect ==
  ASSUME NEW t, SoundTables(t), NEW group, NEW ps \in SUBSET DOMAIN t.projects
  PROVE  LET u == WithCandidates(t, group, ps) IN
         /\ \A q \in ps : Confirmed(u, <<"scope", q>>, q)
         /\ Keeps(t, u, Scopes(ps)) /\ u.projects = t.projects
         /\ Currents(u) = Currents(t) \cup Ends(group, "MAY_INCLUDE_WORKSPACE", Scopes(ps))
<1> DEFINE v == WithScopes(t, ps)
           u == EnsureRelations(v, group, "MAY_INCLUDE_WORKSPACE", Scopes(ps), "candidate")
<1>1. SoundTables(v)
  BY WithScopesSound
<1>2. /\ \A q \in ps : Confirmed(v, <<"scope", q>>, q)
      /\ Keeps(t, v, Scopes(ps)) /\ v.projects = t.projects /\ Currents(v) = Currents(t)
  BY WithScopesEffect
<1>3. WithCandidates(t, group, ps) = u
  BY DEF WithCandidates
<1>4. "candidate" = StateOf("MAY_INCLUDE_WORKSPACE")
  BY DEF StateOf
<1> HIDE DEF v
<1>5. /\ Currents(u) = Currents(v) \cup Ends(group, "MAY_INCLUDE_WORKSPACE", Scopes(ps))
      /\ u.objects = v.objects /\ u.projects = v.projects
  BY <1>1, <1>4, EnsureRelationsEffect
<1> HIDE DEF u
<1>6. (\A q \in ps : Confirmed(u, <<"scope", q>>, q)) /\ Keeps(t, u, Scopes(ps))
  BY <1>2, <1>5 DEF Confirmed, Keeps
<1> QED
  BY <1>2, <1>3, <1>5, <1>6

\* The row that an entry is written to: the one it takes over, or a new one.
PlaceIn(ps, taken) == IF taken = NoProject THEN Len(ps) + 1 ELSE taken

\* The rows after an entry is written, given those before.
RowWritten(ps, new, taken, e, source, codex) ==
  LET p == PlaceIn(ps, taken) IN
  /\ DOMAIN new = DOMAIN ps \cup {p}
  /\ \A q \in DOMAIN ps \ {p} : new[q] = ps[q]
  /\ RowOfEntry(new[p], e, source, codex)
  /\ new[p].old = IF taken = NoProject THEN {} ELSE ps[p].old \cup ({ps[p].source} \ {source})
  /\ \A n \in Name : n \notin e.aliases =>
       new[p].aliases[n] = IF taken = NoProject THEN "none" ELSE ps[p].aliases[n]

\* A new row gets a new number.
LEMMA PlaceIsRow ==
  ASSUME NEW ps \in Seq(Row), NEW taken \in DOMAIN ps \cup {NoProject}
  PROVE  /\ PlaceIn(ps, taken) \in Nat \ {0}
         /\ taken = NoProject => PlaceIn(ps, taken) \notin DOMAIN ps
         /\ taken # NoProject => PlaceIn(ps, taken) \in DOMAIN ps
BY DEF PlaceIn, NoProject

\* The statements that write the row of an entry, and its identities.
LEMMA WrittenRow ==
  ASSUME NEW t, SoundTables(t), NEW taken \in DOMAIN t.projects \cup {NoProject},
         NEW e, e.name \in Name, NEW source \in Uri, NEW codex \in Codex \cup {NoCodex}
  PROVE  LET p == PlaceIn(t.projects, taken)
             u == WithIdentities(SaveProject(t, taken, e, source, codex), p, e.aliases) IN
         /\ SoundTables(u) /\ Grown(t, u) /\ p \in DOMAIN u.projects
         /\ RowWritten(t.projects, u.projects, taken, e, source, codex)
         /\ u.objects = t.objects /\ u.relations = t.relations
<1> DEFINE ps == t.projects
           p == PlaceIn(ps, taken)
           s == SaveProject(t, taken, e, source, codex)
           u == WithIdentities(s, p, e.aliases)
           row == ps[p]
           new == IF taken = NoProject
                    THEN [Blank(e.name, source) EXCEPT !.codex = codex,
                                                       !.aliases = [n \in Name |-> "none"]]
                    ELSE [row EXCEPT !.name = e.name, !.source = source, !.status = "confirmed",
                                     !.codex = codex,
                                     !.old = @ \cup ({row.source} \ {source})]
           saved == IF taken = NoProject THEN Append(ps, new) ELSE [ps EXCEPT ![p] = new]
           aliases == [n \in Name |-> IF n \in e.aliases THEN "identity" ELSE saved[p].aliases[n]]
           named == [saved EXCEPT ![p].aliases = aliases]
<1>1. ps \in Seq(Row) /\ Len(ps) \in Nat /\ DOMAIN ps = 1 .. Len(ps)
  BY DEF SoundTables
<1>2. s = WithProjects(t, saved)
  BY DEF SaveProject, PlaceIn
<1>3. new \in Row
  <2>1. CASE taken = NoProject
    BY <2>1 DEF Blank, Row
  <2>2. CASE taken # NoProject
    <3>1. row \in Row
      BY <1>1, <2>2 DEF PlaceIn
    <3> QED
      BY <2>2, <3>1 DEF Row
  <2> QED
    BY <2>1, <2>2
<1>4. /\ new.name = e.name /\ new.source = source /\ new.status = "confirmed"
      /\ new.codex = codex
      /\ new.old = IF taken = NoProject THEN {} ELSE row.old \cup ({row.source} \ {source})
      /\ \A n \in Name : new.aliases[n] = IF taken = NoProject THEN "none" ELSE row.aliases[n]
  <2>1. CASE taken = NoProject
    BY <2>1 DEF Blank
  <2>2. CASE taken # NoProject
    <3>1. row \in Row
      BY <1>1, <2>2 DEF PlaceIn
    <3> QED
      BY <2>2, <3>1 DEF Row
  <2> QED
    BY <2>1, <2>2
<1> HIDE DEF new
<1>5. /\ saved \in Seq(Row) /\ DOMAIN saved = DOMAIN ps \cup {p} /\ saved[p] = new
      /\ \A q \in DOMAIN ps \ {p} : saved[q] = ps[q]
  <2>1. CASE taken = NoProject
    <3>1. p = Len(ps) + 1
      BY <2>1 DEF PlaceIn
    <3> QED
      BY <1>1, <1>3, <2>1, <3>1
  <2>2. CASE taken # NoProject
    <3>1. p \in DOMAIN ps
      BY <2>2 DEF PlaceIn
    <3> QED
      BY <1>1, <1>3, <2>2, <3>1
  <2> QED
    BY <2>1, <2>2
<1> HIDE DEF saved, p
<1>6. SoundTables(s) /\ Grown(t, s) /\ s.projects = saved /\ s.objects = t.objects
      /\ s.relations = t.relations
  BY <1>2, <1>5, WithProjectsSound
<1> HIDE DEF s
<1>7. u = WithProjects(s, named)
  BY <1>6 DEF WithIdentities
<1>8. aliases \in [Name -> {"none", "historical", "identity", "rejected"}]
  <2>1. saved[p] \in Row
    BY <1>3, <1>5
  <2> QED
    BY <2>1 DEF Row
<1>9. /\ \A n \in Name : n \in e.aliases => aliases[n] = "identity"
      /\ \A n \in Name : n \notin e.aliases =>
           aliases[n] = IF taken = NoProject THEN "none" ELSE row.aliases[n]
  BY <1>4, <1>5
<1> HIDE DEF aliases
<1>10. named \in Seq(Row) /\ DOMAIN named = DOMAIN saved
  BY <1>5, <1>8, AliasesTyped
<1>11. /\ named[p] = [new EXCEPT !.aliases = aliases]
       /\ \A q \in DOMAIN ps \ {p} : named[q] = ps[q]
  BY <1>5
<1> HIDE DEF named
<1>12. /\ named[p].name = e.name /\ named[p].source = source /\ named[p].status = "confirmed"
       /\ named[p].codex = codex /\ named[p].old = new.old /\ named[p].aliases = aliases
  BY <1>3, <1>4, <1>11 DEF Row
<1>13. RowWritten(ps, named, taken, e, source, codex)
  <2>1. DOMAIN named = DOMAIN ps \cup {p}
    BY <1>5, <1>10
  <2>2. RowOfEntry(named[p], e, source, codex)
    BY <1>9, <1>12 DEF RowOfEntry
  <2> QED
    BY <1>4, <1>9, <1>11, <1>12, <2>1, <2>2 DEF RowWritten, p
<1>14. /\ SoundTables(u) /\ Grown(s, u) /\ u.projects = named /\ u.objects = s.objects
       /\ u.relations = s.relations
  BY <1>5, <1>6, <1>7, <1>10, WithProjectsSound
<1> HIDE DEF u
<1>15. Grown(t, u) /\ p \in DOMAIN u.projects
  BY <1>5, <1>6, <1>10, <1>14, GrownTransitive
<1> QED
  BY <1>6, <1>13, <1>14, <1>15 DEF u, s, p

\* The root objects of an entry and the scopes of projects are different objects.
LEMMA RootsAreNoScopes ==
  ASSUME NEW scope, NEW roots, NEW ps
  PROVE  RootObjects(scope, roots) \cap Scopes(ps) = {}
BY DEF RootObjects, Scopes

\* An object that a step keeps stays confirmed.
LEMMA ConfirmedKept ==
  ASSUME NEW t, NEW u, NEW S, Keeps(t, u, S), NEW o, o \notin S, NEW p, Confirmed(t, o, p)
  PROVE  Confirmed(u, o, p)
BY DEF Keeps, Confirmed

\* The scope of a project is its own, whoever ensures it.
LEMMA ScopesKept ==
  ASSUME NEW t, NEW u, NEW S, Keeps(t, u, Scopes(S)), \A p \in S : Confirmed(u, <<"scope", p>>, p),
         NEW q, Confirmed(t, <<"scope", q>>, q)
  PROVE  Confirmed(u, <<"scope", q>>, q)
<1>1. CASE q \in S
  BY <1>1
<1>2. CASE q \notin S
  <2>1. <<"scope", q>> \notin Scopes(S)
    BY <1>2 DEF Scopes
  <2> QED
    BY <2>1, ConfirmedKept
<1> QED
  BY <1>1, <1>2

\* The source that a Codex project gets is a URI.
LEMMA TargetTyped ==
  ASSUME NEW ps \in Seq(Row), NEW e \in Codices
  PROVE  TargetSource(ps, e) \in Uri
<1>1. Adopted(ps, e) \in DOMAIN ps \cup {NoProject} /\ e.codex \in Codex
  BY AdoptedIsRow DEF Codices
<1>2. CASE e.replace \/ Adopted(ps, e) = NoProject
  BY <1>1, <1>2, TablesAssumption DEF TargetSource
<1>3. CASE ~(e.replace \/ Adopted(ps, e) = NoProject)
  <2>1. ps[Adopted(ps, e)] \in Row
    BY <1>1, <1>3
  <2> QED
    BY <1>3, <2>1 DEF TargetSource, Row
<1> QED
  BY <1>2, <1>3

\* What is current after a Codex project is registered.
GroupCurrents(old, e, workspaces, candidates) ==
  (((old \cup Ends(GroupOf(e), "HAS_REGISTERED_ROOT", RootObjects(<<"group", e.codex>>, e.roots)))
     \ Ends(GroupOf(e), "MAY_INCLUDE_WORKSPACE", Scopes(workspaces)))
       \cup Ends(GroupOf(e), "HAS_REGISTERED_WORKSPACE", Scopes(workspaces)))
         \cup Ends(GroupOf(e), "MAY_INCLUDE_WORKSPACE", Scopes(candidates))

\* What the registration of a Codex project does.
GroupRegistered(t, u, ps, e, workspaces, candidates) ==
  /\ RowWritten(t.projects, u.projects, Adopted(ps, e), e, TargetSource(ps, e), e.codex)
  /\ \A o \in GroupObjects(e) : Confirmed(u, o, PlaceIn(t.projects, Adopted(ps, e)))
  /\ \A q \in workspaces \cup candidates : Confirmed(u, <<"scope", q>>, q)
  /\ Keeps(t, u, GroupObjects(e) \cup Scopes(workspaces \cup candidates))
  /\ Currents(u) = GroupCurrents(Currents(t), e, workspaces, candidates)

\* It does so if its object is none of a root or of a scope.
LEMMA RegisterCodexEffect ==
  ASSUME NEW t, SoundTables(t), NEW ps \in Seq(Row), DOMAIN ps \subseteq DOMAIN t.projects,
         NEW e \in Codices, NEW superseded, NEW workspaces, NEW candidates,
         workspaces = Workspaces(ps, e), candidates = Candidates(ps, e, superseded),
         GroupOf(e) \notin RootObjects(<<"group", e.codex>>, e.roots),
         GroupOf(e) \notin Scopes(workspaces \cup candidates)
  PROVE  GroupRegistered(t, RegisterCodex(t, ps, e, superseded), ps, e, workspaces, candidates)
<1> DEFINE adopted == Adopted(ps, e)
           p == PlaceIn(t.projects, adopted)
           group == GroupOf(e)
           roots == RootObjects(<<"group", e.codex>>, e.roots)
           source == TargetSource(ps, e)
           named == WithIdentities(SaveProject(t, adopted, e, source, e.codex), p, e.aliases)
           owned == EnsureObject(named, group, p)
           rooted == WithRoots(owned, p, group, <<"group", e.codex>>, e.roots)
           scoped == WithWorkspaces(rooted, group, workspaces)
           u == WithCandidates(scoped, group, candidates)
<1>1. adopted \in DOMAIN t.projects \cup {NoProject}
  BY AdoptedIsRow
<1>2. workspaces \subseteq DOMAIN ps /\ candidates \subseteq DOMAIN ps
  BY DEF Workspaces, Candidates
<1>3. e.name \in Name /\ e.codex \in Codex \cup {NoCodex}
  BY DEF Codices
<1>4. source \in Uri
  BY TargetTyped
<1>5. RegisterCodex(t, ps, e, superseded) = u
  BY DEF RegisterCodex, PlaceIn
<1> HIDE DEF adopted, source
<1>6. /\ SoundTables(named) /\ Grown(t, named) /\ p \in DOMAIN named.projects
      /\ RowWritten(t.projects, named.projects, adopted, e, source, e.codex)
      /\ named.objects = t.objects /\ named.relations = t.relations
  <2> DEFINE codex == e.codex
  <2>1. codex \in Codex \cup {NoCodex} /\ e.name \in Name
    BY <1>3
  <2> HIDE DEF codex
  <2>2. LET u1 == WithIdentities(SaveProject(t, adopted, e, source, codex), p, e.aliases) IN
         /\ SoundTables(u1) /\ Grown(t, u1) /\ p \in DOMAIN u1.projects
         /\ RowWritten(t.projects, u1.projects, adopted, e, source, codex)
         /\ u1.objects = t.objects /\ u1.relations = t.relations
    BY <1>1, <1>4, <2>1, WrittenRow
  <2> QED
    BY <2>2 DEF codex
<1>7. Currents(named) = Currents(t) /\ Keeps(t, named, {})
  BY <1>6 DEF Currents, Keeps
<1> HIDE DEF named, p
<1>8. /\ SoundTables(owned) /\ Grown(named, owned) /\ Confirmed(owned, group, p)
      /\ Keeps(named, owned, {group}) /\ owned.projects = named.projects
      /\ Currents(owned) = Currents(named)
  <2> DEFINE project == [o \in {group} |-> p]
  <2>1. \A o \in DOMAIN project : project[o] \in DOMAIN named.projects \cup {NoProject}
    BY <1>6
  <2>2. DOMAIN project = {group} /\ project[group] = p
    OBVIOUS
  <2>3. owned = EnsureObjects(named, project)
    BY DEF EnsureObject
  <2> HIDE DEF project, group, owned
  <2>4. SoundTables(owned) /\ Grown(named, owned)
    BY <1>6, <2>1, <2>3, EnsureObjectsSound
  <2>5. /\ \A o \in DOMAIN project : Confirmed(owned, o, project[o])
        /\ Keeps(named, owned, DOMAIN project)
        /\ owned.projects = named.projects /\ Currents(owned) = Currents(named)
    BY <1>6, <2>3, EnsureObjectsEffect
  <2> QED
    BY <2>2, <2>4, <2>5
<1> HIDE DEF owned
<1>9. Live(owned.objects, group)
  BY <1>8 DEF Confirmed, Live
<1>10. SoundTables(rooted) /\ Grown(owned, rooted) /\ Live(rooted.objects, group)
  BY <1>6, <1>8, <1>9, WithRootsSound
<1>11. /\ \A o \in roots : Confirmed(rooted, o, p)
       /\ Keeps(owned, rooted, roots) /\ rooted.projects = owned.projects
       /\ Currents(rooted) = Currents(owned) \cup Ends(group, "HAS_REGISTERED_ROOT", roots)
  BY <1>6, <1>8, WithRootsEffect
<1> HIDE DEF rooted
<1>12. DOMAIN ps \subseteq DOMAIN rooted.projects
  BY <1>6, <1>8, <1>11 DEF Grown
<1>13. SoundTables(scoped) /\ scoped.projects = rooted.projects
  BY <1>2, <1>10, <1>12, WithWorkspacesSound
<1>14. /\ \A q \in workspaces : Confirmed(scoped, <<"scope", q>>, q)
       /\ Keeps(rooted, scoped, Scopes(workspaces))
       /\ Currents(scoped) =
            (Currents(rooted) \ Ends(group, "MAY_INCLUDE_WORKSPACE", Scopes(workspaces)))
              \cup Ends(group, "HAS_REGISTERED_WORKSPACE", Scopes(workspaces))
  BY <1>2, <1>10, <1>12, WithWorkspacesEffect
<1> HIDE DEF scoped
<1>15. /\ \A q \in candidates : Confirmed(u, <<"scope", q>>, q)
       /\ Keeps(scoped, u, Scopes(candidates)) /\ u.projects = scoped.projects
       /\ Currents(u) =
            Currents(scoped) \cup Ends(group, "MAY_INCLUDE_WORKSPACE", Scopes(candidates))
  BY <1>2, <1>12, <1>13, WithCandidatesEffect
<1> HIDE DEF u
<1>16. RowWritten(t.projects, u.projects, adopted, e, source, e.codex)
  BY <1>6, <1>8, <1>11, <1>13, <1>15
<1>17. \A q \in workspaces \cup candidates : Confirmed(u, <<"scope", q>>, q)
  BY <1>14, <1>15, ScopesKept
<1>18. Scopes(workspaces \cup candidates) = Scopes(workspaces) \cup Scopes(candidates)
  BY DEF Scopes
<1>19. \A o \in GroupObjects(e) : Confirmed(u, o, p)
  <2> SUFFICES ASSUME NEW o \in GroupObjects(e) PROVE Confirmed(u, o, p)
    OBVIOUS
  <2>1. o \notin Scopes(workspaces) /\ o \notin Scopes(candidates)
    BY <1>18, RootsAreNoScopes DEF GroupObjects
  <2>2. Confirmed(rooted, o, p)
    <3>1. CASE o \in roots
      BY <1>11, <3>1
    <3>2. CASE o = group
      BY <1>8, <1>11, <3>2, ConfirmedKept
    <3> QED
      BY <3>1, <3>2 DEF GroupObjects
  <2> QED
    BY <1>14, <1>15, <2>1, <2>2, ConfirmedKept
<1>20. Keeps(t, u, GroupObjects(e) \cup Scopes(workspaces \cup candidates))
  <2>1. Keeps(t, rooted, {group} \cup roots)
    BY <1>7, <1>8, <1>11 DEF Keeps
  <2>2. Keeps(rooted, u, Scopes(workspaces) \cup Scopes(candidates))
    BY <1>14, <1>15, KeepsTransitive
  <2> QED
    BY <1>18, <2>1, <2>2, KeepsTransitive DEF GroupObjects
<1>21. Currents(u) = GroupCurrents(Currents(t), e, workspaces, candidates)
  BY <1>7, <1>8, <1>11, <1>14, <1>15 DEF GroupCurrents
<1> QED
  BY <1>5, <1>16, <1>17, <1>19, <1>20, <1>21 DEF GroupRegistered, adopted, source, p

\* What the registration of a project outside Codex does.
LEMMA RegisterIndependentEffect ==
  ASSUME NEW t, SoundTables(t), NEW ps \in Seq(Row), DOMAIN ps \subseteq DOMAIN t.projects,
         NEW e \in Independents
  PROVE  LET u == RegisterIndependent(t, ps, e)
             own == BySource(ps, e.source)
             p == PlaceIn(t.projects, own) IN
         /\ RowWritten(t.projects, u.projects, own, e, e.source,
                       IF own = NoProject THEN NoCodex ELSE ps[own].codex)
         /\ \A o \in RegisteredObjects(e) : Confirmed(u, o, p)
         /\ Keeps(t, u, RegisteredObjects(e))
         /\ Currents(u) = Currents(t) \cup RegisteredEdges(e)
<1> DEFINE own == BySource(ps, e.source)
           p == PlaceIn(t.projects, own)
           scope == <<"registered", e.source>>
           roots == RootObjects(scope, e.roots)
           codex == IF own = NoProject THEN NoCodex ELSE ps[own].codex
           named == WithIdentities(SaveProject(t, own, e, e.source, codex), p, e.aliases)
           owned == EnsureObject(named, scope, p)
           u == WithRoots(owned, p, scope, scope, e.roots)
<1>1. own \in DOMAIN ps \cup {NoProject}
  BY BySourceIsRow
<1>2. e.name \in Name /\ e.source \in Uri
  BY DEF Independents
<1>3. codex \in Codex \cup {NoCodex}
  <2>1. CASE own # NoProject
    <3>1. ps[own] \in Row
      BY <1>1, <2>1
    <3> QED
      BY <2>1, <3>1 DEF Row
  <2>2. CASE own = NoProject
    BY <2>2
  <2> QED
    BY <2>1, <2>2
<1>4. RegisterIndependent(t, ps, e) = u
  BY DEF RegisterIndependent, PlaceIn
<1> HIDE DEF own, codex
<1>5. own \in DOMAIN t.projects \cup {NoProject}
  BY <1>1
<1>6. /\ SoundTables(named) /\ Grown(t, named) /\ p \in DOMAIN named.projects
      /\ RowWritten(t.projects, named.projects, own, e, e.source, codex)
      /\ named.objects = t.objects /\ named.relations = t.relations
  BY <1>2, <1>3, <1>5, WrittenRow
<1>7. Currents(named) = Currents(t) /\ Keeps(t, named, {})
  BY <1>6 DEF Currents, Keeps
<1> HIDE DEF named, p
<1>8. /\ SoundTables(owned) /\ Confirmed(owned, scope, p)
      /\ Keeps(named, owned, {scope}) /\ owned.projects = named.projects
      /\ Currents(owned) = Currents(named)
  <2> DEFINE project == [o \in {scope} |-> p]
  <2>1. \A o \in DOMAIN project : project[o] \in DOMAIN named.projects \cup {NoProject}
    BY <1>6
  <2>2. DOMAIN project = {scope} /\ project[scope] = p
    OBVIOUS
  <2>3. owned = EnsureObjects(named, project)
    BY DEF EnsureObject
  <2> HIDE DEF project, scope, owned
  <2>4. SoundTables(owned)
    BY <1>6, <2>1, <2>3, EnsureObjectsSound
  <2>5. /\ \A o \in DOMAIN project : Confirmed(owned, o, project[o])
        /\ Keeps(named, owned, DOMAIN project)
        /\ owned.projects = named.projects /\ Currents(owned) = Currents(named)
    BY <1>6, <2>3, EnsureObjectsEffect
  <2> QED
    BY <2>2, <2>4, <2>5
<1> HIDE DEF owned
<1>9. /\ \A o \in roots : Confirmed(u, o, p)
      /\ Keeps(owned, u, roots) /\ u.projects = owned.projects
      /\ Currents(u) = Currents(owned) \cup Ends(scope, "HAS_REGISTERED_ROOT", roots)
  BY <1>6, <1>8, WithRootsEffect
<1>10. scope \notin roots
  BY DEF RootObjects
<1> HIDE DEF u
<1>11. \A o \in RegisteredObjects(e) : Confirmed(u, o, p)
  BY <1>8, <1>9, <1>10, ConfirmedKept DEF RegisteredObjects
<1>12. Keeps(t, u, RegisteredObjects(e))
  BY <1>7, <1>8, <1>9 DEF Keeps, RegisteredObjects
<1>13. Currents(u) = Currents(t) \cup RegisteredEdges(e)
  BY <1>7, <1>8, <1>9 DEF RegisteredEdges
<1>14. RowWritten(t.projects, u.projects, own, e, e.source, codex)
  BY <1>6, <1>8, <1>9
<1> QED
  BY <1>4, <1>11, <1>12, <1>13, <1>14 DEF own, p, codex

-----------------------------------------------------------------------------
(* The parts of an apply, in their order *)

Tagged(kind, x) == [kind |-> kind, of |-> x]

\* A part says its kind and its rule or entry.
LEMMA EachTagged ==
  ASSUME NEW rules, NEW kind, NEW i \in DOMAIN rules
  PROVE  Each(kind, rules)[i] = Tagged(kind, rules[i])
BY DEF Each, Tagged

\* The parts of one kind.
LEMMA EachInSeq ==
  ASSUME NEW S, NEW rules \in Seq(S), NEW kind, NEW X, \A x \in S : Tagged(kind, x) \in X
  PROVE  Each(kind, rules) \in Seq(X) /\ Len(Each(kind, rules)) = Len(rules)
<1>1. Len(rules) \in Nat /\ DOMAIN rules = 1 .. Len(rules)
      /\ \A i \in 1 .. Len(rules) : rules[i] \in S
  OBVIOUS
<1>2. Each(kind, rules) \in [1 .. Len(rules) -> X]
  BY <1>1 DEF Each, Tagged
<1>3. Each(kind, rules) \in Seq(X)
  BY <1>1, <1>2, SequenceOfRows
<1>4. DOMAIN Each(kind, rules) = 1 .. Len(rules)
  BY <1>1 DEF Each
<1> QED
  BY <1>1, <1>3, <1>4

\* c is a and then b.
Joined(X, a, b, c) ==
  /\ c \in Seq(X) /\ Len(c) = Len(a) + Len(b) /\ Len(a) \in Nat /\ Len(b) \in Nat
  /\ \A i \in 1 .. Len(a) : c[i] = a[i]
  /\ \A i \in 1 .. Len(b) : c[Len(a) + i] = b[i]

\* One sequence after another.
LEMMA ConcatJoins ==
  ASSUME NEW X, NEW a \in Seq(X), NEW b \in Seq(X)
  PROVE  Joined(X, a, b, a \o b)
<1>1. Len(a) \in Nat /\ Len(b) \in Nat
  OBVIOUS
<1>2. \A i \in 1 .. Len(a) + Len(b) :
        (a \o b)[i] = IF i <= Len(a) THEN a[i] ELSE b[i - Len(a)]
  BY ConcatProperties
<1>3. a \o b \in Seq(X) /\ Len(a \o b) = Len(a) + Len(b)
  BY ConcatProperties
<1>4. \A i \in 1 .. Len(b) : /\ Len(a) + i \in 1 .. Len(a) + Len(b)
                             /\ ~(Len(a) + i <= Len(a)) /\ (Len(a) + i) - Len(a) = i
  BY <1>1
<1> QED
  BY <1>1, <1>2, <1>3, <1>4 DEF Joined

\* The offsets of the parts of each kind.
FirstObject(r) == Len(r.supersedeAliases)
FirstStandalone(r) == FirstObject(r) + Len(r.supersedeObjects)
FirstCodex(r) == FirstStandalone(r) + Len(r.standalone)
FirstIndependent(r) == FirstCodex(r) + Len(r.projects)

\* Where the parts of each kind begin, and which they are.
LEMMA PartsInOrder ==
  ASSUME NEW r \in Registries
  PROVE  /\ FirstObject(r) \in Nat /\ FirstStandalone(r) \in Nat /\ FirstCodex(r) \in Nat
         /\ FirstIndependent(r) \in Nat
         /\ Len(Parts(r)) = FirstIndependent(r) + Len(r.independents)
         /\ DOMAIN r.supersedeAliases = 1 .. Len(r.supersedeAliases)
         /\ DOMAIN r.supersedeObjects = 1 .. Len(r.supersedeObjects)
         /\ DOMAIN r.standalone = 1 .. Len(r.standalone)
         /\ DOMAIN r.projects = 1 .. Len(r.projects)
         /\ DOMAIN r.independents = 1 .. Len(r.independents)
         /\ \A i \in DOMAIN r.supersedeAliases :
              Parts(r)[i] = Tagged("alias", r.supersedeAliases[i])
         /\ \A i \in DOMAIN r.supersedeObjects :
              Parts(r)[FirstObject(r) + i] = Tagged("object", r.supersedeObjects[i])
         /\ \A i \in DOMAIN r.standalone :
              Parts(r)[FirstStandalone(r) + i] = Tagged("standalone", r.standalone[i])
         /\ \A i \in DOMAIN r.projects :
              Parts(r)[FirstCodex(r) + i] = Tagged("codex", r.projects[i])
         /\ \A i \in DOMAIN r.independents :
              Parts(r)[FirstIndependent(r) + i] =
                Tagged("independent", r.independents[i])
<1> DEFINE A == [owner : Uri, alias : Name, by : Codex]
           O == [object : Object, by : Object]
           S == [owner : Uri, aliases : SUBSET Name]
           K(kind, T) == [kind : {kind}, of : T]
           X == K("alias", A) \cup K("object", O) \cup K("standalone", S)
                  \cup K("codex", Codices) \cup K("independent", Independents)
           ea == Each("alias", r.supersedeAliases)
           eo == Each("object", r.supersedeObjects)
           es == Each("standalone", r.standalone)
           ec == Each("codex", r.projects)
           ei == Each("independent", r.independents)
<1>1. /\ r.supersedeAliases \in Seq(A) /\ r.supersedeObjects \in Seq(O)
      /\ r.standalone \in Seq(S) /\ r.projects \in Seq(Codices)
      /\ r.independents \in Seq(Independents)
  BY DEF Registries
<1>2. Parts(r) = (((ea \o eo) \o es) \o ec) \o ei
  BY DEF Parts
<1>3. /\ \A x \in A : Tagged("alias", x) \in X
      /\ \A x \in O : Tagged("object", x) \in X
      /\ \A x \in S : Tagged("standalone", x) \in X
      /\ \A x \in Codices : Tagged("codex", x) \in X
      /\ \A x \in Independents : Tagged("independent", x) \in X
  <2> HIDE DEF A, O, S
  <2> QED
    BY DEF Tagged
<1> HIDE DEF X, A, O, S
<1>4. /\ DOMAIN r.supersedeAliases = 1 .. Len(r.supersedeAliases)
      /\ DOMAIN r.supersedeObjects = 1 .. Len(r.supersedeObjects)
      /\ DOMAIN r.standalone = 1 .. Len(r.standalone)
      /\ DOMAIN r.projects = 1 .. Len(r.projects)
      /\ DOMAIN r.independents = 1 .. Len(r.independents)
  BY <1>1
<1>5. /\ \A i \in DOMAIN r.supersedeAliases : ea[i] = Tagged("alias", r.supersedeAliases[i])
      /\ \A i \in DOMAIN r.supersedeObjects : eo[i] = Tagged("object", r.supersedeObjects[i])
      /\ \A i \in DOMAIN r.standalone : es[i] = Tagged("standalone", r.standalone[i])
      /\ \A i \in DOMAIN r.projects : ec[i] = Tagged("codex", r.projects[i])
      /\ \A i \in DOMAIN r.independents : ei[i] = Tagged("independent", r.independents[i])
  BY EachTagged
<1>6. ea \in Seq(X) /\ Len(ea) = Len(r.supersedeAliases)
  BY <1>1, <1>3, EachInSeq
<1>7. eo \in Seq(X) /\ Len(eo) = Len(r.supersedeObjects)
  BY <1>1, <1>3, EachInSeq
<1>8. es \in Seq(X) /\ Len(es) = Len(r.standalone)
  BY <1>1, <1>3, EachInSeq
<1>9. ec \in Seq(X) /\ Len(ec) = Len(r.projects)
  BY <1>1, <1>3, EachInSeq
<1>10. ei \in Seq(X) /\ Len(ei) = Len(r.independents)
  BY <1>1, <1>3, EachInSeq
<1> HIDE DEF ea, eo, es, ec, ei
<1> DEFINE p2 == ea \o eo
           p3 == p2 \o es
           p4 == p3 \o ec
           p5 == p4 \o ei
<1>11. Joined(X, ea, eo, p2)
  BY <1>6, <1>7, ConcatJoins
<1>12. p2 \in Seq(X)
  BY <1>11 DEF Joined
<1> HIDE DEF p2
<1>13. Joined(X, p2, es, p3)
  BY <1>8, <1>12, ConcatJoins
<1>14. p3 \in Seq(X)
  BY <1>13 DEF Joined
<1> HIDE DEF p3
<1>15. Joined(X, p3, ec, p4)
  BY <1>9, <1>14, ConcatJoins
<1>16. p4 \in Seq(X)
  BY <1>15 DEF Joined
<1> HIDE DEF p4
<1>17. Joined(X, p4, ei, p5)
  BY <1>10, <1>16, ConcatJoins
<1>18. Parts(r) = p5
  BY <1>2 DEF p2, p3, p4
<1> HIDE DEF p5
<1> DEFINE a == Len(ea)  o == Len(eo)  s == Len(es)  c == Len(ec)  d == Len(ei)
<1>19. /\ a \in Nat /\ o \in Nat /\ s \in Nat /\ c \in Nat /\ d \in Nat
       /\ Len(p2) = a + o /\ Len(p3) = a + o + s /\ Len(p4) = a + o + s + c
       /\ Len(p5) = a + o + s + c + d
  BY <1>11, <1>13, <1>15, <1>17 DEF Joined
<1>20. /\ FirstObject(r) = a /\ FirstStandalone(r) = a + o /\ FirstCodex(r) = a + o + s
       /\ FirstIndependent(r) = a + o + s + c
  BY <1>6, <1>7, <1>8, <1>9 DEF FirstObject, FirstStandalone, FirstCodex, FirstIndependent
<1>21. /\ \A i \in 1 .. a : p2[i] = ea[i]
       /\ \A i \in 1 .. o : p2[a + i] = eo[i]
       /\ \A i \in 1 .. a + o : p3[i] = p2[i]
       /\ \A i \in 1 .. s : p3[a + o + i] = es[i]
       /\ \A i \in 1 .. a + o + s : p4[i] = p3[i]
       /\ \A i \in 1 .. c : p4[a + o + s + i] = ec[i]
       /\ \A i \in 1 .. a + o + s + c : p5[i] = p4[i]
       /\ \A i \in 1 .. d : p5[a + o + s + c + i] = ei[i]
  BY <1>11, <1>13, <1>15, <1>17, <1>19 DEF Joined
<1> HIDE DEF a, o, s, c, d
<1>22. \A i \in 1 .. a : p5[i] = ea[i]
  <2> SUFFICES ASSUME NEW i \in 1 .. a PROVE p5[i] = ea[i]
    OBVIOUS
  <2>1. i \in 1 .. a + o /\ i \in 1 .. a + o + s /\ i \in 1 .. a + o + s + c
    BY <1>19
  <2> QED
    BY <1>21, <2>1
<1>23. \A i \in 1 .. o : p5[a + i] = eo[i]
  <2> SUFFICES ASSUME NEW i \in 1 .. o PROVE p5[a + i] = eo[i]
    OBVIOUS
  <2>1. a + i \in 1 .. a + o /\ a + i \in 1 .. a + o + s /\ a + i \in 1 .. a + o + s + c
    BY <1>19
  <2> QED
    BY <1>21, <2>1
<1>24. \A i \in 1 .. s : p5[a + o + i] = es[i]
  <2> SUFFICES ASSUME NEW i \in 1 .. s PROVE p5[a + o + i] = es[i]
    OBVIOUS
  <2>1. a + o + i \in 1 .. a + o + s /\ a + o + i \in 1 .. a + o + s + c
    BY <1>19
  <2> QED
    BY <1>21, <2>1
<1>25. \A i \in 1 .. c : p5[a + o + s + i] = ec[i]
  <2> SUFFICES ASSUME NEW i \in 1 .. c PROVE p5[a + o + s + i] = ec[i]
    OBVIOUS
  <2>1. a + o + s + i \in 1 .. a + o + s + c
    BY <1>19
  <2> QED
    BY <1>21, <2>1
<1>26. /\ DOMAIN r.supersedeAliases = 1 .. a /\ DOMAIN r.supersedeObjects = 1 .. o
       /\ DOMAIN r.standalone = 1 .. s /\ DOMAIN r.projects = 1 .. c
       /\ DOMAIN r.independents = 1 .. d
  BY <1>4, <1>6, <1>7, <1>8, <1>9, <1>10 DEF a, o, s, c, d
<1>27. /\ FirstObject(r) \in Nat /\ FirstStandalone(r) \in Nat /\ FirstCodex(r) \in Nat
       /\ FirstIndependent(r) \in Nat
       /\ Len(Parts(r)) = FirstIndependent(r) + Len(r.independents)
  BY <1>10, <1>18, <1>19, <1>20 DEF d
<1>28. \A i \in DOMAIN r.supersedeAliases : Parts(r)[i] = Tagged("alias", r.supersedeAliases[i])
  BY <1>5, <1>18, <1>22, <1>26
<1>29. \A i \in DOMAIN r.supersedeObjects :
         Parts(r)[FirstObject(r) + i] = Tagged("object", r.supersedeObjects[i])
  BY <1>5, <1>18, <1>20, <1>23, <1>26
<1>30. \A i \in DOMAIN r.standalone :
         Parts(r)[FirstStandalone(r) + i] = Tagged("standalone", r.standalone[i])
  BY <1>5, <1>18, <1>20, <1>24, <1>26
<1>31. \A i \in DOMAIN r.projects :
         Parts(r)[FirstCodex(r) + i] = Tagged("codex", r.projects[i])
  BY <1>5, <1>18, <1>20, <1>25, <1>26
<1>32. \A i \in DOMAIN r.independents :
         Parts(r)[FirstIndependent(r) + i] = Tagged("independent", r.independents[i])
  BY <1>5, <1>18, <1>20, <1>21, <1>26
<1> QED
  BY <1>4, <1>27, <1>28, <1>29, <1>30, <1>31, <1>32

\* A number between two bounds, counted from the lower one.
LEMMA Offset ==
  ASSUME NEW a \in Int, NEW n \in Int, NEW b \in Int, b = a + n, NEW k \in Int, a < k, k <= b
  PROVE  k - a \in 1 .. n /\ k = a + (k - a)
OBVIOUS

\* A number counted from a bound, within another.
LEMMA Within ==
  ASSUME NEW a \in Nat, NEW n \in Int, NEW b \in Int, a + n <= b, NEW i \in 1 .. n
  PROVE  a + i \in 1 .. b
OBVIOUS

\* Part k is the i-th of its kind.
Numbered(r, k, kind, rules, first) ==
  k - first \in DOMAIN rules /\ Parts(r)[k] = Tagged(kind, rules[k - first])

\* What a part says.
LEMMA TaggedFields ==
  ASSUME NEW kind, NEW x
  PROVE  Tagged(kind, x).kind = kind /\ Tagged(kind, x).of = x
BY DEF Tagged

\* Every part is of one of the five kinds, by its place.
LEMMA PartIs ==
  ASSUME NEW r \in Registries, NEW k \in 1 .. Len(Parts(r))
  PROVE  \/ k <= FirstObject(r) /\ Numbered(r, k, "alias", r.supersedeAliases, 0)
         \/ /\ FirstObject(r) < k /\ k <= FirstStandalone(r)
            /\ Numbered(r, k, "object", r.supersedeObjects, FirstObject(r))
         \/ /\ FirstStandalone(r) < k /\ k <= FirstCodex(r)
            /\ Numbered(r, k, "standalone", r.standalone, FirstStandalone(r))
         \/ /\ FirstCodex(r) < k /\ k <= FirstIndependent(r)
            /\ Numbered(r, k, "codex", r.projects, FirstCodex(r))
         \/ /\ FirstIndependent(r) < k
            /\ Numbered(r, k, "independent", r.independents, FirstIndependent(r))
<1> DEFINE o == FirstObject(r)  s == FirstStandalone(r)  c == FirstCodex(r)
           d == FirstIndependent(r)
<1>1. /\ o \in Nat /\ s \in Nat /\ c \in Nat /\ d \in Nat
      /\ Len(Parts(r)) = d + Len(r.independents)
  BY PartsInOrder
<1>2. /\ o = Len(r.supersedeAliases) /\ s = o + Len(r.supersedeObjects)
      /\ c = s + Len(r.standalone) /\ d = c + Len(r.projects)
  BY DEF FirstObject, FirstStandalone, FirstCodex, FirstIndependent
<1>3. /\ DOMAIN r.supersedeAliases = 1 .. Len(r.supersedeAliases)
      /\ DOMAIN r.supersedeObjects = 1 .. Len(r.supersedeObjects)
      /\ DOMAIN r.standalone = 1 .. Len(r.standalone)
      /\ DOMAIN r.projects = 1 .. Len(r.projects)
      /\ DOMAIN r.independents = 1 .. Len(r.independents)
  BY PartsInOrder
<1>4. /\ Len(r.supersedeAliases) \in Nat /\ Len(r.supersedeObjects) \in Nat
      /\ Len(r.standalone) \in Nat /\ Len(r.projects) \in Nat /\ Len(r.independents) \in Nat
  BY DEF Registries
<1>5. k \in Int
  OBVIOUS
<1> HIDE DEF o, s, c, d
<1>6. CASE k <= o
  <2>1. k - 0 \in DOMAIN r.supersedeAliases /\ k - 0 = k
    BY <1>1, <1>2, <1>3, <1>6
  <2> QED
    BY <1>6, <2>1, PartsInOrder DEF Numbered, o
<1>7. CASE o < k /\ k <= s
  <2> DEFINE i == k - o
  <2>1. i \in DOMAIN r.supersedeObjects /\ k = o + i
    <3> DEFINE n == Len(r.supersedeObjects)
    <3>1. o \in Int /\ s \in Int /\ n \in Int /\ s = o + n /\ DOMAIN r.supersedeObjects = 1 .. n
      BY <1>1, <1>2, <1>3, <1>4
    <3> HIDE DEF n
    <3>2. k - o \in 1 .. n /\ k = o + (k - o)
      BY <1>5, <1>7, <3>1, Offset
    <3> QED
      BY <3>1, <3>2
  <2> HIDE DEF i
  <2>2. Parts(r)[k] = Tagged("object", r.supersedeObjects[i])
    BY <2>1, PartsInOrder DEF o
  <2> QED
    BY <1>7, <2>1, <2>2 DEF Numbered, o, s, i
<1>8. CASE s < k /\ k <= c
  <2> DEFINE i == k - s
  <2>1. i \in DOMAIN r.standalone /\ k = s + i
    <3> DEFINE n == Len(r.standalone)
    <3>1. s \in Int /\ c \in Int /\ n \in Int /\ c = s + n /\ DOMAIN r.standalone = 1 .. n
      BY <1>1, <1>2, <1>3, <1>4
    <3> HIDE DEF n
    <3>2. k - s \in 1 .. n /\ k = s + (k - s)
      BY <1>5, <1>8, <3>1, Offset
    <3> QED
      BY <3>1, <3>2
  <2> HIDE DEF i
  <2>2. Parts(r)[k] = Tagged("standalone", r.standalone[i])
    BY <2>1, PartsInOrder DEF s
  <2> QED
    BY <1>8, <2>1, <2>2 DEF Numbered, s, c, i
<1>9. CASE c < k /\ k <= d
  <2> DEFINE i == k - c
  <2>1. i \in DOMAIN r.projects /\ k = c + i
    <3> DEFINE n == Len(r.projects)
    <3>1. c \in Int /\ d \in Int /\ n \in Int /\ d = c + n /\ DOMAIN r.projects = 1 .. n
      BY <1>1, <1>2, <1>3, <1>4
    <3> HIDE DEF n
    <3>2. k - c \in 1 .. n /\ k = c + (k - c)
      BY <1>5, <1>9, <3>1, Offset
    <3> QED
      BY <3>1, <3>2
  <2> HIDE DEF i
  <2>2. Parts(r)[k] = Tagged("codex", r.projects[i])
    BY <2>1, PartsInOrder DEF c
  <2> QED
    BY <1>9, <2>1, <2>2 DEF Numbered, c, d, i
<1>10. CASE d < k
  <2> DEFINE i == k - d
  <2>1. i \in DOMAIN r.independents /\ k = d + i
    BY <1>1, <1>3, <1>4, <1>5, <1>10
  <2> HIDE DEF i
  <2>2. Parts(r)[k] = Tagged("independent", r.independents[i])
    BY <2>1, PartsInOrder DEF d
  <2> QED
    BY <1>10, <2>1, <2>2 DEF Numbered, d, i
<1>11. k <= o \/ (o < k /\ k <= s) \/ (s < k /\ k <= c) \/ (c < k /\ k <= d) \/ d < k
  BY <1>1, <1>5
<1> QED
  BY <1>6, <1>7, <1>8, <1>9, <1>10, <1>11

\* A part that writes the row of an entry.
Writes(part) == part.kind \in {"codex", "independent"}

\* Its project has a name, which is one of its aliases.
NamedEntries(r) ==
  /\ \A i \in DOMAIN r.projects : r.projects[i].name \in r.projects[i].aliases
  /\ \A i \in DOMAIN r.independents : r.independents[i].name \in r.independents[i].aliases

\* So it is a rule or an entry of the registry.
LEMMA PartKinds ==
  ASSUME NEW r \in Registries, NEW k \in 1 .. Len(Parts(r))
  PROVE  LET part == Parts(r)[k] IN
         \/ part.kind = "alias" /\ part.of \in Range(r.supersedeAliases)
              /\ part.of \in [owner : Uri, alias : Name, by : Codex]
         \/ part.kind = "object" /\ part.of \in Range(r.supersedeObjects)
         \/ part.kind = "standalone" /\ part.of \in Range(r.standalone)
              /\ part.of \in [owner : Uri, aliases : SUBSET Name]
         \/ part.kind = "codex" /\ part.of \in Range(r.projects) /\ part.of \in Codices
         \/ part.kind = "independent" /\ part.of \in Range(r.independents)
              /\ part.of \in Independents
<1> DEFINE part == Parts(r)[k]
<1>1. ASSUME NEW kind, NEW rules, NEW first, NEW S, rules \in Seq(S),
             Numbered(r, k, kind, rules, first)
      PROVE  part.kind = kind /\ part.of \in Range(rules) /\ part.of \in S
  <2>1. part.kind = kind /\ part.of = rules[k - first] /\ k - first \in DOMAIN rules
    BY <1>1, TaggedFields DEF Numbered
  <2> QED
    BY <1>1, <2>1 DEF Range
<1>2. /\ r.supersedeAliases \in Seq([owner : Uri, alias : Name, by : Codex])
      /\ r.supersedeObjects \in Seq([object : Object, by : Object])
      /\ r.standalone \in Seq([owner : Uri, aliases : SUBSET Name])
      /\ r.projects \in Seq(Codices) /\ r.independents \in Seq(Independents)
  BY DEF Registries
<1> HIDE DEF part
<1>3. CASE Numbered(r, k, "alias", r.supersedeAliases, 0)
  BY <1>1, <1>2, <1>3 DEF part
<1>4. CASE Numbered(r, k, "object", r.supersedeObjects, FirstObject(r))
  BY <1>1, <1>2, <1>4 DEF part
<1>5. CASE Numbered(r, k, "standalone", r.standalone, FirstStandalone(r))
  BY <1>1, <1>2, <1>5 DEF part
<1>6. CASE Numbered(r, k, "codex", r.projects, FirstCodex(r))
  BY <1>1, <1>2, <1>6 DEF part
<1>7. CASE Numbered(r, k, "independent", r.independents, FirstIndependent(r))
  BY <1>1, <1>2, <1>7 DEF part
<1> QED
  BY <1>3, <1>4, <1>5, <1>6, <1>7, PartIs

\* Rules about aliases are the first, and entries the last.
LEMMA PartsOrdered ==
  ASSUME NEW r \in Registries, NEW j \in 1 .. Len(Parts(r)), NEW k \in 1 .. Len(Parts(r)), j < k
  PROVE  /\ Parts(r)[k].kind = "alias" => Parts(r)[j].kind = "alias"
         /\ ~Writes(Parts(r)[k]) => ~Writes(Parts(r)[j])
<1>1. FirstObject(r) \in Nat /\ FirstStandalone(r) \in Nat /\ FirstCodex(r) \in Nat
      /\ FirstIndependent(r) \in Nat
      /\ FirstObject(r) <= FirstStandalone(r) /\ FirstStandalone(r) <= FirstCodex(r)
      /\ FirstCodex(r) <= FirstIndependent(r)
  <2> DEFINE o == FirstObject(r)  s == FirstStandalone(r)  c == FirstCodex(r)
             d == FirstIndependent(r)
  <2>2. /\ o \in Nat /\ s \in Nat /\ c \in Nat /\ d \in Nat
    BY PartsInOrder
  <2>3. /\ s = o + Len(r.supersedeObjects) /\ c = s + Len(r.standalone) /\ d = c + Len(r.projects)
    BY DEF FirstStandalone, FirstCodex, FirstIndependent
  <2>1. /\ Len(r.supersedeAliases) \in Nat /\ Len(r.supersedeObjects) \in Nat
        /\ Len(r.standalone) \in Nat /\ Len(r.projects) \in Nat
    BY DEF Registries
  <2> QED
    <3> HIDE DEF o, s, c, d
    <3>1. \A a, b, n : a \in Nat /\ n \in Nat /\ b = a + n => a <= b
      OBVIOUS
    <3>2. o <= s /\ s <= c /\ c <= d
      BY <2>1, <2>2, <2>3, <3>1
    <3> QED
      BY <2>2, <3>2 DEF o, s, c, d
<1>2. ASSUME NEW i \in 1 .. Len(Parts(r))
      PROVE  /\ Parts(r)[i].kind = "alias" <=> i <= FirstObject(r)
             /\ Writes(Parts(r)[i]) <=> FirstCodex(r) < i
  <2>1. ASSUME NEW kind, NEW rules, NEW first, Numbered(r, i, kind, rules, first)
        PROVE  Parts(r)[i].kind = kind
    BY <2>1, TaggedFields DEF Numbered
  <2> QED
    BY <1>1, <2>1, PartIs DEF Writes
<1> QED
  BY <1>1, <1>2

\* Two entries share no alias, and are two projects of Codex or two others.
LEMMA EntriesDisjoint ==
  ASSUME NEW r \in Registries, UniqueIdentities(r),
         NEW j \in 1 .. Len(Parts(r)), NEW k \in 1 .. Len(Parts(r)), j # k,
         Writes(Parts(r)[j]), Writes(Parts(r)[k])
  PROVE  /\ Parts(r)[j].of.aliases \cap Parts(r)[k].of.aliases = {}
         /\ Parts(r)[j].kind = "codex" /\ Parts(r)[k].kind = "codex" =>
              \E a, b \in DOMAIN r.projects :
                a # b /\ Parts(r)[j].of = r.projects[a] /\ Parts(r)[k].of = r.projects[b]
         /\ Parts(r)[j].kind = "independent" /\ Parts(r)[k].kind = "independent" =>
              Parts(r)[j].of.source # Parts(r)[k].of.source
<1> DEFINE c == Len(r.projects)  d == Len(r.independents)  first == FirstCodex(r)
<1>1. /\ r.projects \in Seq(Codices) /\ r.independents \in Seq(Independents)
      /\ c \in Nat /\ d \in Nat /\ DOMAIN r.projects = 1 .. c /\ DOMAIN r.independents = 1 .. d
  BY DEF Registries
<1>2. FirstIndependent(r) = first + c /\ first \in Nat
  BY PartsInOrder DEF FirstIndependent
<1>3. Joined(Codices \cup Independents, r.projects, r.independents, Entries(r))
  <2>1. Seq(Codices) \subseteq Seq(Codices \cup Independents)
        /\ Seq(Independents) \subseteq Seq(Codices \cup Independents)
    OBVIOUS
  <2> QED
    BY <1>1, <2>1, ConcatJoins DEF Entries
<1>4. /\ DOMAIN Entries(r) = 1 .. c + d
      /\ \A i \in 1 .. c : Entries(r)[i] = r.projects[i]
      /\ \A i \in 1 .. d : Entries(r)[c + i] = r.independents[i]
  <2>1. Entries(r) \in Seq(Codices \cup Independents) /\ Len(Entries(r)) = c + d
    BY <1>3 DEF Joined
  <2>2. DOMAIN Entries(r) = 1 .. Len(Entries(r))
    BY <2>1
  <2> QED
    BY <1>3, <2>1, <2>2 DEF Joined
<1> HIDE DEF c, d, first
<1>0. c \in Nat /\ d \in Nat /\ first \in Nat
  BY <1>1, <1>2 DEF c, d, first
<1>5. ASSUME NEW i \in 1 .. Len(Parts(r)), Writes(Parts(r)[i])
      PROVE  /\ i - first \in DOMAIN Entries(r) /\ Parts(r)[i].of = Entries(r)[i - first]
             /\ Parts(r)[i].kind = "codex" =>
                  i - first \in DOMAIN r.projects /\ Parts(r)[i].of = r.projects[i - first]
             /\ Parts(r)[i].kind = "independent" =>
                  /\ i - (first + c) \in DOMAIN r.independents
                  /\ Parts(r)[i].of = r.independents[i - (first + c)]
  <2>1. ASSUME NEW kind, NEW rules, NEW start, Numbered(r, i, kind, rules, start)
        PROVE  /\ Parts(r)[i].kind = kind /\ i - start \in DOMAIN rules
               /\ Parts(r)[i].of = rules[i - start]
    BY <2>1, TaggedFields DEF Numbered
  <2>2. \/ Numbered(r, i, "codex", r.projects, first)
        \/ Numbered(r, i, "independent", r.independents, first + c)
    BY <1>2, <1>5, <2>1, PartIs DEF Writes, first
  <2>3. CASE Numbered(r, i, "codex", r.projects, first)
    <3>1. /\ Parts(r)[i].kind = "codex" /\ i - first \in DOMAIN r.projects
          /\ Parts(r)[i].of = r.projects[i - first]
      BY <2>1, <2>3
    <3>2. i - first \in 1 .. c
      BY <1>1, <3>1 DEF c
    <3>3. i - first \in 1 .. c + d
      BY <1>0, <3>2
    <3> QED
      BY <1>4, <3>1, <3>2, <3>3
  <2>4. CASE Numbered(r, i, "independent", r.independents, first + c)
    <3> DEFINE m == i - (first + c)
    <3>1. /\ Parts(r)[i].kind = "independent" /\ m \in DOMAIN r.independents
          /\ Parts(r)[i].of = r.independents[m]
      BY <2>1, <2>4
    <3>2. m \in 1 .. d
      BY <1>1, <3>1 DEF d
    <3>3. c + m = i - first
      BY <1>0
    <3>5. c + m \in 1 .. c + d
      <4> HIDE DEF m
      <4> QED
        BY <1>0, <3>2, Within
    <3> HIDE DEF m
    <3>4. Entries(r)[i - first] = r.independents[m]
      BY <1>4, <3>2, <3>3, <3>5
    <3> QED
      BY <1>4, <3>1, <3>3, <3>4, <3>5 DEF m
  <2> QED
    BY <2>2, <2>3, <2>4
<1>6. j - first # k - first /\ j - (first + c) # k - (first + c)
  BY <1>1, <1>2 DEF c
<1>7. Parts(r)[j].of.aliases \cap Parts(r)[k].of.aliases = {}
  BY <1>5, <1>6 DEF UniqueIdentities
<1>8. ASSUME Parts(r)[j].kind = "codex", Parts(r)[k].kind = "codex"
      PROVE  \E a, b \in DOMAIN r.projects :
               a # b /\ Parts(r)[j].of = r.projects[a] /\ Parts(r)[k].of = r.projects[b]
  BY <1>5, <1>6, <1>8
<1>9. ASSUME Parts(r)[j].kind = "independent", Parts(r)[k].kind = "independent"
      PROVE  Parts(r)[j].of.source # Parts(r)[k].of.source
  BY <1>5, <1>6, <1>9 DEF UniqueIdentities
<1> QED
  BY <1>7, <1>8, <1>9

\* Every entry and every rule is a part.
LEMMA PartsCover ==
  ASSUME NEW r \in Registries
  PROVE  /\ \A i \in DOMAIN r.supersedeAliases : \E k \in 1 .. Len(Parts(r)) :
              Parts(r)[k] = Tagged("alias", r.supersedeAliases[i])
         /\ \A i \in DOMAIN r.supersedeObjects : \E k \in 1 .. Len(Parts(r)) :
              Parts(r)[k] = Tagged("object", r.supersedeObjects[i])
         /\ \A i \in DOMAIN r.standalone : \E k \in 1 .. Len(Parts(r)) :
              Parts(r)[k] = Tagged("standalone", r.standalone[i])
         /\ \A i \in DOMAIN r.projects : \E k \in 1 .. Len(Parts(r)) :
              k = FirstCodex(r) + i /\ Parts(r)[k] = Tagged("codex", r.projects[i])
         /\ \A i \in DOMAIN r.independents : \E k \in 1 .. Len(Parts(r)) :
              k = FirstIndependent(r) + i /\ Parts(r)[k] = Tagged("independent", r.independents[i])
<1> DEFINE o == FirstObject(r)  s == FirstStandalone(r)  c == FirstCodex(r)
           d == FirstIndependent(r)
<1>1. /\ o = Len(r.supersedeAliases) /\ s = o + Len(r.supersedeObjects)
      /\ c = s + Len(r.standalone) /\ d = c + Len(r.projects)
      /\ Len(Parts(r)) = d + Len(r.independents)
  BY PartsInOrder DEF FirstObject, FirstStandalone, FirstCodex, FirstIndependent
<1>2. /\ Len(r.supersedeAliases) \in Nat /\ Len(r.supersedeObjects) \in Nat
      /\ Len(r.standalone) \in Nat /\ Len(r.projects) \in Nat /\ Len(r.independents) \in Nat
  BY DEF Registries
<1>3. /\ DOMAIN r.supersedeAliases = 1 .. Len(r.supersedeAliases)
      /\ DOMAIN r.supersedeObjects = 1 .. Len(r.supersedeObjects)
      /\ DOMAIN r.standalone = 1 .. Len(r.standalone)
      /\ DOMAIN r.projects = 1 .. Len(r.projects)
      /\ DOMAIN r.independents = 1 .. Len(r.independents)
  BY PartsInOrder
<1> HIDE DEF o, s, c, d
<1>4. /\ \A i \in DOMAIN r.supersedeAliases : i \in 1 .. Len(Parts(r))
      /\ \A i \in DOMAIN r.supersedeObjects : o + i \in 1 .. Len(Parts(r))
      /\ \A i \in DOMAIN r.standalone : s + i \in 1 .. Len(Parts(r))
      /\ \A i \in DOMAIN r.projects : c + i \in 1 .. Len(Parts(r))
      /\ \A i \in DOMAIN r.independents : d + i \in 1 .. Len(Parts(r))
  <2> DEFINE n == Len(Parts(r))  a == Len(r.supersedeAliases)  b == Len(r.supersedeObjects)
             x == Len(r.standalone)  y == Len(r.projects)  z == Len(r.independents)
  <2>1. /\ a \in Nat /\ b \in Nat /\ x \in Nat /\ y \in Nat /\ z \in Nat
        /\ o = a /\ s = o + b /\ c = s + x /\ d = c + y /\ n = d + z
    BY <1>1, <1>2
  <2> HIDE DEF n, a, b, x, y, z
  <2>5. o \in Nat /\ s \in Nat /\ c \in Nat /\ d \in Nat /\ n \in Nat
    BY <2>1
  <2>2. 0 + a <= n /\ o + b <= n /\ s + x <= n /\ c + y <= n /\ d + z <= n
    BY <2>1, <2>5
  <2>3. /\ \A i \in 1 .. a : 0 + i \in 1 .. n
        /\ \A i \in 1 .. b : o + i \in 1 .. n
        /\ \A i \in 1 .. x : s + i \in 1 .. n
        /\ \A i \in 1 .. y : c + i \in 1 .. n
        /\ \A i \in 1 .. z : d + i \in 1 .. n
    BY <2>1, <2>2, <2>5
  <2>4. \A i \in 1 .. a : i \in 1 .. n
    BY <2>1, <2>2, <2>5
  <2> QED
    BY <1>3, <2>3, <2>4 DEF n, a, b, x, y, z
<1> QED
  BY <1>4, PartsInOrder DEF o, s, c, d

-----------------------------------------------------------------------------
(* An apply that may be repeated *)

\* The tables after each part of the apply of r to t.
Applying(f, t, r) ==
  /\ SoundTables(t) /\ r \in Registries /\ NamedEntries(r)
  /\ Plannable(t, r) /\ Repeatable(t, r) /\ f[0] = t
  /\ \A i \in 1 .. Len(Parts(r)) :
       f[i] = Applied(f[i - 1], t.projects, r, Parts(r)[i]) /\ Grown(f[i - 1], f[i])
  /\ \A i \in 0 .. Len(Parts(r)) : SoundTables(f[i]) /\ Grown(t, f[i])

\* An apply has tables after each of its parts, and the last are its result.
LEMMA ApplyTraced ==
  ASSUME NEW t, SoundTables(t), NEW r \in Registries, NamedEntries(r), Plannable(t, r),
         Repeatable(t, r)
  PROVE  \E f : Applying(f, t, r) /\ AllApplied(t, r) = f[Len(Parts(r))]
<1> DEFINE n == Len(Parts(r))
<1>1. n \in Nat /\ \A i \in 1 .. n : PartFits(t, r, Parts(r)[i])
  BY PartsFit DEF Plannable
<1>2. PICK f : Trace(f, t, r, n) /\ AllApplied(t, r) = f[n]
  BY <1>1, AllAppliedIsTraced
<1> HIDE DEF n
<1>3. /\ f[0] = t
      /\ \A i \in 1 .. n : f[i] = Applied(f[i - 1], t.projects, r, Parts(r)[i])
  BY <1>1, <1>2 DEF Trace
<1> DEFINE T == {i \in Nat : i <= n => SoundTables(f[i]) /\ Grown(t, f[i])
                                       /\ (i # 0 => Grown(f[i - 1], f[i]))}
<1>4. 0 \in T
  BY <1>3 DEF Grown
<1>5. ASSUME NEW i \in Nat, i \in T
      PROVE  i + 1 \in T
  <2> SUFFICES ASSUME i + 1 <= n
               PROVE  /\ SoundTables(f[i + 1]) /\ Grown(t, f[i + 1])
                      /\ Grown(f[(i + 1) - 1], f[i + 1])
    OBVIOUS
  <2> DEFINE part == Parts(r)[i + 1]
  <2>1. SoundTables(f[i]) /\ Grown(t, f[i])
    BY <1>1, <1>5
  <2>2. i + 1 \in 1 .. n /\ (i + 1) - 1 = i
    BY <1>1
  <2>3. f[i + 1] = Applied(f[i], t.projects, r, part)
    BY <1>3, <2>2
  <2>4. PartFits(t, r, part)
    BY <1>1, <2>2
  <2> HIDE DEF part
  <2>5. PartFits(f[i], r, part)
    BY <2>1, <2>4 DEF PartFits, Grown
  <2>6. t.projects \in Seq(Row) /\ DOMAIN t.projects \subseteq DOMAIN f[i].projects
    BY <2>1 DEF SoundTables, Grown
  <2>7. SoundTables(f[i + 1]) /\ Grown(f[i], f[i + 1])
    BY <2>1, <2>3, <2>5, <2>6, AppliedSound
  <2> QED
    BY <2>1, <2>2, <2>7, GrownTransitive
<1>6. \A i \in Nat : i \in T
  <2> HIDE DEF T
  <2> QED
    BY <1>4, <1>5, SetInduction
<1>7. \A i \in 0 .. n : SoundTables(f[i]) /\ Grown(t, f[i])
  BY <1>1, <1>6
<1>8. \A i \in 1 .. n : Grown(f[i - 1], f[i])
  BY <1>1, <1>6
<1> QED
  BY <1>2, <1>3, <1>7, <1>8 DEF Applying, n

\* The tables before part i, and after it.
LEMMA ApplyingStep ==
  ASSUME NEW f, NEW t, NEW r, Applying(f, t, r), NEW i \in 1 .. Len(Parts(r))
  PROVE  /\ SoundTables(f[i - 1]) /\ SoundTables(f[i]) /\ SoundTables(t)
         /\ Grown(t, f[i - 1]) /\ Grown(t, f[i]) /\ Grown(f[i - 1], f[i])
         /\ f[i] = Applied(f[i - 1], t.projects, r, Parts(r)[i])
         /\ t.projects \in Seq(Row) /\ f[i - 1].projects \in Seq(Row)
         /\ f[i].projects \in Seq(Row)
         /\ DOMAIN t.projects \subseteq DOMAIN f[i - 1].projects
         /\ DOMAIN f[i - 1].projects \subseteq DOMAIN f[i].projects
<1>1. r \in Registries
  BY DEF Applying
<1>2. Len(Parts(r)) \in Nat
  BY <1>1, PartsInOrder DEF Registries
<1>3. i - 1 \in 0 .. Len(Parts(r)) /\ i \in 0 .. Len(Parts(r))
  BY <1>2
<1> QED
  BY <1>3 DEF Applying, SoundTables, Grown

\* What holds after part k, and after each later part if it did before, holds in the end.
LEMMA HoldsToTheEnd ==
  ASSUME NEW n \in Nat, NEW k \in 0 .. n, NEW T, k \in T,
         \A i \in 1 .. n : k < i /\ i - 1 \in T => i \in T
  PROVE  \A i \in 0 .. n : k <= i => i \in T
<1> DEFINE S == {i \in Nat : k + i <= n => k + i \in T}
<1>1. 0 \in S
  OBVIOUS
<1>2. ASSUME NEW i \in Nat, i \in S
      PROVE  i + 1 \in S
  <2> SUFFICES ASSUME k + (i + 1) <= n
               PROVE  k + (i + 1) \in T
    OBVIOUS
  <2> DEFINE j == k + (i + 1)
  <2>1. j \in 1 .. n /\ k < j /\ j - 1 = k + i /\ k + i <= n
    OBVIOUS
  <2>2. k + i \in T
    BY <1>2, <2>1
  <2> HIDE DEF j
  <2>3. j \in T
    BY <2>1, <2>2
  <2> QED
    BY <2>3 DEF j
<1>3. \A i \in Nat : i \in S
  <2> HIDE DEF S
  <2> QED
    BY <1>1, <1>2, SetInduction
<1>4. ASSUME NEW i \in 0 .. n, k <= i
      PROVE  i \in T
  <2>1. i - k \in Nat /\ k + (i - k) = i
    BY <1>4
  <2>2. i - k \in S
    BY <1>3, <2>1
  <2> QED
    BY <2>1, <2>2
<1> QED
  BY <1>4

\* The row that part k writes, and what it writes there.
Taken(ps, part) ==
  IF part.kind = "codex" THEN Adopted(ps, part.of) ELSE BySource(ps, part.of.source)

SourceOf(ps, part) ==
  IF part.kind = "codex" THEN TargetSource(ps, part.of) ELSE part.of.source

CodexOf(ps, part) ==
  IF part.kind = "codex" THEN part.of.codex
  ELSE IF Taken(ps, part) = NoProject THEN NoCodex ELSE ps[Taken(ps, part)].codex

Place(f, t, r, k) == PlaceIn(f[k - 1].projects, Taken(t.projects, Parts(r)[k]))

\* What an entry makes, and what it adopts.
LEMMA EntryMakes ==
  ASSUME NEW ps, NEW r, NEW e \in Range(r.projects)
  PROVE  /\ RootObjects(<<"group", e.codex>>, e.roots) \subseteq Made(ps, r)
         /\ Scopes(Workspaces(ps, e) \cup Candidates(ps, e, Superseded(r))) \subseteq Made(ps, r)
         /\ e.adoptObject = {} => GroupOf(e) \in Made(ps, r)
<1>1. MadeFor(ps, r, e) \subseteq Made(ps, r)
  BY DEF Made
<1> QED
  BY <1>1 DEF MadeFor

\* So does a project outside Codex.
LEMMA RegistrationMakes ==
  ASSUME NEW ps, NEW r, NEW e \in Range(r.independents)
  PROVE  RegisteredObjects(e) \subseteq Made(ps, r)
BY DEF Made

\* An adopted object is none that an apply makes.
LEMMA EntryAdopts ==
  ASSUME NEW ps, NEW r, ObjectsApart(ps, r), NEW e \in Range(r.projects), e.adoptObject # {}
  PROVE  /\ GroupOf(e) \in e.adoptObject /\ GroupOf(e) \in AdoptedObjects(r)
         /\ GroupOf(e) \notin Made(ps, r)
<1>1. GroupOf(e) \in e.adoptObject
  BY DEF GroupOf, TheOne
<1>2. GroupOf(e) \in AdoptedObjects(r)
  BY <1>1 DEF AdoptedObjects
<1> QED
  BY <1>1, <1>2 DEF ObjectsApart

\* The object of a group, or of a project outside Codex, is none of a root or a scope.
LEMMA GroupsAreNoRoots ==
  ASSUME NEW kind, kind \in {"group", "registered"}, NEW x, NEW scope, NEW roots, NEW ps
  PROVE  <<kind, x>> \notin RootObjects(scope, roots) /\ <<kind, x>> \notin Scopes(ps)
<1>1. \A root : <<kind, x>> # <<"root", scope, root>>
  OBVIOUS
<1>2. \A q : <<kind, x>> # <<"scope", q>>
  OBVIOUS
<1> QED
  BY <1>1, <1>2 DEF RootObjects, Scopes

\* So a Codex project's object is none of its roots or scopes.
LEMMA GroupApart ==
  ASSUME NEW ps, NEW r, ObjectsApart(ps, r), NEW e \in Range(r.projects)
  PROVE  /\ GroupOf(e) \notin RootObjects(<<"group", e.codex>>, e.roots)
         /\ GroupOf(e) \notin Scopes(Workspaces(ps, e) \cup Candidates(ps, e, Superseded(r)))
<1>1. CASE e.adoptObject = {}
  <2>1. GroupOf(e) = <<"group", e.codex>>
    BY <1>1 DEF GroupOf
  <2> QED
    BY <2>1, GroupsAreNoRoots
<1>2. CASE e.adoptObject # {}
  BY <1>2, EntryAdopts, EntryMakes
<1> QED
  BY <1>1, <1>2

\* A Codex project is registered by its part, as it was planned.
LEMMA StepRegistered ==
  ASSUME NEW f, NEW t, NEW r, Applying(f, t, r), NEW i \in 1 .. Len(Parts(r)),
         Parts(r)[i].kind = "codex"
  PROVE  GroupRegistered(f[i - 1], f[i], t.projects, Parts(r)[i].of,
                         Workspaces(t.projects, Parts(r)[i].of),
                         Candidates(t.projects, Parts(r)[i].of, Superseded(r)))
<1> DEFINE e == Parts(r)[i].of  old == f[i - 1]  new == f[i]
           workspaces == Workspaces(t.projects, e)
           candidates == Candidates(t.projects, e, Superseded(r))
<1>1. r \in Registries /\ ObjectsApart(t.projects, r)
  BY DEF Applying, Repeatable
<1>2. e \in Range(r.projects) /\ e \in Codices
  BY <1>1, PartKinds
<1>3. new = RegisterCodex(old, t.projects, e, Superseded(r))
  BY ApplyingStep DEF Applied
<1>4. /\ GroupOf(e) \notin RootObjects(<<"group", e.codex>>, e.roots)
      /\ GroupOf(e) \notin Scopes(workspaces \cup candidates)
  BY <1>1, <1>2, GroupApart
<1>5. /\ SoundTables(old) /\ t.projects \in Seq(Row)
      /\ DOMAIN t.projects \subseteq DOMAIN old.projects
  BY ApplyingStep
<1>6. workspaces = Workspaces(t.projects, e)
      /\ candidates = Candidates(t.projects, e, Superseded(r))
  OBVIOUS
<1> HIDE DEF old, new, e, workspaces, candidates
<1>7. GroupRegistered(old, new, t.projects, e, workspaces, candidates)
  BY <1>2, <1>3, <1>4, <1>5, <1>6, RegisterCodexEffect
<1> QED
  BY <1>7 DEF old, new, e, workspaces, candidates

\* What the part of a Codex project does to the tables before it.
LEMMA StepCodex ==
  ASSUME NEW f, NEW t, NEW r, Applying(f, t, r), NEW i \in 1 .. Len(Parts(r)),
         Parts(r)[i].kind = "codex", NEW e, e = Parts(r)[i].of,
         NEW workspaces, workspaces = Workspaces(t.projects, e),
         NEW candidates, candidates = Candidates(t.projects, e, Superseded(r))
  PROVE  /\ e \in Codices /\ e \in Range(r.projects)
         /\ RowWritten(f[i - 1].projects, f[i].projects, Adopted(t.projects, e), e,
                       TargetSource(t.projects, e), e.codex)
         /\ \A o \in GroupObjects(e) : Confirmed(f[i], o, Place(f, t, r, i))
         /\ \A q \in workspaces \cup candidates : Confirmed(f[i], <<"scope", q>>, q)
         /\ Keeps(f[i - 1], f[i], GroupObjects(e) \cup Scopes(workspaces \cup candidates))
<1>1. r \in Registries
  BY DEF Applying
<1>2. e \in Range(r.projects) /\ e \in Codices
  BY <1>1, PartKinds
<1> DEFINE old == f[i - 1]  new == f[i]
<1>3. Place(f, t, r, i) = PlaceIn(old.projects, Adopted(t.projects, e))
  BY DEF Place, Taken
<1>4. GroupRegistered(old, new, t.projects, e, workspaces, candidates)
  BY StepRegistered
<1> HIDE DEF old, new
<1>5. /\ RowWritten(old.projects, new.projects, Adopted(t.projects, e), e,
                    TargetSource(t.projects, e), e.codex)
      /\ \A o \in GroupObjects(e) : Confirmed(new, o, Place(f, t, r, i))
      /\ \A q \in workspaces \cup candidates : Confirmed(new, <<"scope", q>>, q)
      /\ Keeps(old, new, GroupObjects(e) \cup Scopes(workspaces \cup candidates))
  BY <1>3, <1>4 DEF GroupRegistered
<1> QED
  BY <1>2, <1>5 DEF old, new

\* What the part of a project outside Codex does.
LEMMA StepIndependent ==
  ASSUME NEW f, NEW t, NEW r, Applying(f, t, r), NEW i \in 1 .. Len(Parts(r)),
         Parts(r)[i].kind = "independent", NEW e, e = Parts(r)[i].of
  PROVE  /\ e \in Independents /\ e \in Range(r.independents)
         /\ RowWritten(f[i - 1].projects, f[i].projects, BySource(t.projects, e.source), e,
                       e.source, CodexOf(t.projects, Parts(r)[i]))
         /\ \A o \in RegisteredObjects(e) : Confirmed(f[i], o, Place(f, t, r, i))
         /\ Keeps(f[i - 1], f[i], RegisteredObjects(e))
         /\ Currents(f[i]) = Currents(f[i - 1]) \cup RegisteredEdges(e)
<1>1. r \in Registries
  BY DEF Applying
<1>2. e \in Range(r.independents) /\ e \in Independents
  BY <1>1, PartKinds
<1> DEFINE old == f[i - 1]  new == f[i]  own == BySource(t.projects, e.source)
           codex == IF own = NoProject THEN NoCodex ELSE t.projects[own].codex
<1>3. new = RegisterIndependent(old, t.projects, e)
  BY ApplyingStep DEF Applied
<1>4. Place(f, t, r, i) = PlaceIn(old.projects, own)
  BY DEF Place, Taken
<1>5. CodexOf(t.projects, Parts(r)[i]) = codex
  BY DEF CodexOf, Taken
<1>6. /\ SoundTables(old) /\ t.projects \in Seq(Row)
      /\ DOMAIN t.projects \subseteq DOMAIN old.projects
  BY ApplyingStep
<1> HIDE DEF old, new
<1>7. /\ RowWritten(old.projects, new.projects, own, e, e.source, codex)
      /\ \A o \in RegisteredObjects(e) : Confirmed(new, o, Place(f, t, r, i))
      /\ Keeps(old, new, RegisteredObjects(e))
      /\ Currents(new) = Currents(old) \cup RegisteredEdges(e)
  BY <1>2, <1>3, <1>4, <1>6, RegisterIndependentEffect
<1> QED
  BY <1>2, <1>5, <1>7 DEF old, new

\* Either way, a row is written, and it is typed.
LEMMA StepWrites ==
  ASSUME NEW f, NEW t, NEW r, Applying(f, t, r), NEW i \in 1 .. Len(Parts(r)),
         Writes(Parts(r)[i])
  PROVE  /\ RowWritten(f[i - 1].projects, f[i].projects, Taken(t.projects, Parts(r)[i]),
                       Parts(r)[i].of, SourceOf(t.projects, Parts(r)[i]),
                       CodexOf(t.projects, Parts(r)[i]))
         /\ Parts(r)[i].of.name \in Parts(r)[i].of.aliases
         /\ Parts(r)[i].of.aliases \in SUBSET Name
         /\ Taken(t.projects, Parts(r)[i]) \in DOMAIN t.projects \cup {NoProject}
<1>1. r \in Registries /\ NamedEntries(r)
  BY DEF Applying
<1>2. CASE Parts(r)[i].kind = "codex"
  <2> DEFINE e == Parts(r)[i].of
  <2>1. RowWritten(f[i - 1].projects, f[i].projects, Adopted(t.projects, e), e,
                   TargetSource(t.projects, e), e.codex) /\ e \in Codices /\ e \in Range(r.projects)
    BY <1>2, StepCodex
  <2>2. e.name \in e.aliases /\ e.aliases \in SUBSET Name
    BY <1>1, <2>1 DEF NamedEntries, Range, Codices
  <2> QED
    BY <1>2, <2>1, <2>2, AdoptedIsRow DEF Taken, SourceOf, CodexOf
<1>3. CASE Parts(r)[i].kind = "independent"
  <2> DEFINE e == Parts(r)[i].of
  <2>1. RowWritten(f[i - 1].projects, f[i].projects, BySource(t.projects, e.source), e,
                   e.source, CodexOf(t.projects, Parts(r)[i]))
        /\ e \in Independents /\ e \in Range(r.independents)
    BY <1>3, StepIndependent
  <2>2. e.name \in e.aliases /\ e.aliases \in SUBSET Name
    BY <1>1, <2>1 DEF NamedEntries, Range, Independents
  <2> QED
    BY <1>3, <2>1, <2>2, BySourceIsRow DEF Taken, SourceOf
<1> QED
  BY <1>2, <1>3 DEF Writes

-----------------------------------------------------------------------------
(* Rows that no entry has written yet *)

SameCore(a, b) ==
  a.name = b.name /\ a.source = b.source /\ a.status = b.status /\ a.codex = b.codex
    /\ a.old = b.old

\* The same rows, but for their aliases.
SameRows(ps, qs) ==
  DOMAIN ps = DOMAIN qs /\ \A p \in DOMAIN ps : SameCore(ps[p], qs[p])

\* Rows that two steps keep.
LEMMA SameRowsTransitive ==
  ASSUME NEW a, NEW b, NEW c, SameRows(a, b), SameRows(b, c)
  PROVE  SameRows(a, c)
BY DEF SameRows, SameCore

\* Owners do not depend on aliases.
LEMMA SameOwners ==
  ASSUME NEW ps, NEW qs, SameRows(ps, qs), NEW x
  PROVE  Owners(qs, x) = Owners(ps, x)
BY DEF SameRows, SameCore, Owners

\* Other aliases for one row.
LEMMA AliasesWritten ==
  ASSUME NEW ps \in Seq(Row), NEW p, NEW aliases
  PROVE  LET qs == [ps EXCEPT ![p].aliases = aliases] IN
         /\ SameRows(ps, qs)
         /\ \A q \in DOMAIN ps : q # p => qs[q].aliases = ps[q].aliases
         /\ p \in DOMAIN ps => qs[p].aliases = aliases
<1> DEFINE qs == [ps EXCEPT ![p].aliases = aliases]
<1>1. CASE p \in DOMAIN ps
  <2>1. ps[p] \in Row
    BY <1>1
  <2> DEFINE row == [ps[p] EXCEPT !.aliases = aliases]
  <2>2. row.aliases = aliases /\ SameCore(ps[p], row)
    BY <2>1 DEF SameCore, Row
  <2>3. \A q : SameCore(ps[q], ps[q])
    BY DEF SameCore
  <2>4. qs = [ps EXCEPT ![p] = row]
    OBVIOUS
  <2> HIDE DEF row, qs
  <2>5. DOMAIN qs = DOMAIN ps /\ qs[p] = row /\ \A q \in DOMAIN ps : q # p => qs[q] = ps[q]
    BY <1>1, <2>4
  <2>6. SameRows(ps, qs)
    BY <2>2, <2>3, <2>5 DEF SameRows
  <2> QED
    BY <2>2, <2>5, <2>6 DEF qs
<1>2. CASE p \notin DOMAIN ps
  <2>1. qs = ps
    BY <1>2, NoRowNoChange
  <2> HIDE DEF qs
  <2>2. SameRows(ps, qs) /\ \A q \in DOMAIN ps : qs[q].aliases = ps[q].aliases
    BY <2>1 DEF SameRows, SameCore
  <2> QED
    BY <1>2, <2>2 DEF qs
<1> QED
  BY <1>1, <1>2

\* Making names identities changes aliases of one row.
LEMMA WithIdentitiesEffect ==
  ASSUME NEW t, SoundTables(t), NEW p, NEW names
  PROVE  LET u == WithIdentities(t, p, names) IN
         /\ SameRows(t.projects, u.projects) /\ u.objects = t.objects
         /\ u.relations = t.relations
         /\ \A q \in DOMAIN t.projects : \A n \in Name :
              u.projects[q].aliases[n] =
                IF q = p /\ n \in names THEN "identity" ELSE t.projects[q].aliases[n]
<1> DEFINE aliases == [n \in Name |-> IF n \in names THEN "identity" ELSE t.projects[p].aliases[n]]
           ps == [t.projects EXCEPT ![p].aliases = aliases]
           u == WithIdentities(t, p, names)
<1>1. t.projects \in Seq(Row)
  BY DEF SoundTables
<1>2. u = WithProjects(t, ps)
  BY DEF WithIdentities
<1>3. /\ SameRows(t.projects, ps)
      /\ \A q \in DOMAIN t.projects : q # p => ps[q].aliases = t.projects[q].aliases
      /\ p \in DOMAIN t.projects => ps[p].aliases = aliases
  <2> HIDE DEF aliases
  <2> QED
    BY <1>1, AliasesWritten
<1>4. u.projects = ps /\ u.objects = t.objects /\ u.relations = t.relations
  <2> HIDE DEF ps
  <2> QED
    BY <1>2 DEF WithProjects, SoundTables, Shaped
<1>5. \A q \in DOMAIN t.projects : \A n \in Name :
        ps[q].aliases[n] = IF q = p /\ n \in names THEN "identity" ELSE t.projects[q].aliases[n]
  <2> HIDE DEF ps
  <2> QED
    BY <1>3
<1> HIDE DEF ps, u
<1> QED
  BY <1>3, <1>4, <1>5 DEF u

\* Rejecting an alias changes this alias of one row.
LEMMA RejectAliasEffect ==
  ASSUME NEW t, SoundTables(t), NEW s, NEW p, p = TheOne(Owners(t.projects, s.owner))
  PROVE  LET u == RejectAlias(t, s) IN
         /\ SameRows(t.projects, u.projects) /\ u.objects = t.objects
         /\ u.relations = t.relations
         /\ \A q \in DOMAIN t.projects : \A n \in Name :
              u.projects[q].aliases[n] =
                IF q = p /\ n = s.alias THEN "rejected" ELSE t.projects[q].aliases[n]
<1> DEFINE aliases == [t.projects[p].aliases EXCEPT ![s.alias] = "rejected"]
           ps == [t.projects EXCEPT ![p].aliases = aliases]
           u == RejectAlias(t, s)
<1>1. t.projects \in Seq(Row)
  BY DEF SoundTables
<1>2. u = WithProjects(t, ps)
  BY DEF RejectAlias
<1>3. /\ SameRows(t.projects, ps)
      /\ \A q \in DOMAIN t.projects : q # p => ps[q].aliases = t.projects[q].aliases
      /\ p \in DOMAIN t.projects => ps[p].aliases = aliases
  <2> HIDE DEF aliases
  <2> QED
    BY <1>1, AliasesWritten
<1>4. u.projects = ps /\ u.objects = t.objects /\ u.relations = t.relations
  <2> HIDE DEF ps
  <2> QED
    BY <1>2 DEF WithProjects, SoundTables, Shaped
<1>5. p \in DOMAIN t.projects =>
        DOMAIN t.projects[p].aliases = Name
  <2> SUFFICES ASSUME p \in DOMAIN t.projects
               PROVE  DOMAIN t.projects[p].aliases = Name
    OBVIOUS
  <2>1. t.projects[p] \in Row
    BY <1>1
  <2> QED
    BY <2>1 DEF Row
<1>6. \A q \in DOMAIN t.projects : \A n \in Name :
        ps[q].aliases[n] = IF q = p /\ n = s.alias THEN "rejected" ELSE t.projects[q].aliases[n]
  <2> HIDE DEF ps
  <2> QED
    BY <1>3, <1>5
<1> HIDE DEF ps, u
<1> QED
  BY <1>3, <1>4, <1>6 DEF u

\* Retiring an object changes this object.
LEMMA RejectObjectEffect ==
  ASSUME NEW t, SoundTables(t), NEW s, s.object \in DOMAIN t.objects
  PROVE  LET u == RejectObject(t, s) IN
         /\ u.projects = t.projects /\ DOMAIN u.objects = DOMAIN t.objects
         /\ u.objects[s.object].state = "rejected"
         /\ \A o \in DOMAIN t.objects : o # s.object => u.objects[o] = t.objects[o]
<1> DEFINE rejected == [t EXCEPT !.objects[s.object].state = "rejected"]
           touched == {rel \in t.relations : rel.open /\ Touches(rel, s.object)}
           objects == [t.objects EXCEPT ![s.object].state = "rejected"]
           closed == (rejected.relations \ touched)
                    \cup {[rel EXCEPT !.open = FALSE] : rel \in touched}
           u == RejectObject(t, s)
<1>1. u = [rejected EXCEPT !.relations = closed]
  BY DEF RejectObject, Close
<1>2. rejected =
        [projects |-> t.projects, objects |-> objects, relations |-> t.relations, ok |-> t.ok]
  BY DEF SoundTables, Shaped
<1> HIDE DEF closed, rejected, objects, u
<1>3. u.projects = t.projects /\ u.objects = objects
  BY <1>1, <1>2
<1>4. /\ t.objects[s.object] \in ObjectRow(t.projects)
      /\ t.objects = [o \in DOMAIN t.objects |-> t.objects[o]]
  BY DEF SoundTables
<1>5. /\ DOMAIN objects = DOMAIN t.objects /\ objects[s.object].state = "rejected"
      /\ \A o \in DOMAIN t.objects : o # s.object => objects[o] = t.objects[o]
  BY <1>4 DEF objects, ObjectRow
<1> QED
  BY <1>3, <1>5 DEF u

\* What a part other than an entry does to rows, whichever it finds.
LEMMA StepKeepsRows ==
  ASSUME NEW f, NEW t, NEW r, Applying(f, t, r), NEW i \in 1 .. Len(Parts(r)),
         ~Writes(Parts(r)[i])
  PROVE  SameRows(f[i - 1].projects, f[i].projects)
<1> DEFINE old == f[i - 1]  new == f[i]  part == Parts(r)[i]
<1>1. SoundTables(old) /\ new = Applied(old, t.projects, r, part)
  BY ApplyingStep
<1>2. part.kind \in {"alias", "object", "standalone"} /\ r \in Registries
  BY PartKinds DEF Applying, Writes
<1>3. ASSUME part.kind = "object" PROVE part.of.object \in DOMAIN t.objects
  BY <1>2, <1>3, PartKinds DEF Applying, Plannable, RulesApply
<1>4. DOMAIN t.objects \subseteq DOMAIN old.objects
  BY ApplyingStep DEF Grown
<1> HIDE DEF old, new, part
<1>5. CASE part.kind = "alias"
  <2>1. new = RejectAlias(old, part.of)
    BY <1>1, <1>5 DEF Applied
  <2> QED
    BY <1>1, <2>1, RejectAliasEffect DEF old, new
<1>6. CASE part.kind = "standalone"
  <2>1. new = WithIdentities(old, TheOne(Owners(t.projects, part.of.owner)), part.of.aliases)
    BY <1>1, <1>6 DEF Applied
  <2> QED
    BY <1>1, <2>1, WithIdentitiesEffect DEF old, new
<1>7. CASE part.kind = "object"
  <2>1. new = RejectObject(old, part.of)
    BY <1>1, <1>7 DEF Applied
  <2>2. new.projects = old.projects
    BY <1>1, <1>3, <1>4, <1>7, <2>1, RejectObjectEffect
  <2> QED
    BY <2>2 DEF SameRows, SameCore, old, new
<1> QED
  BY <1>2, <1>5, <1>6, <1>7

\* Until the first entry, rows are those that the apply found.
LEMMA RowsUntilEntries ==
  ASSUME NEW f, NEW t, NEW r, Applying(f, t, r), NEW k \in 1 .. Len(Parts(r)),
         ~Writes(Parts(r)[k])
  PROVE  SameRows(t.projects, f[k - 1].projects) /\ SameRows(t.projects, f[k].projects)
<1> DEFINE n == Len(Parts(r))
           T == {i \in Nat : i <= k => SameRows(t.projects, f[i].projects)}
<1>1. n \in Nat /\ k \in 1 .. n /\ r \in Registries
  BY PartsFit DEF Applying, Plannable
<1> HIDE DEF n
<1>2. 0 \in T
  BY DEF Applying, SameRows, SameCore
<1>3. ASSUME NEW i \in Nat, i \in T
      PROVE  i + 1 \in T
  <2> SUFFICES ASSUME i + 1 <= k
               PROVE  SameRows(t.projects, f[i + 1].projects)
    OBVIOUS
  <2>1. i + 1 \in 1 .. n /\ (i + 1) - 1 = i /\ (i + 1 < k \/ i + 1 = k) /\ i <= k
    BY <1>1
  <2>2. ~Writes(Parts(r)[i + 1])
    BY <1>1, <2>1, PartsOrdered DEF n
  <2>3. SameRows(f[i].projects, f[i + 1].projects)
    BY <2>1, <2>2, StepKeepsRows DEF n
  <2> QED
    BY <1>3, <2>1, <2>3, SameRowsTransitive
<1>4. \A i \in Nat : i \in T
  <2> HIDE DEF T
  <2> QED
    BY <1>2, <1>3, SetInduction
<1>5. k - 1 \in Nat /\ k \in Nat /\ k - 1 <= k /\ k <= k
  BY <1>1
<1> QED
  BY <1>4, <1>5

\* The project of a rule, which is the one its owner names when the apply begins.
OwnerOf(t, rule) == TheOne(Owners(t.projects, rule.owner))

\* What a rule about an alias does: its project is the one planned.
LEMMA StepAlias ==
  ASSUME NEW f, NEW t, NEW r, Applying(f, t, r), NEW i \in 1 .. Len(Parts(r)),
         Parts(r)[i].kind = "alias", NEW s, s = Parts(r)[i].of
  PROVE  /\ s \in Range(r.supersedeAliases) /\ s.alias \in Name
         /\ Unique(Owners(t.projects, s.owner)) /\ OwnerOf(t, s) \in DOMAIN t.projects
         /\ f[i].objects = f[i - 1].objects
         /\ \A q \in DOMAIN f[i - 1].projects : \A n \in Name :
              f[i].projects[q].aliases[n] =
                IF q = OwnerOf(t, s) /\ n = s.alias THEN "rejected"
                ELSE f[i - 1].projects[q].aliases[n]
<1>1. r \in Registries
  BY DEF Applying
<1>2. s \in Range(r.supersedeAliases) /\ s.alias \in Name
  BY <1>1, PartKinds
<1>3. Unique(Owners(t.projects, s.owner))
  BY <1>2 DEF Applying, Plannable, RulesApply
<1>4. OwnerOf(t, s) \in DOMAIN t.projects
  BY <1>3, UniqueIsMember DEF OwnerOf, Owners
<1>5. OwnerOf(t, s) = TheOne(Owners(f[i - 1].projects, s.owner))
  BY RowsUntilEntries, SameOwners DEF OwnerOf, Writes
<1> DEFINE old == f[i - 1]  new == f[i]  p == OwnerOf(t, s)
<1>6. SoundTables(old) /\ new = RejectAlias(old, s)
  BY ApplyingStep DEF Applied
<1>7. p = TheOne(Owners(old.projects, s.owner))
  BY <1>5
<1> HIDE DEF old, new, p
<1>8. /\ new.objects = old.objects
      /\ \A q \in DOMAIN old.projects : \A n \in Name :
           new.projects[q].aliases[n] =
             IF q = p /\ n = s.alias THEN "rejected" ELSE old.projects[q].aliases[n]
  BY <1>6, <1>7, RejectAliasEffect
<1> QED
  BY <1>2, <1>3, <1>4, <1>8 DEF old, new, p

\* What a rule about identities does.
LEMMA StepStandalone ==
  ASSUME NEW f, NEW t, NEW r, Applying(f, t, r), NEW i \in 1 .. Len(Parts(r)),
         Parts(r)[i].kind = "standalone", NEW s, s = Parts(r)[i].of
  PROVE  /\ s \in Range(r.standalone)
         /\ Unique(Owners(t.projects, s.owner)) /\ OwnerOf(t, s) \in DOMAIN t.projects
         /\ f[i].objects = f[i - 1].objects
         /\ \A q \in DOMAIN f[i - 1].projects : \A n \in Name :
              f[i].projects[q].aliases[n] =
                IF q = OwnerOf(t, s) /\ n \in s.aliases THEN "identity"
                ELSE f[i - 1].projects[q].aliases[n]
<1>1. r \in Registries
  BY DEF Applying
<1>2. s \in Range(r.standalone)
  BY <1>1, PartKinds
<1>3. Unique(Owners(t.projects, s.owner))
  BY <1>2 DEF Applying, Plannable, RulesApply
<1>4. OwnerOf(t, s) \in DOMAIN t.projects
  BY <1>3, UniqueIsMember DEF OwnerOf, Owners
<1> DEFINE old == f[i - 1]  new == f[i]  p == OwnerOf(t, s)
<1>6. SoundTables(old) /\ new = WithIdentities(old, p, s.aliases)
  BY ApplyingStep DEF Applied, OwnerOf
<1> HIDE DEF old, new, p
<1>8. /\ new.objects = old.objects
      /\ \A q \in DOMAIN old.projects : \A n \in Name :
           new.projects[q].aliases[n] =
             IF q = p /\ n \in s.aliases THEN "identity" ELSE old.projects[q].aliases[n]
  BY <1>6, WithIdentitiesEffect
<1> QED
  BY <1>2, <1>3, <1>4, <1>8 DEF old, new, p

\* What a rule about an object does.
LEMMA StepObject ==
  ASSUME NEW f, NEW t, NEW r, Applying(f, t, r), NEW i \in 1 .. Len(Parts(r)),
         Parts(r)[i].kind = "object", NEW s, s = Parts(r)[i].of
  PROVE  /\ s \in Range(r.supersedeObjects) /\ s.object \in DOMAIN f[i - 1].objects
         /\ f[i].projects = f[i - 1].projects /\ DOMAIN f[i].objects = DOMAIN f[i - 1].objects
         /\ f[i].objects[s.object].state = "rejected"
         /\ \A o \in DOMAIN f[i - 1].objects :
              o # s.object => f[i].objects[o] = f[i - 1].objects[o]
<1>1. r \in Registries
  BY DEF Applying
<1>2. s \in Range(r.supersedeObjects)
  BY <1>1, PartKinds
<1>3. s.object \in DOMAIN t.objects
  BY <1>2 DEF Applying, Plannable, RulesApply
<1> DEFINE old == f[i - 1]  new == f[i]
<1>4. SoundTables(old) /\ new = RejectObject(old, s)
  BY ApplyingStep DEF Applied
<1>5. s.object \in DOMAIN old.objects
  BY <1>3, ApplyingStep DEF Grown
<1> HIDE DEF old, new
<1>6. /\ new.projects = old.projects /\ DOMAIN new.objects = DOMAIN old.objects
      /\ new.objects[s.object].state = "rejected"
      /\ \A o \in DOMAIN old.objects : o # s.object => new.objects[o] = old.objects[o]
  BY <1>4, <1>5, RejectObjectEffect
<1> QED
  BY <1>2, <1>5, <1>6 DEF old, new

-----------------------------------------------------------------------------
(* The rows of the entries *)

\* The parts of an apply are a sequence.
LEMMA CountOfParts ==
  ASSUME NEW f, NEW t, NEW r, Applying(f, t, r)
  PROVE  Len(Parts(r)) \in Nat /\ r \in Registries /\ t.projects \in Seq(Row)
BY PartsFit DEF Applying, Plannable, SoundTables

\* Nothing that is there goes away later.
LEMMA GrownSince ==
  ASSUME NEW f, NEW t, NEW r, Applying(f, t, r), NEW k \in 0 .. Len(Parts(r)),
         NEW i \in 0 .. Len(Parts(r)), k <= i
  PROVE  Grown(f[k], f[i])
<1> DEFINE n == Len(Parts(r))
           T == {j \in Nat : Grown(f[k], f[j])}
<1>1. n \in Nat
  BY CountOfParts
<1>2. k \in T
  BY <1>1 DEF Grown
<1>3. \A j \in 1 .. n : k < j /\ j - 1 \in T => j \in T
  <2> SUFFICES ASSUME NEW j \in 1 .. n, Grown(f[k], f[j - 1])
               PROVE  Grown(f[k], f[j])
    OBVIOUS
  <2>1. Grown(f[j - 1], f[j])
    BY ApplyingStep
  <2> QED
    BY <2>1, GrownTransitive
<1>4. k \in 0 .. n /\ i \in 0 .. n
  OBVIOUS
<1> HIDE DEF n, T
<1>5. i \in T
  BY <1>1, <1>2, <1>3, <1>4, HoldsToTheEnd
<1> QED
  BY <1>5 DEF T

\* No two entries take over the same project.
LEMMA TakenDiffer ==
  ASSUME NEW f, NEW t, NEW r, Applying(f, t, r),
         NEW j \in 1 .. Len(Parts(r)), NEW k \in 1 .. Len(Parts(r)), j # k,
         Writes(Parts(r)[j]), Writes(Parts(r)[k]),
         Taken(t.projects, Parts(r)[j]) # NoProject, Taken(t.projects, Parts(r)[k]) # NoProject
  PROVE  Taken(t.projects, Parts(r)[j]) # Taken(t.projects, Parts(r)[k])
<1> DEFINE ps == t.projects  a == Parts(r)[j]  b == Parts(r)[k]
<1>1. /\ r \in Registries /\ UniqueIdentities(r) /\ ProjectsPlan(t, r) /\ IndependentsPlan(t, r)
  BY DEF Applying, Plannable
<1>2. /\ a.kind = "codex" /\ b.kind = "codex" =>
           \E x, y \in DOMAIN r.projects : x # y /\ a.of = r.projects[x] /\ b.of = r.projects[y]
      /\ a.kind = "independent" /\ b.kind = "independent" => a.of.source # b.of.source
  BY <1>1, EntriesDisjoint
<1>3. \A part \in {a, b} :
        /\ part.kind = "codex" => part.of \in Range(r.projects)
        /\ part.kind = "independent" => part.of \in Range(r.independents)
  BY <1>1, PartKinds
<1>4. Writes(a) /\ Writes(b) /\ Taken(ps, a) # NoProject /\ Taken(ps, b) # NoProject
  OBVIOUS
<1>5. \A x \in Range(r.projects), y \in Range(r.independents) :
        BySource(ps, y.source) # NoProject => Adopted(ps, x) # BySource(ps, y.source)
  BY <1>1 DEF IndependentsPlan, Range
<1> HIDE DEF a, b
<1>6. CASE a.kind = "codex" /\ b.kind = "codex"
  <2>1. PICK x \in DOMAIN r.projects, y \in DOMAIN r.projects :
          x # y /\ a.of = r.projects[x] /\ b.of = r.projects[y]
    BY <1>2, <1>6
  <2>2. Taken(ps, a) = Adopted(ps, r.projects[x]) /\ Taken(ps, b) = Adopted(ps, r.projects[y])
    BY <1>6, <2>1 DEF Taken
  <2>3. \A i, l \in DOMAIN r.projects :
          i # l /\ Adopted(ps, r.projects[i]) # NoProject =>
            Adopted(ps, r.projects[i]) # Adopted(ps, r.projects[l])
    BY <1>1 DEF ProjectsPlan
  <2> QED
    BY <1>4, <2>1, <2>2, <2>3 DEF a, b
<1>7. CASE a.kind = "independent" /\ b.kind = "independent"
  <2>1. BySource(ps, a.of.source) # NoProject /\ BySource(ps, b.of.source) # NoProject
    BY <1>4, <1>7 DEF Taken
  <2>2. BySource(ps, a.of.source) # BySource(ps, b.of.source)
    BY <1>2, <1>7, <2>1, BySourceIsRow
  <2> QED
    BY <1>7, <2>2 DEF Taken, a, b
<1>8. CASE a.kind = "codex" /\ b.kind = "independent"
  BY <1>3, <1>4, <1>5, <1>8 DEF Taken, a, b
<1>9. CASE a.kind = "independent" /\ b.kind = "codex"
  BY <1>3, <1>4, <1>5, <1>9 DEF Taken, a, b
<1> QED
  BY <1>4, <1>6, <1>7, <1>8, <1>9 DEF Writes

\* An entry writes its row.
LEMMA StepRow ==
  ASSUME NEW f, NEW t, NEW r, Applying(f, t, r), NEW i \in 1 .. Len(Parts(r)),
         Writes(Parts(r)[i])
  PROVE  RowOfEntry(f[i].projects[Place(f, t, r, i)], Parts(r)[i].of,
                    SourceOf(t.projects, Parts(r)[i]), CodexOf(t.projects, Parts(r)[i]))
<1> DEFINE p == Place(f, t, r, i)  part == Parts(r)[i]  taken == Taken(t.projects, part)
           old == f[i - 1].projects  new == f[i].projects  e == part.of
           source == SourceOf(t.projects, part)  codex == CodexOf(t.projects, part)
<1>1. RowWritten(old, new, taken, e, source, codex) /\ p = PlaceIn(old, taken)
  BY StepWrites DEF Place
<1> HIDE DEF old, new, source, codex, p, taken, part, e
<1> QED
  BY <1>1 DEF RowWritten, old, new, source, codex, p, taken, part, e

\* The URIs of the row that was at p, once it gets another source.
OldWritten(old, new, p, taken, source) ==
  new[p].old = IF taken = NoProject THEN {} ELSE old[p].old \cup ({old[p].source} \ {source})

\* It keeps the URI that it replaces.
LEMMA StepOld ==
  ASSUME NEW f, NEW t, NEW r, Applying(f, t, r), NEW i \in 1 .. Len(Parts(r)),
         Writes(Parts(r)[i])
  PROVE  OldWritten(f[i - 1].projects, f[i].projects, Place(f, t, r, i),
                    Taken(t.projects, Parts(r)[i]), SourceOf(t.projects, Parts(r)[i]))
<1> DEFINE p == Place(f, t, r, i)  part == Parts(r)[i]  taken == Taken(t.projects, part)
           old == f[i - 1].projects  new == f[i].projects  e == part.of
           source == SourceOf(t.projects, part)  codex == CodexOf(t.projects, part)
<1>1. RowWritten(old, new, taken, e, source, codex) /\ p = PlaceIn(old, taken)
  BY StepWrites DEF Place
<1> HIDE DEF old, new, source, codex, p, taken, part, e
<1> QED
  BY <1>1 DEF RowWritten, OldWritten, old, new, source, codex, p, taken, part, e

\* Aliases that it does not give are as they were.
LEMMA StepOtherAliases ==
  ASSUME NEW f, NEW t, NEW r, Applying(f, t, r), NEW i \in 1 .. Len(Parts(r)),
         Writes(Parts(r)[i])
  PROVE  \A n \in Name : n \notin Parts(r)[i].of.aliases =>
           f[i].projects[Place(f, t, r, i)].aliases[n] =
             IF Taken(t.projects, Parts(r)[i]) = NoProject THEN "none"
             ELSE f[i - 1].projects[Place(f, t, r, i)].aliases[n]
<1> DEFINE p == Place(f, t, r, i)  part == Parts(r)[i]  taken == Taken(t.projects, part)
           old == f[i - 1].projects  new == f[i].projects  e == part.of
           source == SourceOf(t.projects, part)  codex == CodexOf(t.projects, part)
<1>1. RowWritten(old, new, taken, e, source, codex) /\ p = PlaceIn(old, taken)
  BY StepWrites DEF Place
<1> HIDE DEF old, new, source, codex, p, taken, part, e
<1> QED
  BY <1>1 DEF RowWritten, old, new, source, codex, p, taken, part, e

\* It writes no other row.
LEMMA StepRows ==
  ASSUME NEW f, NEW t, NEW r, Applying(f, t, r), NEW i \in 1 .. Len(Parts(r)),
         Writes(Parts(r)[i])
  PROVE  /\ DOMAIN f[i].projects = DOMAIN f[i - 1].projects \cup {Place(f, t, r, i)}
         /\ \A q \in DOMAIN f[i - 1].projects :
              q # Place(f, t, r, i) => f[i].projects[q] = f[i - 1].projects[q]
<1> DEFINE p == Place(f, t, r, i)  part == Parts(r)[i]  taken == Taken(t.projects, part)
           old == f[i - 1].projects  new == f[i].projects
           source == SourceOf(t.projects, part)  codex == CodexOf(t.projects, part)
<1>1. RowWritten(old, new, taken, part.of, source, codex) /\ p = PlaceIn(old, taken)
  BY StepWrites DEF Place
<1> HIDE DEF old, new, source, codex, p, taken, part
<1> QED
  BY <1>1 DEF RowWritten, old, new, p

\* Its row is new or the one it takes over, and is there from then on.
LEMMA PlaceThere ==
  ASSUME NEW f, NEW t, NEW r, Applying(f, t, r), NEW k \in 1 .. Len(Parts(r)),
         Writes(Parts(r)[k]), NEW taken, taken = Taken(t.projects, Parts(r)[k])
  PROVE  /\ Place(f, t, r, k) \in DOMAIN f[k].projects
         /\ taken = NoProject => Place(f, t, r, k) \notin DOMAIN f[k - 1].projects
         /\ taken # NoProject =>
              Place(f, t, r, k) = taken /\ taken \in DOMAIN t.projects
         /\ \A i \in k .. Len(Parts(r)) : Place(f, t, r, k) \in DOMAIN f[i].projects
<1> DEFINE n == Len(Parts(r))  old == f[k - 1]  new == f[k]  p == Place(f, t, r, k)
<1>1. n \in Nat
  BY CountOfParts
<1>2. /\ old.projects \in Seq(Row) /\ DOMAIN t.projects \subseteq DOMAIN old.projects
  BY ApplyingStep
<1>3. taken \in DOMAIN t.projects \cup {NoProject} /\ p = PlaceIn(old.projects, taken)
  BY StepWrites DEF Place
<1>4. DOMAIN new.projects = DOMAIN old.projects \cup {p}
  BY StepRows
<1>5. /\ taken = NoProject => p \notin DOMAIN old.projects
      /\ taken # NoProject => p = taken /\ taken \in DOMAIN t.projects
  <2> HIDE DEF old
  <2> QED
    BY <1>2, <1>3, PlaceIsRow DEF PlaceIn
<1>6. ASSUME NEW i \in k .. n PROVE p \in DOMAIN f[i].projects
  <2>1. k \in 0 .. n /\ i \in 0 .. n /\ k <= i
    BY <1>1
  <2>2. Grown(f[k], f[i])
    BY <2>1, GrownSince
  <2> QED
    BY <1>4, <2>2 DEF Grown
<1> QED
  BY <1>4, <1>5, <1>6

\* A later entry writes another row.
LEMMA PlacesDiffer ==
  ASSUME NEW f, NEW t, NEW r, Applying(f, t, r),
         NEW j \in 1 .. Len(Parts(r)), NEW k \in 1 .. Len(Parts(r)), j < k,
         Writes(Parts(r)[j]), Writes(Parts(r)[k])
  PROVE  Place(f, t, r, j) # Place(f, t, r, k)
<1> DEFINE x == Taken(t.projects, Parts(r)[j])  y == Taken(t.projects, Parts(r)[k])
           p == Place(f, t, r, j)  q == Place(f, t, r, k)
<1>1. k - 1 \in j .. Len(Parts(r))
  BY CountOfParts
<1>2. /\ x = NoProject => p \notin DOMAIN f[j - 1].projects
      /\ x # NoProject => p = x /\ x \in DOMAIN t.projects
      /\ p \in DOMAIN f[k - 1].projects
  BY <1>1, PlaceThere
<1>3. /\ y = NoProject => q \notin DOMAIN f[k - 1].projects
      /\ y # NoProject => q = y /\ y \in DOMAIN t.projects
  BY PlaceThere
<1>4. DOMAIN t.projects \subseteq DOMAIN f[j - 1].projects
  BY ApplyingStep
<1>5. x # NoProject /\ y # NoProject => x # y
  BY TakenDiffer
<1> HIDE DEF x, y, p, q
<1> QED
  BY <1>2, <1>3, <1>4, <1>5 DEF p, q

\* So no two entries write the same row.
LEMMA AllPlacesDiffer ==
  ASSUME NEW f, NEW t, NEW r, Applying(f, t, r),
         NEW j \in 1 .. Len(Parts(r)), NEW k \in 1 .. Len(Parts(r)), j # k,
         Writes(Parts(r)[j]), Writes(Parts(r)[k])
  PROVE  Place(f, t, r, j) # Place(f, t, r, k)
<1>1. j < k \/ k < j
  BY CountOfParts
<1> QED
  BY <1>1, PlacesDiffer

\* A row stays as its entry wrote it.
LEMMA WrittenStays ==
  ASSUME NEW f, NEW t, NEW r, Applying(f, t, r), NEW k \in 1 .. Len(Parts(r)),
         Writes(Parts(r)[k]), NEW i \in k .. Len(Parts(r))
  PROVE  f[i].projects[Place(f, t, r, k)] = f[k].projects[Place(f, t, r, k)]
<1> DEFINE n == Len(Parts(r))  p == Place(f, t, r, k)
           T == {j \in Nat : f[j].projects[p] = f[k].projects[p]}
<1>1. n \in Nat /\ r \in Registries
  BY CountOfParts
<1>2. k \in T
  BY <1>1
<1>3. ASSUME NEW j \in 1 .. n, k < j, j - 1 \in T
      PROVE  j \in T
  <2>1. Writes(Parts(r)[j])
    BY <1>1, <1>3, PartsOrdered
  <2>2. Place(f, t, r, j) # p
    BY <1>3, <2>1, PlacesDiffer
  <2>3. p \in DOMAIN f[j - 1].projects
    <3>1. j - 1 \in k .. n
      BY <1>1, <1>3
    <3> QED
      BY <3>1, PlaceThere
  <2>4. f[j].projects[p] = f[j - 1].projects[p]
    BY <2>1, <2>2, <2>3, StepRows
  <2> QED
    BY <1>3, <2>4
<1>4. k \in 0 .. n /\ i \in 0 .. n /\ k <= i
  BY <1>1
<1> HIDE DEF n, T
<1>5. i \in T
  BY <1>1, <1>2, <1>3, <1>4, HoldsToTheEnd
<1> QED
  BY <1>5 DEF T, p

\* A row of the tables before is as it was until an entry takes it over.
LEMMA CoreUntilWritten ==
  ASSUME NEW f, NEW t, NEW r, Applying(f, t, r), NEW q \in DOMAIN t.projects,
         NEW m \in 0 .. Len(Parts(r)),
         \A j \in 1 .. m : Writes(Parts(r)[j]) => Place(f, t, r, j) # q
  PROVE  SameCore(t.projects[q], f[m].projects[q])
<1> DEFINE n == Len(Parts(r))
           T == {i \in Nat : i <= m => SameCore(t.projects[q], f[i].projects[q])}
<1>1. n \in Nat /\ m \in 0 .. n
  BY CountOfParts
<1>2. 0 \in T
  BY DEF SameCore, Applying
<1>3. ASSUME NEW i \in Nat, i \in T
      PROVE  i + 1 \in T
  <2> SUFFICES ASSUME i + 1 <= m
               PROVE  SameCore(t.projects[q], f[i + 1].projects[q])
    OBVIOUS
  <2>1. i + 1 \in 1 .. n /\ i + 1 \in 1 .. m /\ (i + 1) - 1 = i /\ i <= m
    BY <1>1
  <2>2. q \in DOMAIN f[i].projects
    BY <2>1, ApplyingStep
  <2>3. CASE Writes(Parts(r)[i + 1])
    <3>1. Place(f, t, r, i + 1) # q
      BY <2>1, <2>3
    <3>2. f[i + 1].projects[q] = f[i].projects[q]
      BY <2>1, <2>2, <2>3, <3>1, StepRows
    <3> QED
      BY <1>3, <2>1, <3>2
  <2>4. CASE ~Writes(Parts(r)[i + 1])
    <3>1. SameRows(f[i].projects, f[i + 1].projects)
      BY <2>1, <2>4, StepKeepsRows
    <3> QED
      BY <1>3, <2>1, <2>2, <3>1 DEF SameRows, SameCore
  <2> QED
    BY <2>3, <2>4
<1>4. m \in Nat
  BY <1>1
<1> HIDE DEF T
<1>5. \A i \in Nat : i \in T
  BY <1>2, <1>3, SetInduction
<1>6. m \in T
  BY <1>4, <1>5
<1> QED
  BY <1>1, <1>6 DEF T

\* The row of an entry when all parts are applied.
LEMMA RowInTheEnd ==
  ASSUME NEW f, NEW t, NEW r, Applying(f, t, r), NEW k \in 1 .. Len(Parts(r)),
         Writes(Parts(r)[k]), NEW u, u = f[Len(Parts(r))]
  PROVE  /\ Place(f, t, r, k) \in DOMAIN u.projects
         /\ RowOfEntry(u.projects[Place(f, t, r, k)], Parts(r)[k].of,
                       SourceOf(t.projects, Parts(r)[k]), CodexOf(t.projects, Parts(r)[k]))
<1>1. Len(Parts(r)) \in k .. Len(Parts(r))
  BY CountOfParts
<1>2. Place(f, t, r, k) \in DOMAIN u.projects
  BY <1>1, PlaceThere
<1>3. u.projects[Place(f, t, r, k)] = f[k].projects[Place(f, t, r, k)]
  BY <1>1, WrittenStays
<1> QED
  BY <1>2, <1>3, StepRow

\* The URIs that it keeps.
LEMMA OldInTheEnd ==
  ASSUME NEW f, NEW t, NEW r, Applying(f, t, r), NEW k \in 1 .. Len(Parts(r)),
         Writes(Parts(r)[k]), NEW u, u = f[Len(Parts(r))]
  PROVE  OldWritten(t.projects, u.projects, Place(f, t, r, k),
                    Taken(t.projects, Parts(r)[k]), SourceOf(t.projects, Parts(r)[k]))
<1> DEFINE p == Place(f, t, r, k)  taken == Taken(t.projects, Parts(r)[k])
           source == SourceOf(t.projects, Parts(r)[k])
<1>1. Len(Parts(r)) \in k .. Len(Parts(r)) /\ k - 1 \in 0 .. Len(Parts(r)) /\ k - 1 \in Nat
  BY CountOfParts
<1>2. u.projects[p] = f[k].projects[p]
  BY <1>1, WrittenStays
<1>3. OldWritten(f[k - 1].projects, f[k].projects, p, taken, source)
  BY StepOld
<1>4. ASSUME taken # NoProject
      PROVE  SameCore(t.projects[p], f[k - 1].projects[p])
  <2>1. p = taken /\ taken \in DOMAIN t.projects
    BY <1>4, PlaceThere
  <2>2. ASSUME NEW j \in 1 .. k - 1, Writes(Parts(r)[j]) PROVE Place(f, t, r, j) # p
    <3>1. j \in 1 .. Len(Parts(r)) /\ j < k
      BY CountOfParts
    <3> QED
      BY <2>2, <3>1, PlacesDiffer
  <2> QED
    BY <1>1, <2>1, <2>2, CoreUntilWritten
<1> HIDE DEF p, taken, source
<1>5. OldWritten(t.projects, u.projects, p, taken, source)
  BY <1>2, <1>3, <1>4 DEF SameCore, OldWritten
<1> QED
  BY <1>5 DEF p, taken, source

\* A row that no entry takes over.
LEMMA UnclaimedInTheEnd ==
  ASSUME NEW f, NEW t, NEW r, Applying(f, t, r), NEW q \in DOMAIN t.projects,
         \A j \in 1 .. Len(Parts(r)) : Writes(Parts(r)[j]) => Place(f, t, r, j) # q
  PROVE  SameCore(t.projects[q], f[Len(Parts(r))].projects[q])
<1>1. Len(Parts(r)) \in 0 .. Len(Parts(r))
  BY CountOfParts
<1> QED
  BY <1>1, CoreUntilWritten

\* What a part does to the aliases of rows that are there, and a row that it adds.
LEMMA StepAliases ==
  ASSUME NEW f, NEW t, NEW r, Applying(f, t, r), NEW i \in 1 .. Len(Parts(r)),
         Writes(Parts(r)[i])
  PROVE  /\ \A q \in DOMAIN f[i - 1].projects : \A n \in Name :
              f[i].projects[q].aliases[n] =
                IF q = Place(f, t, r, i) /\ n \in Parts(r)[i].of.aliases THEN "identity"
                ELSE f[i - 1].projects[q].aliases[n]
         /\ \A q \in DOMAIN f[i].projects \ DOMAIN f[i - 1].projects : \A n \in Name :
              f[i].projects[q].aliases[n] \in {"identity", "none"}
<1> DEFINE p == Place(f, t, r, i)  old == f[i - 1].projects  new == f[i].projects
           e == Parts(r)[i].of  taken == Taken(t.projects, Parts(r)[i])
<1>1. /\ DOMAIN new = DOMAIN old \cup {p}
      /\ \A q \in DOMAIN old : q # p => new[q] = old[q]
  BY StepRows
<1>2. /\ \A n \in Name : n \in e.aliases => new[p].aliases[n] = "identity"
      /\ \A n \in Name : n \notin e.aliases =>
           new[p].aliases[n] = IF taken = NoProject THEN "none" ELSE old[p].aliases[n]
  BY StepRow, StepOtherAliases DEF RowOfEntry
<1>3. /\ taken = NoProject => p \notin DOMAIN old
      /\ taken # NoProject => p \in DOMAIN old
  <2>1. taken # NoProject => p = taken /\ taken \in DOMAIN t.projects
    BY PlaceThere
  <2>2. DOMAIN t.projects \subseteq DOMAIN old
    BY ApplyingStep
  <2>3. taken = NoProject => p \notin DOMAIN old
    BY PlaceThere
  <2> QED
    BY <2>1, <2>2, <2>3
<1> HIDE DEF p, old, new, e, taken
<1>4. \A q \in DOMAIN old : \A n \in Name :
        new[q].aliases[n] = IF q = p /\ n \in e.aliases THEN "identity" ELSE old[q].aliases[n]
  BY <1>1, <1>2, <1>3
<1>5. \A q \in DOMAIN new \ DOMAIN old : \A n \in Name : new[q].aliases[n] \in {"identity", "none"}
  BY <1>1, <1>2, <1>3
<1> QED
  BY <1>4, <1>5 DEF p, old, new, e

\* Every row was there before or is an entry's.
LEMMA RowOrigin ==
  ASSUME NEW f, NEW t, NEW r, Applying(f, t, r), NEW p \in DOMAIN f[Len(Parts(r))].projects
  PROVE  \/ p \in DOMAIN t.projects
         \/ \E k \in 1 .. Len(Parts(r)) : Writes(Parts(r)[k]) /\ Place(f, t, r, k) = p
<1> DEFINE n == Len(Parts(r))
           New == {q : q \in {Place(f, t, r, k) : k \in {k \in 1 .. n : Writes(Parts(r)[k])}}}
           T == {i \in Nat : DOMAIN f[i].projects \subseteq DOMAIN t.projects \cup New}
<1>1. n \in Nat /\ 0 \in 0 .. n
  BY CountOfParts
<1>2. 0 \in T
  BY DEF Applying
<1>3. ASSUME NEW i \in 1 .. n, i - 1 \in T
      PROVE  i \in T
  <2>1. CASE Writes(Parts(r)[i])
    <3>1. DOMAIN f[i].projects = DOMAIN f[i - 1].projects \cup {Place(f, t, r, i)}
      BY <2>1, StepRows
    <3>2. Place(f, t, r, i) \in New
      BY <2>1
    <3> QED
      BY <1>3, <3>1, <3>2
  <2>2. CASE ~Writes(Parts(r)[i])
    BY <1>3, <2>2, StepKeepsRows DEF SameRows
  <2> QED
    BY <2>1, <2>2
<1>4. n \in 0 .. n /\ 0 <= n
  BY <1>1
<1> HIDE DEF T, New
<1>5. n \in T
  <2> HIDE DEF n
  <2> QED
    BY <1>1, <1>2, <1>3, <1>4, HoldsToTheEnd
<1> QED
  BY <1>5 DEF T, New

\* An alias that is historical in the end was so before.
LEMMA AliasOrigin ==
  ASSUME NEW f, NEW t, NEW r, Applying(f, t, r), NEW p \in DOMAIN f[Len(Parts(r))].projects,
         NEW a \in Name, f[Len(Parts(r))].projects[p].aliases[a] = "historical"
  PROVE  p \in DOMAIN t.projects /\ t.projects[p].aliases[a] = "historical"
<1> DEFINE n == Len(Parts(r))
           Old(i) == p \in DOMAIN f[i].projects /\ f[i].projects[p].aliases[a] = "historical"
           T == {i \in Nat : Old(i) =>
                             p \in DOMAIN t.projects /\ t.projects[p].aliases[a] = "historical"}
<1>1. n \in Nat /\ 0 \in 0 .. n /\ r \in Registries
  BY CountOfParts
<1>2. 0 \in T
  BY DEF Applying
<1>3. ASSUME NEW i \in 1 .. n, i - 1 \in T
      PROVE  i \in T
  <2> SUFFICES ASSUME Old(i)
               PROVE  Old(i - 1)
    BY <1>3
  <2>1. CASE Writes(Parts(r)[i])
    BY <2>1, StepAliases
  <2>2. CASE Parts(r)[i].kind = "alias"
    BY <2>2, StepAlias, StepKeepsRows DEF SameRows, Writes
  <2>3. CASE Parts(r)[i].kind = "object"
    BY <2>3, StepObject
  <2>4. CASE Parts(r)[i].kind = "standalone"
    BY <2>4, StepStandalone, StepKeepsRows DEF SameRows, Writes
  <2> QED
    BY <1>1, <2>1, <2>2, <2>3, <2>4, PartKinds DEF Writes
<1>4. n \in 0 .. n /\ 0 <= n
  BY <1>1
<1> HIDE DEF T
<1>5. n \in T
  <2> HIDE DEF n
  <2> QED
    BY <1>1, <1>2, <1>3, <1>4, HoldsToTheEnd
<1> QED
  BY <1>5 DEF T

\* An entry that is written to a row that was there takes it over.
LEMMA PlaceTaken ==
  ASSUME NEW f, NEW t, NEW r, Applying(f, t, r), NEW k \in 1 .. Len(Parts(r)),
         Writes(Parts(r)[k]), Place(f, t, r, k) \in DOMAIN t.projects
  PROVE  /\ Taken(t.projects, Parts(r)[k]) = Place(f, t, r, k)
         /\ Taken(t.projects, Parts(r)[k]) # NoProject
<1>1. DOMAIN t.projects \subseteq DOMAIN f[k - 1].projects
  BY ApplyingStep
<1>2. Taken(t.projects, Parts(r)[k]) # NoProject
  BY <1>1, PlaceThere
<1> QED
  BY <1>2, PlaceThere

\* An entry is a Codex project or another one.
LEMMA EntryPart ==
  ASSUME NEW r \in Registries, NEW k \in 1 .. Len(Parts(r)), Writes(Parts(r)[k])
  PROVE  \/ Parts(r)[k].kind = "codex" /\ Parts(r)[k].of \in Range(r.projects)
              /\ Parts(r)[k].of \in Codices
         \/ Parts(r)[k].kind = "independent" /\ Parts(r)[k].of \in Range(r.independents)
              /\ Parts(r)[k].of \in Independents
BY PartKinds DEF Writes

\* Its manifest retires no alias that it gives.
LEMMA RetiredNotGiven ==
  ASSUME NEW f, NEW t, NEW r, Applying(f, t, r), NEW s \in Range(r.supersedeAliases),
         NEW k \in 1 .. Len(Parts(r)), Writes(Parts(r)[k]),
         Place(f, t, r, k) = OwnerOf(t, s), OwnerOf(t, s) \in DOMAIN t.projects
  PROVE  s.alias \notin Parts(r)[k].of.aliases
<1> DEFINE part == Parts(r)[k]  p == OwnerOf(t, s)
<1>1. r \in Registries /\ RetiredStays(t.projects, r)
  BY DEF Applying, Repeatable
<1>2. Taken(t.projects, part) = p
  BY PlaceTaken
<1>3. /\ \A e \in Range(r.projects) : Adopted(t.projects, e) = p => s.alias \notin e.aliases
      /\ \A e \in Range(r.independents) : BySource(t.projects, e.source) = p =>
            s.alias \notin e.aliases
  BY <1>1 DEF RetiredStays, OwnerOf
<1>4. \/ part.kind = "codex" /\ part.of \in Range(r.projects)
      \/ part.kind = "independent" /\ part.of \in Range(r.independents)
  BY <1>1, EntryPart
<1> HIDE DEF part, p
<1> QED
  BY <1>2, <1>3, <1>4 DEF Taken, part

\* So a retired alias is rejected when all parts are applied.
LEMMA RejectedInTheEnd ==
  ASSUME NEW f, NEW t, NEW r, Applying(f, t, r), NEW s \in Range(r.supersedeAliases),
         NEW u, u = f[Len(Parts(r))]
  PROVE  /\ OwnerOf(t, s) \in DOMAIN t.projects
         /\ u.projects[OwnerOf(t, s)].aliases[s.alias] = "rejected"
<1> DEFINE n == Len(Parts(r))  p == OwnerOf(t, s)
           T == {i \in Nat : f[i].projects[p].aliases[s.alias] = "rejected"}
<1>1. n \in Nat /\ r \in Registries
  BY CountOfParts
<1>2. PICK k \in 1 .. n : Parts(r)[k] = Tagged("alias", s)
  BY <1>1, PartsCover DEF Range
<1>3. Parts(r)[k].kind = "alias" /\ Parts(r)[k].of = s
  BY <1>2, TaggedFields
<1>4. p \in DOMAIN t.projects /\ s.alias \in Name
  BY <1>3, StepAlias
<1>5. \A i \in 1 .. n : p \in DOMAIN f[i - 1].projects
  BY <1>4, ApplyingStep
<1>6. k \in T
  BY <1>3, <1>4, <1>5, StepAlias
<1>7. ASSUME NEW i \in 1 .. n, k < i, i - 1 \in T
      PROVE  i \in T
  <2>1. CASE Writes(Parts(r)[i])
    <3>1. ~(p = Place(f, t, r, i) /\ s.alias \in Parts(r)[i].of.aliases)
      BY <1>4, <2>1, RetiredNotGiven
    <3> QED
      BY <1>4, <1>5, <1>7, <2>1, <3>1, StepAliases
  <2>2. CASE Parts(r)[i].kind = "alias"
    BY <1>4, <1>5, <1>7, <2>2, StepAlias
  <2>3. CASE Parts(r)[i].kind = "object"
    BY <1>7, <2>3, StepObject
  <2>4. CASE Parts(r)[i].kind = "standalone"
    <3> DEFINE x == Parts(r)[i].of
    <3>1. /\ x \in Range(r.standalone)
          /\ \A q \in DOMAIN f[i - 1].projects : \A m \in Name :
               f[i].projects[q].aliases[m] =
                 IF q = OwnerOf(t, x) /\ m \in x.aliases THEN "identity"
                 ELSE f[i - 1].projects[q].aliases[m]
      BY <2>4, StepStandalone
    <3>2. ~(p = OwnerOf(t, x) /\ s.alias \in x.aliases)
      BY <3>1 DEF Applying, Repeatable, RetiredStays, OwnerOf
    <3> HIDE DEF x, p
    <3> QED
      BY <1>4, <1>5, <1>7, <3>1, <3>2
  <2> QED
    BY <1>1, <2>1, <2>2, <2>3, <2>4, PartKinds DEF Writes
<1>8. k \in 0 .. n /\ n \in 0 .. n /\ k <= n
  BY <1>1
<1> HIDE DEF T, p
<1>9. n \in T
  <2> HIDE DEF n
  <2> QED
    BY <1>1, <1>6, <1>7, <1>8, HoldsToTheEnd
<1> QED
  BY <1>4, <1>9 DEF T, p

\* An identity that a rule gives is one when all parts are applied: no entry has it.
LEMMA StandaloneInTheEnd ==
  ASSUME NEW f, NEW t, NEW r, Applying(f, t, r), NEW s \in Range(r.standalone),
         NEW a \in Name, a \in s.aliases, NEW u, u = f[Len(Parts(r))]
  PROVE  u.projects[OwnerOf(t, s)].aliases[a] = "identity"
<1> DEFINE n == Len(Parts(r))  p == OwnerOf(t, s)
           T == {i \in Nat : f[i].projects[p].aliases[a] = "identity"}
<1>1. n \in Nat /\ r \in Registries
  BY CountOfParts
<1>2. PICK k \in 1 .. n : Parts(r)[k] = Tagged("standalone", s)
  BY <1>1, PartsCover DEF Range
<1>3. Parts(r)[k].kind = "standalone" /\ Parts(r)[k].of = s
  BY <1>2, TaggedFields
<1>4. p \in DOMAIN t.projects
  BY <1>3, StepStandalone
<1>5. \A i \in 1 .. n : p \in DOMAIN f[i - 1].projects
  BY <1>4, ApplyingStep
<1>6. k \in T
  BY <1>3, <1>5, StepStandalone
<1>7. ASSUME NEW i \in 1 .. n, k < i, i - 1 \in T
      PROVE  i \in T
  <2>1. CASE Writes(Parts(r)[i])
    <3> DEFINE q == Place(f, t, r, i)  e == Parts(r)[i].of
    <3>1. f[i].projects[p].aliases[a] =
            IF p = q /\ a \in e.aliases THEN "identity" ELSE f[i - 1].projects[p].aliases[a]
      <4> HIDE DEF p
      <4> QED
        BY <1>5, <2>1, StepAliases
    <3> HIDE DEF q, e, p
    <3> QED
      BY <1>7, <3>1
  <2>2. Parts(r)[i].kind # "alias"
    BY <1>1, <1>3, <1>7, PartsOrdered
  <2>3. CASE Parts(r)[i].kind = "object"
    BY <1>7, <2>3, StepObject
  <2>4. CASE Parts(r)[i].kind = "standalone"
    BY <1>5, <1>7, <2>4, StepStandalone
  <2> QED
    BY <1>1, <2>1, <2>2, <2>3, <2>4, PartKinds DEF Writes
<1>8. k \in 0 .. n /\ n \in 0 .. n /\ k <= n
  BY <1>1
<1> HIDE DEF T, p
<1>9. n \in T
  <2> HIDE DEF n
  <2> QED
    BY <1>1, <1>6, <1>7, <1>8, HoldsToTheEnd
<1> QED
  BY <1>9 DEF T, p

-----------------------------------------------------------------------------
(* What the plan of a second apply finds *)

\* All parts are applied, and no statement failed.
Ended(f, t, r, u) == Applying(f, t, r) /\ u = f[Len(Parts(r))] /\ u.ok

\* Such tables are sound and obey the indexes.
LEMMA EndedSound ==
  ASSUME NEW f, NEW t, NEW r, NEW u, Ended(f, t, r, u)
  PROVE  /\ SoundTables(u) /\ Indexed(u.projects) /\ Grown(t, u) /\ u.projects \in Seq(Row)
         /\ t.projects \in Seq(Row) /\ DOMAIN t.projects \subseteq DOMAIN u.projects
         /\ NoProject \notin DOMAIN u.projects /\ NoProject \notin DOMAIN t.projects
         /\ r \in Registries
<1>1. Applying(f, t, r) /\ u = f[Len(Parts(r))] /\ u.ok
  BY DEF Ended
<1>2. Len(Parts(r)) \in 0 .. Len(Parts(r)) /\ r \in Registries /\ t.projects \in Seq(Row)
  BY <1>1, CountOfParts
<1>3. SoundTables(u) /\ Grown(t, u)
  BY <1>1, <1>2 DEF Applying
<1>4. /\ u.projects \in Seq(Row) /\ Indexed(u.projects)
      /\ DOMAIN t.projects \subseteq DOMAIN u.projects
  BY <1>1, <1>3 DEF SoundTables, Grown
<1>5. NoProject \notin DOMAIN u.projects
  BY <1>4 DEF NoProject
<1> QED
  BY <1>2, <1>3, <1>4, <1>5

\* The URIs that the manifest names projects by name the same ones.
LEMMA WrittenOwners ==
  ASSUME NEW f, NEW t, NEW r, NEW u, Ended(f, t, r, u), NEW x \in Named(r),
         NEW k \in 1 .. Len(Parts(r)), Writes(Parts(r)[k]), NEW p, p = Place(f, t, r, k)
  PROVE  p \in Owners(u.projects, x) <=> p \in Owners(t.projects, x)
<1> DEFINE ps == t.projects  part == Parts(r)[k]  taken == Taken(ps, part)
           source == SourceOf(ps, part)
<1>1. Applying(f, t, r) /\ u = f[Len(Parts(r))] /\ NamesStay(ps, r)
  BY DEF Ended, Applying, Repeatable
<1>2. r \in Registries /\ NoProject \notin DOMAIN ps
  BY EndedSound
<1>3. p \in DOMAIN u.projects /\ u.projects[p].source = source
  BY <1>1, RowInTheEnd DEF RowOfEntry
<1>4. OldWritten(ps, u.projects, p, taken, source)
  BY <1>1, OldInTheEnd
<1>5. source = x => taken # NoProject /\ taken \in Owners(ps, x)
  <2>1. CASE part.kind = "codex"
    <3>1. part.of \in Range(r.projects)
      BY <1>2, <2>1, EntryPart
    <3>2. taken = Adopted(ps, part.of) /\ source = TargetSource(ps, part.of)
      BY <2>1 DEF Taken, SourceOf
    <3> HIDE DEF part, taken, source
    <3>3. source = x => taken \in Owners(ps, x)
      BY <1>1, <3>1, <3>2 DEF NamesStay
    <3> QED
      BY <1>2, <3>3 DEF Owners
  <2>2. CASE part.kind = "independent"
    <3>1. part.of \in Range(r.independents)
      BY <1>2, <2>2, EntryPart
    <3>2. taken = BySource(ps, part.of.source) /\ source = part.of.source
      BY <2>2 DEF Taken, SourceOf
    <3> HIDE DEF part, taken, source
    <3>3. source = x => taken # NoProject
      BY <1>1, <3>1, <3>2 DEF NamesStay
    <3>4. taken # NoProject => taken \in DOMAIN ps /\ ps[taken].source = source
      BY <3>2, BySourceIsRow
    <3> QED
      BY <3>3, <3>4 DEF Owners
  <2> QED
    BY <2>1, <2>2 DEF Writes
<1>6. CASE taken = NoProject
  <2>1. p \notin DOMAIN ps
    BY <1>1, <1>6, PlaceThere, ApplyingStep
  <2> HIDE DEF taken, source, part
  <2> QED
    BY <1>3, <1>4, <1>5, <1>6, <2>1 DEF Owners, OldWritten
<1>7. CASE taken # NoProject
  <2>1. p = taken /\ taken \in DOMAIN ps
    BY <1>1, <1>7, PlaceThere
  <2> HIDE DEF taken, source, part
  <2> QED
    BY <1>3, <1>4, <1>5, <1>7, <2>1 DEF Owners, OldWritten
<1> QED
  BY <1>6, <1>7

\* No other row comes to own such a URI.
LEMMA OwnersInTheEnd ==
  ASSUME NEW f, NEW t, NEW r, NEW u, Ended(f, t, r, u), NEW x \in Named(r)
  PROVE  Owners(u.projects, x) = Owners(t.projects, x)
<1>1. Applying(f, t, r) /\ u = f[Len(Parts(r))]
  BY DEF Ended
<1> SUFFICES ASSUME NEW p
             PROVE  p \in Owners(u.projects, x) <=> p \in Owners(t.projects, x)
  <2>1. \A p : p \in Owners(u.projects, x) <=> p \in Owners(t.projects, x)
    OBVIOUS
  <2> QED
    BY <2>1
<1>2. CASE \E k \in 1 .. Len(Parts(r)) : Writes(Parts(r)[k]) /\ Place(f, t, r, k) = p
  BY <1>2, WrittenOwners
<1>3. CASE ~\E k \in 1 .. Len(Parts(r)) : Writes(Parts(r)[k]) /\ Place(f, t, r, k) = p
  <2>1. p \in DOMAIN u.projects => p \in DOMAIN t.projects
    BY <1>1, <1>3, RowOrigin
  <2>2. p \in DOMAIN t.projects => SameCore(t.projects[p], u.projects[p])
    BY <1>1, <1>3, UnclaimedInTheEnd
  <2>3. p \in DOMAIN t.projects => p \in DOMAIN u.projects
    BY EndedSound
  <2> QED
    BY <2>1, <2>2, <2>3 DEF Owners, SameCore
<1> QED
  BY <1>2, <1>3

\* The only member of a set.
LEMMA OneOfOne ==
  ASSUME NEW S, NEW x, S = {x}
  PROVE  Unique(S) /\ TheOne(S) = x
<1>1. Cardinality({x}) = 1
  BY FS_Singleton
<1> QED
  BY <1>1 DEF Unique, TheOne

\* A Codex project takes over the row that it was written to.
LEMMA AdoptedInTheEnd ==
  ASSUME NEW f, NEW t, NEW r, NEW u, Ended(f, t, r, u),
         NEW k \in 1 .. Len(Parts(r)), Parts(r)[k].kind = "codex", NEW e, e = Parts(r)[k].of
  PROVE  Adopted(u.projects, e) = Place(f, t, r, k)
<1> DEFINE ps == t.projects  us == u.projects  p == Place(f, t, r, k)
<1>1. Applying(f, t, r) /\ u = f[Len(Parts(r))] /\ ProjectsPlan(t, r)
  BY DEF Ended, Applying, Plannable
<1>2. r \in Registries /\ Indexed(us) /\ NoProject \notin DOMAIN ps
  BY EndedSound
<1>3. e \in Codices /\ e \in Range(r.projects)
  BY <1>2, EntryPart DEF Writes
<1>4. p \in DOMAIN us /\ us[p].codex = e.codex
  BY <1>1, RowInTheEnd DEF RowOfEntry, CodexOf, Writes
<1>5. Taken(ps, Parts(r)[k]) = Adopted(ps, e)
  BY DEF Taken
<1>6. CASE e.adopt # {}
  <2> DEFINE x == TheOne(e.adopt)  owners == Owners(ps, x)
  <2>1. x \in e.adopt
    BY <1>6 DEF TheOne
  <2>2. x \in Named(r)
    BY <1>3, <2>1 DEF Named
  <2>3. Owners(us, x) = owners
    BY <2>2, OwnersInTheEnd
  <2>4. Unique(owners)
    BY <1>1, <1>3, <1>6 DEF ProjectsPlan, Range
  <2>5. Adopted(ps, e) = TheOne(owners)
    <3> HIDE DEF x
    <3> QED
      BY <1>6, <2>4 DEF Adopted, x
  <2>6. Adopted(us, e) = TheOne(Owners(us, x))
    <3>1. Unique(Owners(us, x))
      BY <2>3, <2>4
    <3> HIDE DEF x, us, owners
    <3> QED
      BY <1>6, <3>1 DEF Adopted, x
  <2>7. TheOne(owners) \in DOMAIN ps
    BY <2>4, UniqueIsMember DEF Owners
  <2>8. p = Adopted(ps, e)
    BY <1>1, <1>2, <1>5, <2>5, <2>7, PlaceThere DEF Writes
  <2> QED
    BY <2>3, <2>5, <2>6, <2>8
<1>7. CASE e.adopt = {}
  <2> DEFINE byCodexId == {q \in DOMAIN us : us[q].codex = e.codex}
  <2>1. e.codex # NoCodex
    BY <1>3, TablesAssumption DEF Codices
  <2> HIDE DEF p, us
  <2>2. byCodexId = {p}
    BY <1>2, <1>4, <2>1 DEF Indexed
  <2>3. Unique(byCodexId) /\ TheOne(byCodexId) = p
    BY <2>2, OneOfOne
  <2>4. ~Unique({})
    BY FS_EmptySet DEF Unique
  <2> HIDE DEF byCodexId
  <2>5. Adopted(us, e) = TheOne(byCodexId)
    BY <1>7, <2>3, <2>4 DEF Adopted, byCodexId
  <2> QED
    BY <2>3, <2>5 DEF us, p
<1> QED
  BY <1>6, <1>7

\* So it gets the same source.
LEMMA TargetInTheEnd ==
  ASSUME NEW f, NEW t, NEW r, NEW u, Ended(f, t, r, u),
         NEW k \in 1 .. Len(Parts(r)), Parts(r)[k].kind = "codex", NEW e, e = Parts(r)[k].of
  PROVE  TargetSource(u.projects, e) = TargetSource(t.projects, e)
<1>1. Applying(f, t, r) /\ u = f[Len(Parts(r))]
  BY DEF Ended
<1>2. Adopted(u.projects, e) = Place(f, t, r, k)
  BY AdoptedInTheEnd
<1>3. /\ Place(f, t, r, k) \in DOMAIN u.projects
      /\ u.projects[Place(f, t, r, k)].source = TargetSource(t.projects, e)
  BY <1>1, RowInTheEnd DEF RowOfEntry, SourceOf, Writes
<1>4. NoProject \notin DOMAIN u.projects
  BY EndedSound
<1> QED
  BY <1>2, <1>3, <1>4 DEF TargetSource

\* A project outside Codex finds the row that it was written to.
LEMMA BySourceInTheEnd ==
  ASSUME NEW f, NEW t, NEW r, NEW u, Ended(f, t, r, u),
         NEW k \in 1 .. Len(Parts(r)), Parts(r)[k].kind = "independent",
         NEW e, e = Parts(r)[k].of
  PROVE  BySource(u.projects, e.source) = Place(f, t, r, k)
<1> DEFINE us == u.projects  p == Place(f, t, r, k)
           found == {q \in DOMAIN us : us[q].source = e.source}
<1>1. Applying(f, t, r) /\ u = f[Len(Parts(r))]
  BY DEF Ended
<1>2. p \in DOMAIN us /\ us[p].source = e.source
  BY <1>1, RowInTheEnd DEF RowOfEntry, SourceOf, Writes
<1>3. Indexed(us)
  BY EndedSound
<1> HIDE DEF us, p
<1>4. found = {p}
  BY <1>2, <1>3 DEF Indexed
<1>5. TheOne(found) = p
  BY <1>4, OneOfOne
<1> HIDE DEF found
<1>6. BySource(us, e.source) = TheOne(found)
  BY <1>4 DEF BySource, found
<1> QED
  BY <1>5, <1>6 DEF us, p

\* The owner of a URI, if there is one only.
LEMMA TheOwner ==
  ASSUME NEW ps \in Seq(Row), NEW x, Unique(Owners(ps, x)), NEW p \in Owners(ps, x)
  PROVE  TheOne(Owners(ps, x)) = p
<1>1. IsFiniteSet(DOMAIN ps)
  BY FS_Interval
<1>2. Owners(ps, x) \subseteq DOMAIN ps
  BY DEF Owners
<1>3. IsFiniteSet(Owners(ps, x))
  BY <1>1, <1>2, FS_Subset
<1>4. \E q : Owners(ps, x) = {q}
  BY <1>3, FS_Singleton DEF Unique
<1> QED
  BY <1>4 DEF TheOne

\* A project of another entry is at a directory of this one if it was before.
LEMMA SourceAtRoot ==
  ASSUME NEW f, NEW t, NEW r, NEW u, Ended(f, t, r, u),
         NEW k \in 1 .. Len(Parts(r)), Parts(r)[k].kind = "codex", NEW e, e = Parts(r)[k].of,
         NEW j \in 1 .. Len(Parts(r)), Writes(Parts(r)[j]), j # k,
         NEW p, p = Place(f, t, r, j)
  PROVE  u.projects[p].source \in e.roots <=>
           p \in DOMAIN t.projects /\ t.projects[p].source \in e.roots
<1> DEFINE ps == t.projects  part == Parts(r)[j]  taken == Taken(ps, part)
           source == SourceOf(ps, part)
<1>1. Applying(f, t, r) /\ u = f[Len(Parts(r))] /\ RootsStay(ps, r) /\ UniqueIdentities(r)
  BY DEF Ended, Applying, Repeatable, Plannable
<1>2. r \in Registries /\ NoProject \notin DOMAIN ps
  BY EndedSound
<1>3. u.projects[p].source = source
  BY <1>1, RowInTheEnd DEF RowOfEntry
<1>4. e \in Codices /\ e \in Range(r.projects)
  BY <1>2, EntryPart DEF Writes
<1>5. e.roots \subseteq Root
  BY <1>4 DEF Codices
<1>6. /\ taken = NoProject => p \notin DOMAIN ps
      /\ taken # NoProject => p = taken /\ taken \in DOMAIN ps
  BY <1>1, PlaceThere, ApplyingStep
<1>7. CASE part.kind = "codex"
  <2>1. PICK a \in DOMAIN r.projects, b \in DOMAIN r.projects :
          a # b /\ e = r.projects[a] /\ part.of = r.projects[b]
    BY <1>1, <1>2, <1>7, EntriesDisjoint DEF Writes
  <2>2. taken = Adopted(ps, r.projects[b]) /\ source = TargetSource(ps, r.projects[b])
    BY <1>7, <2>1 DEF Taken, SourceOf
  <2>3. CodexUri(r.projects[b].codex) \notin Root
    <3>1. r.projects[b] \in Codices
      BY <1>2, <2>1 DEF Registries
    <3> QED
      BY <3>1, TablesAssumption DEF Codices
  <2>4. \/ source = CodexUri(r.projects[b].codex)
        \/ taken # NoProject /\ source = ps[taken].source
    <3> HIDE DEF taken, source
    <3> QED
      BY <2>2 DEF TargetSource
  <2>5. taken # NoProject /\ ps[taken].source \in e.roots => source = ps[taken].source
    <3> HIDE DEF taken, source
    <3> QED
      BY <1>1, <2>1, <2>2 DEF RootsStay
  <2> HIDE DEF taken, source, part
  <2> QED
    BY <1>3, <1>5, <1>6, <2>3, <2>4, <2>5
<1>8. CASE part.kind = "independent"
  <2>1. taken = BySource(ps, part.of.source) /\ source = part.of.source
    BY <1>8 DEF Taken, SourceOf
  <2>2. part.of \in Range(r.independents)
    BY <1>2, <1>8, EntryPart
  <2> HIDE DEF taken, source, part
  <2>3. source \in e.roots => taken # NoProject
    BY <1>1, <1>4, <2>1, <2>2 DEF RootsStay, Range
  <2>4. taken # NoProject => ps[taken].source = source
    BY <2>1, BySourceIsRow
  <2> QED
    BY <1>3, <1>6, <2>3, <2>4
<1> QED
  BY <1>7, <1>8 DEF Writes

\* A Codex project has the same workspaces.
LEMMA WorkspacesInTheEnd ==
  ASSUME NEW f, NEW t, NEW r, NEW u, Ended(f, t, r, u),
         NEW k \in 1 .. Len(Parts(r)), Parts(r)[k].kind = "codex", NEW e, e = Parts(r)[k].of
  PROVE  Workspaces(u.projects, e) = Workspaces(t.projects, e)
<1> DEFINE ps == t.projects  us == u.projects
<1>1. Applying(f, t, r) /\ u = f[Len(Parts(r))]
  BY DEF Ended
<1>2. Adopted(us, e) = Place(f, t, r, k)
  BY AdoptedInTheEnd
<1>3. DOMAIN ps \subseteq DOMAIN us /\ NoProject \notin DOMAIN ps
  BY EndedSound
<1>4. \A p \in DOMAIN ps : p = Adopted(ps, e) <=> p = Place(f, t, r, k)
  BY <1>1, <1>3, PlaceThere, PlaceTaken DEF Taken, Writes
<1>5. ASSUME NEW p, p # Place(f, t, r, k)
      PROVE  p \in DOMAIN us /\ us[p].source \in e.roots <=>
               p \in DOMAIN ps /\ ps[p].source \in e.roots
  <2>1. CASE \E j \in 1 .. Len(Parts(r)) : Writes(Parts(r)[j]) /\ Place(f, t, r, j) = p
    <3>1. PICK j \in 1 .. Len(Parts(r)) : Writes(Parts(r)[j]) /\ Place(f, t, r, j) = p
      BY <2>1
    <3>2. us[p].source \in e.roots <=> p \in DOMAIN ps /\ ps[p].source \in e.roots
      BY <1>5, <3>1, SourceAtRoot
    <3>3. p \in DOMAIN us
      BY <1>1, <3>1, RowInTheEnd
    <3> QED
      BY <3>2, <3>3
  <2>2. CASE ~\E j \in 1 .. Len(Parts(r)) : Writes(Parts(r)[j]) /\ Place(f, t, r, j) = p
    <3>1. p \in DOMAIN us => p \in DOMAIN ps
      BY <1>1, <2>2, RowOrigin
    <3>2. p \in DOMAIN ps => SameCore(ps[p], us[p])
      BY <1>1, <2>2, UnclaimedInTheEnd
    <3> QED
      BY <1>3, <3>1, <3>2 DEF SameCore
  <2> QED
    BY <2>1, <2>2
<1> HIDE DEF ps, us
<1>6. \A p : p \in Workspaces(us, e) <=> p \in Workspaces(ps, e)
  BY <1>2, <1>4, <1>5 DEF Workspaces
<1> QED
  BY <1>6 DEF ps, us

\* A name that an entry gives is no other project's identity, and a name that it
\* has is its alias.
LEMMA OtherNames ==
  ASSUME NEW f, NEW t, NEW r, NEW u, Ended(f, t, r, u),
         NEW k \in 1 .. Len(Parts(r)), Writes(Parts(r)[k]), NEW e, e = Parts(r)[k].of,
         NEW p \in DOMAIN u.projects, p # Place(f, t, r, k)
  PROVE  /\ \A n \in e.aliases : u.projects[p].aliases[n] # "identity"
         /\ u.projects[p].name \in e.aliases =>
              /\ p \in DOMAIN t.projects /\ SameCore(t.projects[p], u.projects[p])
              /\ \A j \in 1 .. Len(Parts(r)) : Writes(Parts(r)[j]) => Place(f, t, r, j) # p
<1>1. Applying(f, t, r) /\ u = f[Len(Parts(r))] /\ UniqueIdentities(r)
  BY DEF Ended, Applying, Plannable
<1>2. Indexed(u.projects) /\ r \in Registries
  BY EndedSound
<1>3. e.aliases \subseteq Name
  BY <1>1, StepWrites
<1>4. /\ Place(f, t, r, k) \in DOMAIN u.projects
      /\ \A n \in Name : n \in e.aliases => u.projects[Place(f, t, r, k)].aliases[n] = "identity"
  BY <1>1, RowInTheEnd DEF RowOfEntry
<1>5. \A n \in e.aliases : u.projects[p].aliases[n] # "identity"
  BY <1>2, <1>3, <1>4 DEF Indexed
<1>6. ASSUME u.projects[p].name \in e.aliases, NEW j \in 1 .. Len(Parts(r)),
             Writes(Parts(r)[j]), Place(f, t, r, j) = p
      PROVE  FALSE
  <2>1. u.projects[p].name = Parts(r)[j].of.name
    BY <1>1, <1>6, RowInTheEnd DEF RowOfEntry
  <2>2. Parts(r)[j].of.name \in Parts(r)[j].of.aliases
    BY <1>1, <1>6, StepWrites
  <2>3. j # k
    BY <1>6
  <2>4. Parts(r)[j].of.aliases \cap e.aliases = {}
    BY <1>1, <1>2, <1>6, <2>3, EntriesDisjoint
  <2> QED
    BY <1>6, <2>1, <2>2, <2>4
<1>7. ASSUME u.projects[p].name \in e.aliases
      PROVE  p \in DOMAIN t.projects /\ SameCore(t.projects[p], u.projects[p])
  BY <1>1, <1>6, <1>7, RowOrigin, UnclaimedInTheEnd
<1> QED
  BY <1>5, <1>6, <1>7

\* It has no new candidates: names that entries have given are identities of theirs.
LEMMA CandidatesInTheEnd ==
  ASSUME NEW f, NEW t, NEW r, NEW u, Ended(f, t, r, u),
         NEW k \in 1 .. Len(Parts(r)), Parts(r)[k].kind = "codex", NEW e, e = Parts(r)[k].of
  PROVE  Candidates(u.projects, e, Superseded(r)) \subseteq Candidates(t.projects, e, Superseded(r))
<1> DEFINE ps == t.projects  us == u.projects
<1>1. Applying(f, t, r) /\ u = f[Len(Parts(r))] /\ RulesApply(t, r)
  BY DEF Ended, Applying, Plannable
<1>2. ps \in Seq(Row) /\ NoProject \notin DOMAIN ps
  BY EndedSound
<1>3. Adopted(us, e) = Place(f, t, r, k) /\ Workspaces(us, e) = Workspaces(ps, e)
  BY AdoptedInTheEnd, WorkspacesInTheEnd
<1>4. Writes(Parts(r)[k])
  BY DEF Writes
<1>5. e.aliases \subseteq Name
  BY <1>1, <1>4, StepWrites
<1> SUFFICES ASSUME NEW p \in Candidates(us, e, Superseded(r))
             PROVE  p \in Candidates(ps, e, Superseded(r))
  OBVIOUS
<1>6. /\ p \in DOMAIN us /\ p \notin Workspaces(ps, e) /\ p # Place(f, t, r, k)
      /\ \/ us[p].name \in e.aliases
         \/ \E n \in e.aliases : /\ us[p].aliases[n] \in {"identity", "historical"}
                                 /\ <<us[p].source, n>> \notin Superseded(r)
  BY <1>3 DEF Candidates
<1>7. p \in DOMAIN ps => p # Adopted(ps, e)
  BY <1>1, <1>2, <1>4, <1>6, PlaceThere DEF Taken
<1>8. CASE us[p].name \in e.aliases
  <2>1. p \in DOMAIN ps /\ SameCore(ps[p], us[p])
    BY <1>4, <1>6, <1>8, OtherNames
  <2> QED
    BY <1>6, <1>7, <1>8, <2>1 DEF Candidates, SameCore
<1>9. CASE \E n \in e.aliases : us[p].aliases[n] \in {"identity", "historical"}
  <2>1. PICK n \in e.aliases : us[p].aliases[n] \in {"identity", "historical"}
    BY <1>9
  <2>2. us[p].aliases[n] = "historical"
    BY <1>4, <1>6, <2>1, OtherNames
  <2>3. p \in DOMAIN ps /\ ps[p].aliases[n] = "historical"
    BY <1>1, <1>5, <1>6, <2>2, AliasOrigin
  <2>4. ASSUME <<ps[p].source, n>> \in Superseded(r) PROVE FALSE
    <3>1. PICK s \in Range(r.supersedeAliases) : <<ps[p].source, n>> = <<s.owner, s.alias>>
      BY <2>4 DEF Superseded
    <3>2. s.owner = ps[p].source /\ s.alias = n
      BY <3>1
    <3>3. Unique(Owners(ps, s.owner)) /\ p \in Owners(ps, s.owner)
      BY <1>1, <2>3, <3>2 DEF RulesApply, Owners
    <3>4. OwnerOf(t, s) = p
      BY <1>2, <3>3, TheOwner DEF OwnerOf
    <3>5. us[OwnerOf(t, s)].aliases[s.alias] = "rejected"
      BY <1>1, RejectedInTheEnd
    <3> QED
      BY <2>2, <3>2, <3>4, <3>5
  <2> QED
    BY <1>6, <1>7, <2>3, <2>4 DEF Candidates
<1> QED
  BY <1>6, <1>8, <1>9

-----------------------------------------------------------------------------
(* Objects and relations of the entries *)

Own(part) == IF part.kind = "codex" THEN GroupObjects(part.of) ELSE RegisteredObjects(part.of)

Others(ps, r, part) ==
  IF part.kind = "codex"
    THEN Workspaces(ps, part.of) \cup Candidates(ps, part.of, Superseded(r)) ELSE {}

\* No project has no scope.
LEMMA NoScopes == Scopes({}) = {}
BY DEF Scopes

\* An entry confirms its own objects and the scopes of other projects, and keeps the rest.
LEMMA StepObjects ==
  ASSUME NEW f, NEW t, NEW r, Applying(f, t, r), NEW i \in 1 .. Len(Parts(r)),
         Writes(Parts(r)[i])
  PROVE  /\ \A o \in Own(Parts(r)[i]) : Confirmed(f[i], o, Place(f, t, r, i))
         /\ \A q \in Others(t.projects, r, Parts(r)[i]) : Confirmed(f[i], <<"scope", q>>, q)
         /\ Keeps(f[i - 1], f[i],
                  Own(Parts(r)[i]) \cup Scopes(Others(t.projects, r, Parts(r)[i])))
<1> DEFINE part == Parts(r)[i]  e == part.of  p == Place(f, t, r, i)
           others == Others(t.projects, r, part)
<1>1. CASE part.kind = "codex"
  <2>1. others = Workspaces(t.projects, e) \cup Candidates(t.projects, e, Superseded(r))
        /\ Own(part) = GroupObjects(e)
    BY <1>1 DEF Others, Own
  <2>2. /\ \A o \in GroupObjects(e) : Confirmed(f[i], o, p)
        /\ \A q \in Workspaces(t.projects, e) \cup Candidates(t.projects, e, Superseded(r)) :
             Confirmed(f[i], <<"scope", q>>, q)
        /\ Keeps(f[i - 1], f[i], GroupObjects(e) \cup
             Scopes(Workspaces(t.projects, e) \cup Candidates(t.projects, e, Superseded(r))))
    BY <1>1, StepCodex
  <2> HIDE DEF others, p, e, part
  <2> QED
    BY <2>1, <2>2 DEF others, p, part
<1>2. CASE part.kind = "independent"
  <2>1. others = {} /\ Own(part) = RegisteredObjects(e)
    BY <1>2 DEF Others, Own
  <2>2. /\ \A o \in RegisteredObjects(e) : Confirmed(f[i], o, p)
        /\ Keeps(f[i - 1], f[i], RegisteredObjects(e))
    BY <1>2, StepIndependent
  <2>3. Own(part) \cup Scopes(others) = RegisteredObjects(e)
    BY <2>1, NoScopes
  <2> HIDE DEF others, p, e, part
  <2> QED
    BY <2>1, <2>2, <2>3 DEF others, p, part
<1> QED
  BY <1>1, <1>2 DEF Writes

\* What an entry confirms is made for it or adopted.
LEMMA EntryObjects ==
  ASSUME NEW f, NEW t, NEW r, Applying(f, t, r), NEW i \in 1 .. Len(Parts(r)),
         Writes(Parts(r)[i])
  PROVE  /\ Own(Parts(r)[i]) \subseteq Made(t.projects, r) \cup AdoptedObjects(r)
         /\ Scopes(Others(t.projects, r, Parts(r)[i])) \subseteq Made(t.projects, r)
<1> DEFINE part == Parts(r)[i]  e == part.of  ps == t.projects
<1>1. r \in Registries /\ ObjectsApart(ps, r)
  BY DEF Applying, Repeatable
<1>2. CASE part.kind = "codex"
  <2>1. e \in Range(r.projects)
    BY <1>1, <1>2, EntryPart
  <2>2. /\ RootObjects(<<"group", e.codex>>, e.roots) \subseteq Made(ps, r)
        /\ Scopes(Workspaces(ps, e) \cup Candidates(ps, e, Superseded(r))) \subseteq Made(ps, r)
        /\ e.adoptObject = {} => GroupOf(e) \in Made(ps, r)
    BY <2>1, EntryMakes
  <2>3. e.adoptObject # {} => GroupOf(e) \in AdoptedObjects(r)
    BY <1>1, <2>1, EntryAdopts
  <2>4. Own(part) = {GroupOf(e)} \cup RootObjects(<<"group", e.codex>>, e.roots)
    BY <1>2 DEF Own, GroupObjects
  <2>5. Others(ps, r, part) = Workspaces(ps, e) \cup Candidates(ps, e, Superseded(r))
    BY <1>2 DEF Others
  <2> HIDE DEF e, part, ps
  <2>6. Own(part) \subseteq Made(ps, r) \cup AdoptedObjects(r)
    BY <2>2, <2>3, <2>4
  <2>7. Scopes(Others(ps, r, part)) \subseteq Made(ps, r)
    BY <2>2, <2>5
  <2> QED
    BY <2>6, <2>7 DEF part, ps
<1>3. CASE part.kind = "independent"
  <2>1. e \in Range(r.independents)
    BY <1>1, <1>3, EntryPart
  <2>2. Own(part) = RegisteredObjects(e) /\ Others(ps, r, part) = {}
    BY <1>3 DEF Own, Others
  <2>3. RegisteredObjects(e) \subseteq Made(ps, r)
    BY <2>1, RegistrationMakes
  <2> HIDE DEF e, part, ps
  <2> QED
    BY <2>2, <2>3, NoScopes DEF part, ps
<1> QED
  BY <1>2, <1>3 DEF Writes

\* An object of an entry's own is no scope of a project.
LEMMA OwnAreNoScopes ==
  ASSUME NEW f, NEW t, NEW r, Applying(f, t, r),
         NEW i \in 1 .. Len(Parts(r)), Writes(Parts(r)[i]),
         NEW k \in 1 .. Len(Parts(r)), Writes(Parts(r)[k])
  PROVE  Own(Parts(r)[i]) \cap Scopes(Others(t.projects, r, Parts(r)[k])) = {}
<1> DEFINE e == Parts(r)[i].of  scopes == Scopes(Others(t.projects, r, Parts(r)[k]))
<1>1. r \in Registries /\ ObjectsApart(t.projects, r)
  BY DEF Applying, Repeatable
<1>2. scopes \subseteq Made(t.projects, r)
  BY EntryObjects
<1>3. CASE Parts(r)[i].kind = "codex"
  <2>1. Own(Parts(r)[i]) = {GroupOf(e)} \cup RootObjects(<<"group", e.codex>>, e.roots)
    BY <1>3 DEF Own, GroupObjects
  <2>2. e \in Range(r.projects)
    BY <1>1, <1>3, EntryPart
  <2>3. GroupOf(e) \notin scopes
    <3>1. CASE e.adoptObject = {}
      <4>1. GroupOf(e) = <<"group", e.codex>>
        BY <3>1 DEF GroupOf
      <4> QED
        BY <4>1, GroupsAreNoRoots
    <3>2. CASE e.adoptObject # {}
      BY <1>1, <1>2, <2>2, <3>2, EntryAdopts
    <3> QED
      BY <3>1, <3>2
  <2> QED
    BY <2>1, <2>3, RootsAreNoScopes
<1>4. CASE Parts(r)[i].kind = "independent"
  <2>1. Own(Parts(r)[i]) =
        {<<"registered", e.source>>} \cup RootObjects(<<"registered", e.source>>, e.roots)
    BY <1>4 DEF Own, RegisteredObjects
  <2>2. <<"registered", e.source>> \notin scopes
    BY GroupsAreNoRoots
  <2> QED
    BY <2>1, <2>2, RootsAreNoScopes
<1> QED
  BY <1>3, <1>4 DEF Writes

\* The object that roots and relations of an entry hang on, and what its roots are
\* named after.
ScopeOf(part) ==
  IF part.kind = "codex" THEN <<"group", part.of.codex>> ELSE <<"registered", part.of.source>>

HeadOf(part) == IF part.kind = "codex" THEN GroupOf(part.of) ELSE <<"registered", part.of.source>>

\* An entry's own objects are its object and its roots.
LEMMA OwnIs ==
  ASSUME NEW part
  PROVE  Own(part) = {HeadOf(part)} \cup RootObjects(ScopeOf(part), part.of.roots)
BY DEF Own, HeadOf, ScopeOf, GroupObjects, RegisteredObjects

\* Its object is made for it, and then its roots are named after it, or is adopted.
LEMMA HeadIs ==
  ASSUME NEW f, NEW t, NEW r, Applying(f, t, r), NEW i \in 1 .. Len(Parts(r)),
         Writes(Parts(r)[i]), NEW part, part = Parts(r)[i]
  PROVE  /\ \/ HeadOf(part) = ScopeOf(part) /\ HeadOf(part) \in Made(t.projects, r)
            \/ /\ part.kind = "codex" /\ HeadOf(part) \in part.of.adoptObject
               /\ HeadOf(part) \notin Made(t.projects, r)
         /\ RootObjects(ScopeOf(part), part.of.roots) \subseteq Made(t.projects, r)
<1> DEFINE e == part.of  ps == t.projects
<1>1. r \in Registries /\ ObjectsApart(ps, r)
  BY DEF Applying, Repeatable
<1>2. CASE part.kind = "codex"
  <2>1. e \in Range(r.projects)
    BY <1>1, <1>2, EntryPart
  <2>2. HeadOf(part) = GroupOf(e) /\ ScopeOf(part) = <<"group", e.codex>>
    BY <1>2 DEF HeadOf, ScopeOf
  <2>3. RootObjects(<<"group", e.codex>>, e.roots) \subseteq Made(ps, r)
    BY <2>1, EntryMakes
  <2>4. CASE e.adoptObject = {}
    <3>1. GroupOf(e) = <<"group", e.codex>>
      BY <2>4 DEF GroupOf
    <3>2. GroupOf(e) \in Made(ps, r)
      BY <2>1, <2>4, EntryMakes
    <3> QED
      BY <2>2, <2>3, <3>1, <3>2
  <2>5. CASE e.adoptObject # {}
    <3>1. GroupOf(e) \in e.adoptObject /\ GroupOf(e) \notin Made(ps, r)
      BY <1>1, <2>1, <2>5, EntryAdopts
    <3> QED
      BY <1>2, <2>2, <2>3, <3>1
  <2> QED
    BY <2>4, <2>5
<1>3. CASE part.kind = "independent"
  <2>1. e \in Range(r.independents)
    BY <1>1, <1>3, EntryPart
  <2>2. HeadOf(part) = <<"registered", e.source>> /\ ScopeOf(part) = <<"registered", e.source>>
    BY <1>3 DEF HeadOf, ScopeOf
  <2>3. RegisteredObjects(e) \subseteq Made(ps, r)
    BY <2>1, RegistrationMakes
  <2> QED
    BY <2>2, <2>3 DEF RegisteredObjects
<1> QED
  BY <1>2, <1>3 DEF Writes

\* Codex ids and sources keep the scopes of two entries apart.
LEMMA ScopesDiffer ==
  ASSUME NEW f, NEW t, NEW r, NEW u, Ended(f, t, r, u),
         NEW j \in 1 .. Len(Parts(r)), NEW k \in 1 .. Len(Parts(r)), j # k,
         Writes(Parts(r)[j]), Writes(Parts(r)[k])
  PROVE  ScopeOf(Parts(r)[j]) # ScopeOf(Parts(r)[k])
<1> DEFINE a == Parts(r)[j]  b == Parts(r)[k]  p == Place(f, t, r, j)  q == Place(f, t, r, k)
<1>1. Applying(f, t, r) /\ u = f[Len(Parts(r))] /\ UniqueIdentities(r)
  BY DEF Ended, Applying, Plannable
<1>2. r \in Registries /\ Indexed(u.projects)
  BY EndedSound
<1>3. CASE a.kind = "codex" /\ b.kind = "codex"
  <2>1. p # q
    BY <1>1, AllPlacesDiffer
  <2>2. /\ p \in DOMAIN u.projects /\ u.projects[p].codex = a.of.codex
        /\ q \in DOMAIN u.projects /\ u.projects[q].codex = b.of.codex
    BY <1>1, <1>3, RowInTheEnd DEF RowOfEntry, CodexOf
  <2>3. a.of \in Codices
    BY <1>2, <1>3, EntryPart
  <2>4. a.of.codex # NoCodex
    BY <2>3, TablesAssumption DEF Codices
  <2> HIDE DEF p, q, a, b
  <2>5. a.of.codex # b.of.codex
    BY <1>2, <2>1, <2>2, <2>4 DEF Indexed
  <2>6. ScopeOf(a) # ScopeOf(b)
    BY <1>3, <2>5 DEF ScopeOf
  <2> QED
    BY <2>6 DEF a, b
<1>4. CASE a.kind = "independent" /\ b.kind = "independent"
  <2>1. a.of.source # b.of.source
    BY <1>1, <1>2, <1>4, EntriesDisjoint
  <2> QED
    BY <1>4, <2>1 DEF ScopeOf
<1>5. CASE a.kind # b.kind
  <2>1. Writes(a) /\ Writes(b)
    OBVIOUS
  <2> HIDE DEF a, b
  <2>2. ScopeOf(a) # ScopeOf(b)
    BY <1>5, <2>1 DEF ScopeOf, Writes
  <2> QED
    BY <2>2 DEF a, b
<1> QED
  BY <1>3, <1>4, <1>5 DEF Writes

\* The scope of an entry is no root.
LEMMA ScopeIsNoRoot ==
  ASSUME NEW part, NEW scope, NEW roots
  PROVE  ScopeOf(part) \notin RootObjects(scope, roots)
BY GroupsAreNoRoots DEF ScopeOf

\* Roots of different scopes are different objects.
LEMMA RootsApart ==
  ASSUME NEW a, NEW b, a # b, NEW S, NEW T
  PROVE  RootObjects(a, S) \cap RootObjects(b, T) = {}
BY DEF RootObjects

\* Two entries have two objects.
LEMMA HeadsDiffer ==
  ASSUME NEW f, NEW t, NEW r, NEW u, Ended(f, t, r, u),
         NEW j \in 1 .. Len(Parts(r)), NEW k \in 1 .. Len(Parts(r)), j # k,
         Writes(Parts(r)[j]), Writes(Parts(r)[k])
  PROVE  HeadOf(Parts(r)[j]) # HeadOf(Parts(r)[k])
<1> DEFINE a == Parts(r)[j]  b == Parts(r)[k]
<1>1. Applying(f, t, r) /\ UniqueIdentities(r) /\ ObjectsApart(t.projects, r) /\ r \in Registries
  BY DEF Ended, Applying, Plannable, Repeatable
<1>2. \/ HeadOf(a) = ScopeOf(a) /\ HeadOf(a) \in Made(t.projects, r)
      \/ /\ a.kind = "codex" /\ HeadOf(a) \in a.of.adoptObject
         /\ HeadOf(a) \notin Made(t.projects, r)
  BY <1>1, HeadIs
<1>3. \/ HeadOf(b) = ScopeOf(b) /\ HeadOf(b) \in Made(t.projects, r)
      \/ /\ b.kind = "codex" /\ HeadOf(b) \in b.of.adoptObject
         /\ HeadOf(b) \notin Made(t.projects, r)
  BY <1>1, HeadIs
<1>4. ScopeOf(a) # ScopeOf(b)
  BY ScopesDiffer
<1>5. a.kind = "codex" /\ b.kind = "codex" => a.of.adoptObject \cap b.of.adoptObject = {}
  BY <1>1, EntriesDisjoint DEF ObjectsApart
<1> HIDE DEF a, b
<1>6. HeadOf(a) # HeadOf(b)
  BY <1>2, <1>3, <1>4, <1>5
<1> QED
  BY <1>6 DEF a, b

\* Entries have no object in common.
LEMMA OwnDiffer ==
  ASSUME NEW f, NEW t, NEW r, NEW u, Ended(f, t, r, u),
         NEW j \in 1 .. Len(Parts(r)), NEW k \in 1 .. Len(Parts(r)), j # k,
         Writes(Parts(r)[j]), Writes(Parts(r)[k])
  PROVE  Own(Parts(r)[j]) \cap Own(Parts(r)[k]) = {}
<1> DEFINE a == Parts(r)[j]  b == Parts(r)[k]
           A == RootObjects(ScopeOf(a), a.of.roots)  B == RootObjects(ScopeOf(b), b.of.roots)
<1>1. Applying(f, t, r)
  BY DEF Ended
<1>2. A \cap B = {}
  BY ScopesDiffer, RootsApart
<1>3. HeadOf(a) # HeadOf(b)
  BY HeadsDiffer
<1>4. HeadOf(a) \notin B
  BY <1>1, HeadIs, ScopeIsNoRoot
<1>5. HeadOf(b) \notin A
  BY <1>1, HeadIs, ScopeIsNoRoot
<1>6. Own(a) = {HeadOf(a)} \cup A /\ Own(b) = {HeadOf(b)} \cup B
  BY OwnIs
<1> HIDE DEF a, b, A, B
<1>7. Own(a) \cap Own(b) = {}
  BY <1>2, <1>3, <1>4, <1>5, <1>6
<1> QED
  BY <1>7 DEF a, b

-----------------------------------------------------------------------------
(* Objects when all parts are applied *)

\* After an entry there are only entries.
LEMMA EntriesAfter ==
  ASSUME NEW f, NEW t, NEW r, Applying(f, t, r), NEW k \in 1 .. Len(Parts(r)),
         Writes(Parts(r)[k]), NEW i \in 1 .. Len(Parts(r)), k < i
  PROVE  Writes(Parts(r)[i])
BY PartsOrdered DEF Applying

\* An entry's own objects stay confirmed: no later entry has them.
LEMMA OwnInTheEnd ==
  ASSUME NEW f, NEW t, NEW r, NEW u, Ended(f, t, r, u),
         NEW k \in 1 .. Len(Parts(r)), Writes(Parts(r)[k])
  PROVE  \A o \in Own(Parts(r)[k]) : Confirmed(u, o, Place(f, t, r, k))
<1> DEFINE n == Len(Parts(r))  p == Place(f, t, r, k)  own == Own(Parts(r)[k])
           T == {i \in Nat : \A o \in own : Confirmed(f[i], o, p)}
<1>1. Applying(f, t, r) /\ u = f[n]
  BY DEF Ended
<1>2. n \in Nat
  BY <1>1, CountOfParts
<1>3. k \in T
  <2>1. \A o \in own : Confirmed(f[k], o, p)
    BY <1>1, StepObjects
  <2>2. k \in Nat
    BY <1>2
  <2> HIDE DEF own, p
  <2> QED
    BY <2>1, <2>2
<1>4. ASSUME NEW i \in 1 .. n, k < i, i - 1 \in T
      PROVE  i \in T
  <2> DEFINE scopes == Scopes(Others(t.projects, r, Parts(r)[i]))
  <2>1. Writes(Parts(r)[i])
    BY <1>1, <1>4, EntriesAfter
  <2>2. own \cap Own(Parts(r)[i]) = {}
    BY <1>4, <2>1, OwnDiffer
  <2>3. own \cap scopes = {}
    BY <1>1, <2>1, OwnAreNoScopes
  <2>4. Keeps(f[i - 1], f[i], Own(Parts(r)[i]) \cup scopes)
    BY <1>1, <2>1, StepObjects
  <2>5. \A o \in own : Confirmed(f[i - 1], o, p)
    BY <1>4
  <2> HIDE DEF own, scopes, p
  <2>6. \A o \in own : Confirmed(f[i], o, p)
    BY <2>2, <2>3, <2>4, <2>5, ConfirmedKept
  <2> QED
    BY <2>6, <1>2
<1>5. k \in 0 .. n /\ n \in 0 .. n /\ k <= n
  BY <1>2
<1>6. n \in T
  <2> HIDE DEF T, n
  <2> QED
    BY <1>2, <1>3, <1>4, <1>5, HoldsToTheEnd
<1> QED
  BY <1>1, <1>6

\* Whoever confirms the scope of a project confirms it as that project's.
LEMMA OthersInTheEnd ==
  ASSUME NEW f, NEW t, NEW r, NEW u, Ended(f, t, r, u),
         NEW k \in 1 .. Len(Parts(r)), Writes(Parts(r)[k])
  PROVE  \A q \in Others(t.projects, r, Parts(r)[k]) : Confirmed(u, <<"scope", q>>, q)
<1> DEFINE n == Len(Parts(r))  others == Others(t.projects, r, Parts(r)[k])
           T == {i \in Nat : \A q \in others : Confirmed(f[i], <<"scope", q>>, q)}
<1>1. Applying(f, t, r) /\ u = f[n]
  BY DEF Ended
<1>2. n \in Nat
  BY <1>1, CountOfParts
<1>3. k \in T
  <2>1. \A q \in others : Confirmed(f[k], <<"scope", q>>, q)
    BY <1>1, StepObjects
  <2>2. k \in Nat
    BY <1>2
  <2> HIDE DEF others
  <2> QED
    BY <2>1, <2>2
<1>4. ASSUME NEW i \in 1 .. n, k < i, i - 1 \in T
      PROVE  i \in T
  <2> DEFINE own == Own(Parts(r)[i])  new == Others(t.projects, r, Parts(r)[i])
  <2>1. Writes(Parts(r)[i])
    BY <1>1, <1>4, EntriesAfter
  <2>2. own \cap Scopes(others) = {}
    BY <1>1, <2>1, OwnAreNoScopes
  <2>3. /\ \A q \in new : Confirmed(f[i], <<"scope", q>>, q)
        /\ Keeps(f[i - 1], f[i], own \cup Scopes(new))
    BY <1>1, <2>1, StepObjects
  <2>4. \A q \in others : Confirmed(f[i - 1], <<"scope", q>>, q)
    BY <1>4
  <2> HIDE DEF own, new, others
  <2>5. ASSUME NEW q \in others
        PROVE  Confirmed(f[i], <<"scope", q>>, q)
    <3>1. CASE q \in new
      BY <2>3, <3>1
    <3>2. CASE q \notin new
      <4>1. <<"scope", q>> \in Scopes(others) /\ <<"scope", q>> \notin Scopes(new)
        BY <3>2 DEF Scopes
      <4>2. <<"scope", q>> \notin own \cup Scopes(new)
        BY <2>2, <4>1
      <4> QED
        BY <2>3, <2>4, <4>2, ConfirmedKept
    <3> QED
      BY <3>1, <3>2
  <2> QED
    BY <2>5, <1>2
<1>5. k \in 0 .. n /\ n \in 0 .. n /\ k <= n
  BY <1>2
<1>6. n \in T
  <2> HIDE DEF T, n
  <2> QED
    BY <1>2, <1>3, <1>4, <1>5, HoldsToTheEnd
<1> QED
  BY <1>1, <1>6

\* What a part does to an object that it does not retire and, if it is an entry, does
\* not confirm.
LEMMA StepOtherObjects ==
  ASSUME NEW f, NEW t, NEW r, Applying(f, t, r), NEW i \in 1 .. Len(Parts(r)),
         NEW o \in DOMAIN f[i - 1].objects,
         Parts(r)[i].kind = "object" => Parts(r)[i].of.object # o
  PROVE  /\ o \in DOMAIN f[i].objects
         /\ \/ f[i].objects[o] = f[i - 1].objects[o]
            \/ Writes(Parts(r)[i]) /\ f[i].objects[o].state = "confirmed"
                 /\ o \in Made(t.projects, r) \cup AdoptedObjects(r)
<1>1. r \in Registries
  BY DEF Applying
<1>2. CASE Parts(r)[i].kind = "alias"
  BY <1>2, StepAlias
<1>3. CASE Parts(r)[i].kind = "object"
  BY <1>3, StepObject
<1>4. CASE Parts(r)[i].kind = "standalone"
  BY <1>4, StepStandalone
<1>5. CASE Writes(Parts(r)[i])
  <2> DEFINE own == Own(Parts(r)[i])  new == Others(t.projects, r, Parts(r)[i])
  <2>1. /\ \A x \in own : Confirmed(f[i], x, Place(f, t, r, i))
        /\ \A q \in new : Confirmed(f[i], <<"scope", q>>, q)
        /\ Keeps(f[i - 1], f[i], own \cup Scopes(new))
    BY <1>5, StepObjects
  <2>2. own \subseteq Made(t.projects, r) \cup AdoptedObjects(r)
        /\ Scopes(new) \subseteq Made(t.projects, r)
    BY <1>5, EntryObjects
  <2> HIDE DEF own, new
  <2>3. CASE o \in own
    BY <1>5, <2>1, <2>2, <2>3 DEF Confirmed
  <2>4. CASE o \in Scopes(new)
    <3>1. \E q \in new : o = <<"scope", q>>
      BY <2>4 DEF Scopes
    <3>2. \E q : Confirmed(f[i], o, q)
      BY <2>1, <3>1
    <3> QED
      BY <1>5, <2>2, <2>4, <3>2 DEF Confirmed
  <2>5. CASE o \notin own \cup Scopes(new)
    BY <2>1, <2>5 DEF Keeps
  <2> QED
    BY <2>3, <2>4, <2>5
<1> QED
  BY <1>1, <1>2, <1>3, <1>4, <1>5, PartKinds DEF Writes

\* What the manifest retires stays retired.
LEMMA RetiredInTheEnd ==
  ASSUME NEW f, NEW t, NEW r, NEW u, Ended(f, t, r, u), NEW s \in Range(r.supersedeObjects)
  PROVE  s.object \in DOMAIN u.objects /\ u.objects[s.object].state = "rejected"
<1> DEFINE n == Len(Parts(r))  o == s.object
           Retired(i) == o \in DOMAIN f[i].objects /\ f[i].objects[o].state = "rejected"
           T == {i \in Nat : Retired(i)}
<1>1. Applying(f, t, r) /\ u = f[n] /\ RetiredStays(t.projects, r) /\ r \in Registries
  BY DEF Ended, Applying, Repeatable
<1>2. n \in Nat
  BY <1>1, CountOfParts
<1>3. PICK k \in 1 .. n : Parts(r)[k] = Tagged("object", s)
  BY <1>1, PartsCover DEF Range
<1>4. Parts(r)[k].kind = "object" /\ Parts(r)[k].of = s
  BY <1>3, TaggedFields
<1>5. k \in T
  BY <1>1, <1>2, <1>4, StepObject
<1>6. o \notin Made(t.projects, r) \cup AdoptedObjects(r)
  BY <1>1 DEF RetiredStays
<1>7. ASSUME NEW i \in 1 .. n, k < i, i - 1 \in T
      PROVE  i \in T
  <2>1. Retired(i - 1)
    BY <1>7
  <2>2. CASE Parts(r)[i].kind = "object" /\ Parts(r)[i].of.object = o
    <3>1. o \in DOMAIN f[i].objects /\ f[i].objects[o].state = "rejected"
      BY <1>1, <2>2, StepObject
    <3> QED
      BY <1>2, <3>1
  <2>3. CASE ~(Parts(r)[i].kind = "object" /\ Parts(r)[i].of.object = o)
    <3>1. o \in DOMAIN f[i].objects /\ f[i].objects[o] = f[i - 1].objects[o]
      BY <1>1, <1>6, <2>1, <2>3, StepOtherObjects
    <3> QED
      BY <1>2, <2>1, <3>1
  <2> QED
    BY <2>2, <2>3
<1>8. k \in 0 .. n /\ n \in 0 .. n /\ k <= n
  BY <1>2
<1>9. n \in T
  <2> HIDE DEF T, n
  <2> QED
    BY <1>2, <1>5, <1>7, <1>8, HoldsToTheEnd
<1> QED
  BY <1>1, <1>9

\* Everything else that was live still is.
LEMMA LiveInTheEnd ==
  ASSUME NEW f, NEW t, NEW r, NEW u, Ended(f, t, r, u), NEW o \in DOMAIN t.objects,
         t.objects[o].state # "rejected", \A s \in Range(r.supersedeObjects) : s.object # o
  PROVE  o \in DOMAIN u.objects /\ u.objects[o].state # "rejected"
<1> DEFINE n == Len(Parts(r))
           Here(i) == o \in DOMAIN f[i].objects /\ f[i].objects[o].state # "rejected"
           T == {i \in Nat : Here(i)}
<1>1. Applying(f, t, r) /\ u = f[n] /\ r \in Registries
  BY DEF Ended, Applying
<1>2. n \in Nat
  BY <1>1, CountOfParts
<1>3. 0 \in T
  BY <1>1 DEF Applying
<1>4. ASSUME NEW i \in 1 .. n, 0 < i, i - 1 \in T
      PROVE  i \in T
  <2>1. Here(i - 1)
    BY <1>4
  <2>2. Parts(r)[i].kind = "object" => Parts(r)[i].of.object # o
    BY <1>1, PartKinds
  <2>3. /\ o \in DOMAIN f[i].objects
        /\ f[i].objects[o] = f[i - 1].objects[o] \/ f[i].objects[o].state = "confirmed"
    BY <1>1, <2>1, <2>2, StepOtherObjects
  <2> QED
    BY <1>2, <2>1, <2>3
<1>5. 0 \in 0 .. n /\ n \in 0 .. n /\ 0 <= n
  BY <1>2
<1>6. n \in T
  <2> HIDE DEF T, n
  <2> QED
    BY <1>2, <1>3, <1>4, <1>5, HoldsToTheEnd
<1> QED
  BY <1>1, <1>6

-----------------------------------------------------------------------------
(* Relations when all parts are applied *)

\* Which relations are to some ends.
LEMMA EndsMember ==
  ASSUME NEW from, NEW type, NEW tos, NEW g, NEW kind, NEW to
  PROVE  <<g, kind, to>> \in Ends(from, type, tos) <=> g = from /\ kind = type /\ to \in tos
BY DEF Ends

\* What is current after the part of a Codex project.
LEMMA StepGroupCurrents ==
  ASSUME NEW f, NEW t, NEW r, Applying(f, t, r), NEW i \in 1 .. Len(Parts(r)),
         Parts(r)[i].kind = "codex"
  PROVE  Currents(f[i]) = GroupCurrents(Currents(f[i - 1]), Parts(r)[i].of,
                            Workspaces(t.projects, Parts(r)[i].of),
                            Candidates(t.projects, Parts(r)[i].of, Superseded(r)))
BY StepRegistered DEF GroupRegistered

\* An entry touches no relation that another object has.
LEMMA StepEdge ==
  ASSUME NEW f, NEW t, NEW r, Applying(f, t, r), NEW i \in 1 .. Len(Parts(r)),
         Writes(Parts(r)[i]), NEW g, g # HeadOf(Parts(r)[i]), NEW type, NEW to
  PROVE  <<g, type, to>> \in Currents(f[i]) <=> <<g, type, to>> \in Currents(f[i - 1])
<1> DEFINE part == Parts(r)[i]  e == part.of  edge == <<g, type, to>>
<1>1. CASE part.kind = "codex"
  <2> DEFINE W == Workspaces(t.projects, e)  C == Candidates(t.projects, e, Superseded(r))
             roots == RootObjects(<<"group", e.codex>>, e.roots)
  <2>1. Currents(f[i]) = GroupCurrents(Currents(f[i - 1]), e, W, C)
    BY <1>1, StepGroupCurrents
  <2>2. g # GroupOf(e)
    BY <1>1 DEF HeadOf
  <2>3. /\ edge \notin Ends(GroupOf(e), "HAS_REGISTERED_ROOT", roots)
        /\ edge \notin Ends(GroupOf(e), "MAY_INCLUDE_WORKSPACE", Scopes(W))
        /\ edge \notin Ends(GroupOf(e), "HAS_REGISTERED_WORKSPACE", Scopes(W))
        /\ edge \notin Ends(GroupOf(e), "MAY_INCLUDE_WORKSPACE", Scopes(C))
    BY <2>2, EndsMember
  <2>4. Currents(f[i]) =
          (((Currents(f[i - 1]) \cup Ends(GroupOf(e), "HAS_REGISTERED_ROOT", roots))
             \ Ends(GroupOf(e), "MAY_INCLUDE_WORKSPACE", Scopes(W)))
               \cup Ends(GroupOf(e), "HAS_REGISTERED_WORKSPACE", Scopes(W)))
                 \cup Ends(GroupOf(e), "MAY_INCLUDE_WORKSPACE", Scopes(C))
    BY <2>1 DEF GroupCurrents
  <2> HIDE DEF edge, e, part, W, C, roots
  <2>5. edge \in Currents(f[i]) <=> edge \in Currents(f[i - 1])
    BY <2>3, <2>4
  <2> QED
    BY <2>5 DEF edge
<1>2. CASE part.kind = "independent"
  <2>1. Currents(f[i]) = Currents(f[i - 1]) \cup RegisteredEdges(e)
    BY <1>2, StepIndependent
  <2>2. g # <<"registered", e.source>>
    BY <1>2 DEF HeadOf
  <2>3. edge \notin RegisteredEdges(e)
    BY <2>2, EndsMember DEF RegisteredEdges
  <2> HIDE DEF edge, e, part
  <2>4. edge \in Currents(f[i]) <=> edge \in Currents(f[i - 1])
    BY <2>1, <2>3
  <2> QED
    BY <2>4 DEF edge
<1> QED
  BY <1>1, <1>2 DEF Writes

\* So what an entry leaves current or not current stays so.
LEMMA EdgeInTheEnd ==
  ASSUME NEW f, NEW t, NEW r, NEW u, Ended(f, t, r, u),
         NEW k \in 1 .. Len(Parts(r)), Writes(Parts(r)[k]), NEW type, NEW to
  PROVE  <<HeadOf(Parts(r)[k]), type, to>> \in Currents(u) <=>
           <<HeadOf(Parts(r)[k]), type, to>> \in Currents(f[k])
<1> DEFINE n == Len(Parts(r))  g == HeadOf(Parts(r)[k])
           Same(i) == <<g, type, to>> \in Currents(f[i]) <=> <<g, type, to>> \in Currents(f[k])
           T == {i \in Nat : Same(i)}
<1>1. Applying(f, t, r) /\ u = f[n]
  BY DEF Ended
<1>2. n \in Nat
  BY <1>1, CountOfParts
<1>3. k \in T
  BY <1>2
<1>4. ASSUME NEW i \in 1 .. n, k < i, i - 1 \in T
      PROVE  i \in T
  <2>1. Writes(Parts(r)[i])
    BY <1>1, <1>4, EntriesAfter
  <2>2. g # HeadOf(Parts(r)[i])
    BY <1>4, <2>1, HeadsDiffer
  <2>3. <<g, type, to>> \in Currents(f[i]) <=> <<g, type, to>> \in Currents(f[i - 1])
    BY <1>1, <2>1, <2>2, StepEdge
  <2>4. Same(i - 1)
    BY <1>4
  <2> QED
    BY <1>2, <2>3, <2>4
<1>5. k \in 0 .. n /\ n \in 0 .. n /\ k <= n
  BY <1>2
<1>6. n \in T
  <2> HIDE DEF T, n
  <2> QED
    BY <1>2, <1>3, <1>4, <1>5, HoldsToTheEnd
<1> QED
  BY <1>1, <1>6

\* A Codex project's relations are current in the end, and its workspaces no
\* candidates.
LEMMA GroupEdgesInTheEnd ==
  ASSUME NEW f, NEW t, NEW r, NEW u, Ended(f, t, r, u),
         NEW k \in 1 .. Len(Parts(r)), Parts(r)[k].kind = "codex", NEW e, e = Parts(r)[k].of,
         NEW W, W = Workspaces(t.projects, e),
         NEW C, C = Candidates(t.projects, e, Superseded(r))
  PROVE  /\ GroupEdges(e, W, C) \subseteq Currents(u)
         /\ Ends(GroupOf(e), "MAY_INCLUDE_WORKSPACE", Scopes(W)) \cap Currents(u) = {}
<1> DEFINE g == GroupOf(e)  roots == RootObjects(<<"group", e.codex>>, e.roots)
           after == Currents(f[k])
<1>1. Applying(f, t, r) /\ Writes(Parts(r)[k]) /\ HeadOf(Parts(r)[k]) = g
  BY DEF Ended, Writes, HeadOf
<1>2. after = GroupCurrents(Currents(f[k - 1]), e, W, C)
  BY <1>1, StepGroupCurrents
<1>3. W \cap C = {}
  BY DEF Candidates
<1>4. Scopes(W) \cap Scopes(C) = {}
  BY <1>3 DEF Scopes
<1>5. \A type, to : <<g, type, to>> \in Currents(u) <=> <<g, type, to>> \in after
  BY <1>1, EdgeInTheEnd
<1>6. after = (((Currents(f[k - 1]) \cup Ends(g, "HAS_REGISTERED_ROOT", roots))
                 \ Ends(g, "MAY_INCLUDE_WORKSPACE", Scopes(W)))
                   \cup Ends(g, "HAS_REGISTERED_WORKSPACE", Scopes(W)))
                     \cup Ends(g, "MAY_INCLUDE_WORKSPACE", Scopes(C))
  BY <1>2 DEF GroupCurrents
<1>7. GroupEdges(e, W, C) = (Ends(g, "HAS_REGISTERED_ROOT", roots)
        \cup Ends(g, "HAS_REGISTERED_WORKSPACE", Scopes(W)))
          \cup Ends(g, "MAY_INCLUDE_WORKSPACE", Scopes(C))
  BY DEF GroupEdges
<1> HIDE DEF g, roots, after
<1>8. ASSUME NEW to \in roots
      PROVE  <<g, "HAS_REGISTERED_ROOT", to>> \in Currents(u)
  <2>1. /\ <<g, "HAS_REGISTERED_ROOT", to>> \in Ends(g, "HAS_REGISTERED_ROOT", roots)
        /\ <<g, "HAS_REGISTERED_ROOT", to>> \notin Ends(g, "MAY_INCLUDE_WORKSPACE", Scopes(W))
    BY EndsMember
  <2> QED
    BY <1>5, <1>6, <2>1
<1>9. ASSUME NEW to \in Scopes(W)
      PROVE  <<g, "HAS_REGISTERED_WORKSPACE", to>> \in Currents(u)
  <2>1. <<g, "HAS_REGISTERED_WORKSPACE", to>> \in Ends(g, "HAS_REGISTERED_WORKSPACE", Scopes(W))
    BY EndsMember
  <2> QED
    BY <1>5, <1>6, <2>1
<1>10. ASSUME NEW to \in Scopes(C)
       PROVE  <<g, "MAY_INCLUDE_WORKSPACE", to>> \in Currents(u)
  <2>1. <<g, "MAY_INCLUDE_WORKSPACE", to>> \in Ends(g, "MAY_INCLUDE_WORKSPACE", Scopes(C))
    BY EndsMember
  <2> QED
    BY <1>5, <1>6, <2>1
<1>11. ASSUME NEW to \in Scopes(W)
       PROVE  <<g, "MAY_INCLUDE_WORKSPACE", to>> \notin Currents(u)
  <2>1. /\ <<g, "MAY_INCLUDE_WORKSPACE", to>> \in Ends(g, "MAY_INCLUDE_WORKSPACE", Scopes(W))
        /\ <<g, "MAY_INCLUDE_WORKSPACE", to>> \notin Ends(g, "HAS_REGISTERED_WORKSPACE", Scopes(W))
        /\ <<g, "MAY_INCLUDE_WORKSPACE", to>> \notin Ends(g, "MAY_INCLUDE_WORKSPACE", Scopes(C))
    BY <1>4, EndsMember
  <2> QED
    BY <1>5, <1>6, <2>1
<1>12. GroupEdges(e, W, C) \subseteq Currents(u)
  <2>1. /\ Ends(g, "HAS_REGISTERED_ROOT", roots) \subseteq Currents(u)
        /\ Ends(g, "HAS_REGISTERED_WORKSPACE", Scopes(W)) \subseteq Currents(u)
        /\ Ends(g, "MAY_INCLUDE_WORKSPACE", Scopes(C)) \subseteq Currents(u)
    BY <1>8, <1>9, <1>10 DEF Ends
  <2> QED
    BY <1>7, <2>1
<1>13. Ends(g, "MAY_INCLUDE_WORKSPACE", Scopes(W)) \cap Currents(u) = {}
  BY <1>11 DEF Ends
<1> QED
  BY <1>12, <1>13 DEF g

\* So are the relations of a project outside Codex.
LEMMA RegisteredEdgesInTheEnd ==
  ASSUME NEW f, NEW t, NEW r, NEW u, Ended(f, t, r, u),
         NEW k \in 1 .. Len(Parts(r)), Parts(r)[k].kind = "independent",
         NEW e, e = Parts(r)[k].of
  PROVE  RegisteredEdges(e) \subseteq Currents(u)
<1> DEFINE g == <<"registered", e.source>>  roots == RootObjects(g, e.roots)
<1>1. Applying(f, t, r) /\ Writes(Parts(r)[k]) /\ HeadOf(Parts(r)[k]) = g
  BY DEF Ended, Writes, HeadOf
<1>2. Currents(f[k]) = Currents(f[k - 1]) \cup RegisteredEdges(e)
  BY <1>1, StepIndependent
<1>3. \A type, to : <<g, type, to>> \in Currents(u) <=> <<g, type, to>> \in Currents(f[k])
  BY <1>1, EdgeInTheEnd
<1>4. RegisteredEdges(e) = Ends(g, "HAS_REGISTERED_ROOT", roots)
  BY DEF RegisteredEdges
<1> HIDE DEF g, roots
<1>5. ASSUME NEW to \in roots
      PROVE  <<g, "HAS_REGISTERED_ROOT", to>> \in Currents(u)
  BY <1>2, <1>3, <1>4, EndsMember
<1> QED
  BY <1>4, <1>5 DEF Ends

-----------------------------------------------------------------------------
(* A second apply is planned *)

\* Its rules apply: named projects are the same, what it retires stays retired.
LEMMA RulesInTheEnd ==
  ASSUME NEW f, NEW t, NEW r, NEW u, Ended(f, t, r, u)
  PROVE  RulesApply(u, r)
<1>1. Applying(f, t, r) /\ u = f[Len(Parts(r))] /\ RulesApply(t, r) /\ RetiredStays(t.projects, r)
  BY DEF Ended, Applying, Plannable, Repeatable
<1>2. ASSUME NEW s \in Range(r.supersedeAliases)
      PROVE  /\ Unique(Owners(u.projects, s.owner))
             /\ u.projects[TheOne(Owners(u.projects, s.owner))].aliases[s.alias] # "none"
  <2>1. s.owner \in Named(r)
    BY DEF Named
  <2>2. Owners(u.projects, s.owner) = Owners(t.projects, s.owner)
    BY <2>1, OwnersInTheEnd
  <2>3. u.projects[OwnerOf(t, s)].aliases[s.alias] = "rejected"
    BY <1>1, RejectedInTheEnd
  <2>4. Unique(Owners(t.projects, s.owner))
    BY <1>1 DEF RulesApply
  <2> QED
    BY <2>2, <2>3, <2>4 DEF OwnerOf
<1>3. \A s \in Range(r.standalone) : Owners(u.projects, s.owner) = Owners(t.projects, s.owner)
  <2> SUFFICES ASSUME NEW s \in Range(r.standalone)
               PROVE  Owners(u.projects, s.owner) = Owners(t.projects, s.owner)
    OBVIOUS
  <2>1. s.owner \in Named(r)
    BY DEF Named
  <2> QED
    BY <2>1, OwnersInTheEnd
<1>4. ASSUME NEW s \in Range(r.standalone)
      PROVE  /\ Unique(Owners(u.projects, s.owner))
             /\ \A i \in DOMAIN Entries(r) : s.aliases \cap Entries(r)[i].aliases = {}
  <2>1. /\ Unique(Owners(t.projects, s.owner))
        /\ \A i \in DOMAIN Entries(r) : s.aliases \cap Entries(r)[i].aliases = {}
    BY <1>1 DEF RulesApply
  <2> QED
    BY <1>3, <2>1
<1>5. ASSUME NEW a \in Range(r.standalone), NEW b \in Range(r.standalone),
             a.aliases \cap b.aliases # {}
      PROVE  Owners(u.projects, a.owner) = Owners(u.projects, b.owner)
  <2>1. Owners(t.projects, a.owner) = Owners(t.projects, b.owner)
    BY <1>1, <1>5 DEF RulesApply
  <2> QED
    BY <1>3, <2>1
<1>6. ASSUME NEW s \in Range(r.supersedeObjects)
      PROVE  /\ {s.object, s.by} \subseteq DOMAIN u.objects /\ s.object # s.by
             /\ u.objects[s.by].state # "rejected"
  <2>1. s.object \in DOMAIN u.objects
    BY RetiredInTheEnd
  <2>2. /\ s.by \in DOMAIN t.objects /\ s.object # s.by
        /\ t.objects[s.by].state # "rejected"
    BY <1>1 DEF RulesApply
  <2>3. \A other \in Range(r.supersedeObjects) : other.object # s.by
    BY <1>1 DEF RetiredStays
  <2>4. s.by \in DOMAIN u.objects /\ u.objects[s.by].state # "rejected"
    BY <2>2, <2>3, LiveInTheEnd
  <2> QED
    BY <2>1, <2>2, <2>4
<1> QED
  BY <1>2, <1>4, <1>5, <1>6 DEF RulesApply

\* The part of a Codex project, or of another one.
LEMMA CodexPart ==
  ASSUME NEW r \in Registries, NEW i \in DOMAIN r.projects, NEW k, k = FirstCodex(r) + i
  PROVE  /\ k \in 1 .. Len(Parts(r)) /\ Parts(r)[k].kind = "codex"
         /\ Parts(r)[k].of = r.projects[i] /\ Writes(Parts(r)[k])
<1>1. k \in 1 .. Len(Parts(r)) /\ Parts(r)[k] = Tagged("codex", r.projects[i])
  BY PartsCover
<1> QED
  BY <1>1, TaggedFields DEF Writes

\* The part of a project outside Codex.
LEMMA IndependentPart ==
  ASSUME NEW r \in Registries, NEW i \in DOMAIN r.independents, NEW k,
         k = FirstIndependent(r) + i
  PROVE  /\ k \in 1 .. Len(Parts(r)) /\ Parts(r)[k].kind = "independent"
         /\ Parts(r)[k].of = r.independents[i] /\ Writes(Parts(r)[k])
<1>1. k \in 1 .. Len(Parts(r)) /\ Parts(r)[k] = Tagged("independent", r.independents[i])
  BY PartsCover
<1> QED
  BY <1>1, TaggedFields DEF Writes

\* Codex projects are planned: adopted objects are live, and no row is adopted twice.
LEMMA ProjectsInTheEnd ==
  ASSUME NEW f, NEW t, NEW r, NEW u, Ended(f, t, r, u)
  PROVE  ProjectsPlan(u, r)
<1>1. /\ Applying(f, t, r) /\ u = f[Len(Parts(r))] /\ ProjectsPlan(t, r)
      /\ RetiredStays(t.projects, r) /\ r \in Registries
  BY DEF Ended, Applying, Plannable, Repeatable
<1>2. ASSUME NEW i \in DOMAIN r.projects, NEW e, e = r.projects[i]
      PROVE  /\ e.adopt # {} => Unique(Owners(u.projects, TheOne(e.adopt)))
             /\ e.adoptObject \subseteq {o \in DOMAIN u.objects : u.objects[o].state # "rejected"}
  <2>1. e \in Range(r.projects)
    BY <1>2 DEF Range
  <2>2. ASSUME e.adopt # {}
        PROVE  Unique(Owners(u.projects, TheOne(e.adopt)))
    <3>1. TheOne(e.adopt) \in e.adopt
      BY <2>2 DEF TheOne
    <3>2. TheOne(e.adopt) \in Named(r)
      BY <2>1, <3>1 DEF Named
    <3>3. Owners(u.projects, TheOne(e.adopt)) = Owners(t.projects, TheOne(e.adopt))
      BY <3>2, OwnersInTheEnd
    <3>4. Unique(Owners(t.projects, TheOne(e.adopt)))
      BY <1>1, <1>2, <2>2 DEF ProjectsPlan
    <3> QED
      BY <3>3, <3>4
  <2>3. ASSUME NEW o \in e.adoptObject
        PROVE  o \in DOMAIN u.objects /\ u.objects[o].state # "rejected"
    <3>1. o \in DOMAIN t.objects /\ t.objects[o].state # "rejected"
      BY <1>1, <1>2, <2>3 DEF ProjectsPlan
    <3>2. o \in AdoptedObjects(r)
      BY <2>1, <2>3 DEF AdoptedObjects
    <3>3. \A s \in Range(r.supersedeObjects) : s.object # o
      BY <1>1, <3>2 DEF RetiredStays
    <3> QED
      BY <3>1, <3>3, LiveInTheEnd
  <2> QED
    BY <2>2, <2>3
<1>3. ASSUME NEW i \in DOMAIN r.projects, NEW j \in DOMAIN r.projects, i # j
      PROVE  Adopted(u.projects, r.projects[i]) # Adopted(u.projects, r.projects[j])
  <2> DEFINE a == FirstCodex(r) + i  b == FirstCodex(r) + j
  <2>1. /\ a \in 1 .. Len(Parts(r)) /\ Parts(r)[a].kind = "codex"
        /\ Parts(r)[a].of = r.projects[i] /\ Writes(Parts(r)[a])
    BY <1>1, CodexPart
  <2>2. /\ b \in 1 .. Len(Parts(r)) /\ Parts(r)[b].kind = "codex"
        /\ Parts(r)[b].of = r.projects[j] /\ Writes(Parts(r)[b])
    BY <1>1, CodexPart
  <2>3. a # b
    <3>1. FirstCodex(r) \in Nat /\ DOMAIN r.projects = 1 .. Len(r.projects)
      BY <1>1, PartsInOrder
    <3> QED
      BY <1>3, <3>1
  <2> HIDE DEF a, b
  <2>4. Adopted(u.projects, r.projects[i]) = Place(f, t, r, a)
    BY <2>1, AdoptedInTheEnd
  <2>5. Adopted(u.projects, r.projects[j]) = Place(f, t, r, b)
    BY <2>2, AdoptedInTheEnd
  <2>6. Place(f, t, r, a) # Place(f, t, r, b)
    BY <1>1, <2>1, <2>2, <2>3, AllPlacesDiffer
  <2> QED
    BY <2>4, <2>5, <2>6
<1> QED
  BY <1>2, <1>3 DEF ProjectsPlan

\* A project that an entry is written to was one that entries take over.
LEMMA ClaimedBefore ==
  ASSUME NEW f, NEW t, NEW r, Applying(f, t, r), NEW j \in 1 .. Len(Parts(r)),
         Writes(Parts(r)[j]), NEW p \in DOMAIN t.projects, Place(f, t, r, j) = p
  PROVE  p \in Claimed(t.projects, r)
<1> DEFINE part == Parts(r)[j]
<1>1. Taken(t.projects, part) = p /\ p # NoProject
  BY PlaceTaken
<1>2. \/ part.kind = "codex" /\ part.of \in Range(r.projects)
      \/ part.kind = "independent" /\ part.of \in Range(r.independents)
  BY EntryPart DEF Applying
<1> HIDE DEF part
<1> QED
  BY <1>1, <1>2 DEF Claimed, Taken

\* Projects outside Codex are planned: they share no name with a confirmed project.
LEMMA IndependentsInTheEnd ==
  ASSUME NEW f, NEW t, NEW r, NEW u, Ended(f, t, r, u)
  PROVE  IndependentsPlan(u, r)
<1> DEFINE ps == t.projects  us == u.projects
<1>1. /\ Applying(f, t, r) /\ u = f[Len(Parts(r))] /\ IndependentsPlan(t, r)
      /\ IndependentsApart(ps, r) /\ r \in Registries
  BY DEF Ended, Applying, Plannable, Repeatable
<1>2. ASSUME NEW i \in DOMAIN r.independents, NEW e, e = r.independents[i]
      PROVE  /\ \A j \in DOMAIN r.projects :
                  /\ TargetSource(us, r.projects[j]) # e.source
                  /\ Adopted(us, r.projects[j]) # BySource(us, e.source)
             /\ \A p \in DOMAIN us \ {BySource(us, e.source)} : us[p].status = "confirmed" =>
                  /\ us[p].name \notin e.aliases
                  /\ \A n \in e.aliases : us[p].aliases[n] \notin {"identity", "historical"}
  <2> DEFINE k == FirstIndependent(r) + i  own == BySource(ps, e.source)
  <2>1. /\ k \in 1 .. Len(Parts(r)) /\ Parts(r)[k].kind = "independent"
        /\ Parts(r)[k].of = e /\ Writes(Parts(r)[k])
    BY <1>1, <1>2, IndependentPart
  <2> HIDE DEF k
  <2>2. BySource(us, e.source) = Place(f, t, r, k)
    BY <2>1, BySourceInTheEnd
  <2>3. Taken(ps, Parts(r)[k]) = own
    BY <2>1 DEF Taken
  <2>4. e \in Range(r.independents)
    BY <1>2 DEF Range
  <2>5. ASSUME NEW j \in DOMAIN r.projects
        PROVE  /\ TargetSource(us, r.projects[j]) # e.source
               /\ Adopted(us, r.projects[j]) # BySource(us, e.source)
    <3> DEFINE b == FirstCodex(r) + j
    <3>1. /\ b \in 1 .. Len(Parts(r)) /\ Parts(r)[b].kind = "codex"
          /\ Parts(r)[b].of = r.projects[j] /\ Writes(Parts(r)[b])
      BY <1>1, CodexPart
    <3> HIDE DEF b
    <3>2. TargetSource(us, r.projects[j]) = TargetSource(ps, r.projects[j])
      BY <3>1, TargetInTheEnd
    <3>3. TargetSource(ps, r.projects[j]) # e.source
      BY <1>1, <1>2 DEF IndependentsPlan
    <3>4. Adopted(us, r.projects[j]) = Place(f, t, r, b)
      BY <3>1, AdoptedInTheEnd
    <3>5. b # k
      BY <2>1, <3>1
    <3>6. Place(f, t, r, b) # Place(f, t, r, k)
      BY <1>1, <2>1, <3>1, <3>5, AllPlacesDiffer
    <3> QED
      BY <2>2, <3>2, <3>3, <3>4, <3>6
  <2>6. ASSUME NEW p \in DOMAIN us, p # Place(f, t, r, k), us[p].status = "confirmed"
        PROVE  /\ us[p].name \notin e.aliases
               /\ \A n \in e.aliases : us[p].aliases[n] \notin {"identity", "historical"}
    <3>1. /\ \A n \in e.aliases : us[p].aliases[n] # "identity"
          /\ us[p].name \in e.aliases => p \in DOMAIN ps /\ SameCore(ps[p], us[p])
      BY <2>1, <2>6, OtherNames
    <3>2. p \in DOMAIN ps => p # own
      <4>1. NoProject \notin DOMAIN ps
        BY EndedSound
      <4> QED
        BY <1>1, <2>1, <2>3, <2>6, <4>1, PlaceThere
    <3>3. p \in DOMAIN ps /\ ps[p].status = "confirmed" =>
            /\ ps[p].name \notin e.aliases
            /\ \A n \in e.aliases : ps[p].aliases[n] \notin {"identity", "historical"}
      BY <1>1, <1>2, <3>2 DEF IndependentsPlan
    <3>4. us[p].name \notin e.aliases
      BY <2>6, <3>1, <3>3 DEF SameCore
    <3>5. ASSUME NEW n \in e.aliases, us[p].aliases[n] = "historical"
          PROVE  FALSE
      <4>1. n \in Name
        BY <1>1, <2>1, StepWrites
      <4>2. p \in DOMAIN ps /\ ps[p].aliases[n] = "historical"
        BY <1>1, <2>6, <3>5, <4>1, AliasOrigin
      <4>3. CASE \E j \in 1 .. Len(Parts(r)) : Writes(Parts(r)[j]) /\ Place(f, t, r, j) = p
        <5>1. p \in Claimed(ps, r)
          BY <1>1, <4>2, <4>3, ClaimedBefore
        <5> QED
          BY <1>1, <2>4, <3>2, <4>2, <5>1 DEF IndependentsApart
      <4>4. CASE ~\E j \in 1 .. Len(Parts(r)) : Writes(Parts(r)[j]) /\ Place(f, t, r, j) = p
        <5>1. SameCore(ps[p], us[p])
          BY <1>1, <4>2, <4>4, UnclaimedInTheEnd
        <5> QED
          BY <2>6, <3>3, <4>2, <5>1 DEF SameCore
      <4> QED
        BY <4>3, <4>4
    <3> QED
      BY <3>1, <3>4, <3>5
  <2> HIDE DEF us, ps, own
  <2> QED
    BY <2>2, <2>5, <2>6
<1> QED
  BY <1>2 DEF IndependentsPlan

\* So the whole registry is.
LEMMA PlannedAgain ==
  ASSUME NEW f, NEW t, NEW r, NEW u, Ended(f, t, r, u)
  PROVE  Plannable(u, r)
<1>1. UniqueIdentities(r)
  BY DEF Ended, Applying, Plannable
<1> QED
  BY <1>1, RulesInTheEnd, ProjectsInTheEnd, IndependentsInTheEnd DEF Plannable

-----------------------------------------------------------------------------
(* A second apply changes nothing *)

\* A rule about an alias finds it rejected.
LEMMA AliasAgain ==
  ASSUME NEW f, NEW t, NEW r, NEW u, Ended(f, t, r, u),
         NEW s \in Range(r.supersedeAliases), s.alias \in Name
  PROVE  RejectAlias(u, s) = u
<1>1. Applying(f, t, r) /\ u = f[Len(Parts(r))] /\ u.ok
  BY DEF Ended
<1>2. SoundTables(u) /\ DOMAIN t.projects \subseteq DOMAIN u.projects
  BY EndedSound
<1>3. s.owner \in Named(r)
  BY DEF Named
<1>4. OwnerOf(t, s) = TheOne(Owners(u.projects, s.owner))
  BY <1>3, OwnersInTheEnd DEF OwnerOf
<1>5. /\ OwnerOf(t, s) \in DOMAIN u.projects
      /\ u.projects[OwnerOf(t, s)].aliases[s.alias] = "rejected"
  BY <1>1, <1>2, RejectedInTheEnd
<1> QED
  BY <1>1, <1>2, <1>4, <1>5, AliasRejectedThere

\* A rule about identities finds them there.
LEMMA StandaloneAgain ==
  ASSUME NEW f, NEW t, NEW r, NEW u, Ended(f, t, r, u), NEW s \in Range(r.standalone)
  PROVE  WithIdentities(u, TheOne(Owners(u.projects, s.owner)), s.aliases) = u
<1>1. Applying(f, t, r) /\ u = f[Len(Parts(r))] /\ u.ok /\ RulesApply(t, r)
  BY DEF Ended, Applying, Plannable
<1>2. SoundTables(u) /\ DOMAIN t.projects \subseteq DOMAIN u.projects
  BY EndedSound
<1>3. s.owner \in Named(r)
  BY DEF Named
<1>4. OwnerOf(t, s) = TheOne(Owners(u.projects, s.owner))
  BY <1>3, OwnersInTheEnd DEF OwnerOf
<1>5. OwnerOf(t, s) \in DOMAIN u.projects
  <2>1. Unique(Owners(t.projects, s.owner))
    BY <1>1 DEF RulesApply
  <2> QED
    BY <1>2, <2>1, UniqueIsMember DEF OwnerOf, Owners
<1>6. \A n \in Name : n \in s.aliases => u.projects[OwnerOf(t, s)].aliases[n] = "identity"
  BY <1>1, StandaloneInTheEnd
<1> QED
  BY <1>1, <1>2, <1>4, <1>5, <1>6, IdentitiesThere

\* A Codex project finds its row, its objects and its relations as they would be
\* written.
LEMMA CodexAgain ==
  ASSUME NEW f, NEW t, NEW r, NEW u, Ended(f, t, r, u),
         NEW k \in 1 .. Len(Parts(r)), Parts(r)[k].kind = "codex", NEW e, e = Parts(r)[k].of
  PROVE  RegisterCodex(u, u.projects, e, Superseded(r)) = u
<1> DEFINE p == Place(f, t, r, k)  ps == t.projects  us == u.projects
           W == Workspaces(ps, e)  C == Candidates(ps, e, Superseded(r))
           now == Candidates(us, e, Superseded(r))
<1>1. Applying(f, t, r) /\ u = f[Len(Parts(r))] /\ u.ok /\ Writes(Parts(r)[k])
  BY DEF Ended, Writes
<1>2. SoundTables(u)
  BY EndedSound
<1>3. Adopted(us, e) = p
  BY AdoptedInTheEnd
<1>4. Workspaces(us, e) = W
  BY WorkspacesInTheEnd
<1>5. now \subseteq C
  BY CandidatesInTheEnd
<1>6. p \in DOMAIN us /\ RowOfEntry(us[p], e, TargetSource(us, e), e.codex)
  <2>1. SourceOf(ps, Parts(r)[k]) = TargetSource(ps, e) /\ CodexOf(ps, Parts(r)[k]) = e.codex
    BY DEF SourceOf, CodexOf
  <2>2. TargetSource(us, e) = TargetSource(ps, e)
    BY TargetInTheEnd
  <2>3. /\ p \in DOMAIN us
        /\ RowOfEntry(us[p], e, SourceOf(ps, Parts(r)[k]), CodexOf(ps, Parts(r)[k]))
    BY <1>1, RowInTheEnd
  <2> HIDE DEF p, us, ps
  <2> QED
    BY <2>1, <2>2, <2>3
<1>7. \A o \in GroupObjects(e) : Confirmed(u, o, p)
  BY <1>1, OwnInTheEnd DEF Own
<1>8. \A q \in W \cup C : Confirmed(u, <<"scope", q>>, q)
  BY <1>1, OthersInTheEnd DEF Others
<1>9. /\ GroupEdges(e, W, C) \subseteq Currents(u)
      /\ Ends(GroupOf(e), "MAY_INCLUDE_WORKSPACE", Scopes(W)) \cap Currents(u) = {}
  BY GroupEdgesInTheEnd
<1> HIDE DEF W, C, p
<1>10. GroupEdges(e, W, now) \subseteq GroupEdges(e, W, C)
  <2> HIDE DEF now
  <2>1. Scopes(now) \subseteq Scopes(C)
    BY <1>5 DEF Scopes
  <2>2. Ends(GroupOf(e), "MAY_INCLUDE_WORKSPACE", Scopes(now)) \subseteq
          Ends(GroupOf(e), "MAY_INCLUDE_WORKSPACE", Scopes(C))
    BY <2>1 DEF Ends
  <2> QED
    BY <2>2 DEF GroupEdges
<1>11. \A q \in W \cup now : Confirmed(u, <<"scope", q>>, q)
  BY <1>5, <1>8
<1>12. GroupEdges(e, W, now) \subseteq Currents(u)
  BY <1>9, <1>10
<1> QED
  BY <1>1, <1>2, <1>3, <1>4, <1>6, <1>7, <1>9, <1>11, <1>12, RegisterCodexAgain

\* So does a project outside Codex.
LEMMA IndependentAgain ==
  ASSUME NEW f, NEW t, NEW r, NEW u, Ended(f, t, r, u),
         NEW k \in 1 .. Len(Parts(r)), Parts(r)[k].kind = "independent",
         NEW e, e = Parts(r)[k].of
  PROVE  RegisterIndependent(u, u.projects, e) = u
<1> DEFINE p == Place(f, t, r, k)  us == u.projects
<1>1. Applying(f, t, r) /\ u = f[Len(Parts(r))] /\ u.ok /\ Writes(Parts(r)[k])
  BY DEF Ended, Writes
<1>2. SoundTables(u)
  BY EndedSound
<1>3. BySource(us, e.source) = p
  BY BySourceInTheEnd
<1>4. p \in DOMAIN us /\ RowOfEntry(us[p], e, e.source, us[p].codex)
  <2>1. SourceOf(t.projects, Parts(r)[k]) = e.source
    BY DEF SourceOf
  <2>2. /\ p \in DOMAIN us
        /\ RowOfEntry(us[p], e, SourceOf(t.projects, Parts(r)[k]), CodexOf(t.projects, Parts(r)[k]))
    BY <1>1, RowInTheEnd
  <2> HIDE DEF p, us
  <2> QED
    BY <2>1, <2>2 DEF RowOfEntry
<1>5. \A o \in RegisteredObjects(e) : Confirmed(u, o, p)
  BY <1>1, OwnInTheEnd DEF Own
<1>6. RegisteredEdges(e) \subseteq Currents(u)
  BY RegisteredEdgesInTheEnd
<1> HIDE DEF p
<1> QED
  BY <1>1, <1>2, <1>3, <1>4, <1>5, <1>6, RegisterIndependentAgain

\* No part changes anything.
LEMMA PartAgain ==
  ASSUME NEW f, NEW t, NEW r, NEW u, Ended(f, t, r, u), NEW k \in 1 .. Len(Parts(r))
  PROVE  Applied(u, u.projects, r, Parts(r)[k]) = u
<1> DEFINE part == Parts(r)[k]
<1>1. r \in Registries
  BY EndedSound
<1>2. CASE part.kind = "alias" /\ part.of \in Range(r.supersedeAliases)
             /\ part.of \in [owner : Uri, alias : Name, by : Codex]
  BY <1>2, AliasAgain DEF Applied
<1>3. CASE part.kind = "object" /\ part.of \in Range(r.supersedeObjects)
  <2>1. SoundTables(u)
    BY EndedSound
  <2>2. part.of.object \in DOMAIN u.objects /\ u.objects[part.of.object].state = "rejected"
    BY <1>3, RetiredInTheEnd
  <2>3. RejectObject(u, part.of) = u
    BY <2>1, <2>2, ObjectRejectedThere
  <2> QED
    BY <1>3, <2>3 DEF Applied
<1>4. CASE part.kind = "standalone" /\ part.of \in Range(r.standalone)
  BY <1>4, StandaloneAgain DEF Applied
<1>5. CASE part.kind = "codex"
  BY <1>5, CodexAgain DEF Applied
<1>6. CASE part.kind = "independent"
  BY <1>6, IndependentAgain DEF Applied
<1> QED
  BY <1>1, <1>2, <1>3, <1>4, <1>5, <1>6, PartKinds

\* So all of them change nothing.
LEMMA AppliedAgain ==
  ASSUME NEW f, NEW t, NEW r, NEW u, Ended(f, t, r, u)
  PROVE  AllApplied(u, r) = u
<1> DEFINE n == Len(Parts(r))
<1>1. n \in Nat
  BY CountOfParts DEF Ended
<1>2. PICK g : Trace(g, u, r, n) /\ AllApplied(u, r) = g[n]
  BY <1>1, AllAppliedIsTraced
<1> HIDE DEF n
<1>3. /\ g[0] = u
      /\ \A i \in 1 .. n : g[i] = Applied(g[i - 1], u.projects, r, Parts(r)[i])
  BY <1>1, <1>2 DEF Trace
<1> DEFINE T == {i \in Nat : i <= n => g[i] = u}
<1>4. 0 \in T
  BY <1>3
<1>5. ASSUME NEW i \in Nat, i \in T
      PROVE  i + 1 \in T
  <2> SUFFICES ASSUME i + 1 <= n
               PROVE  g[i + 1] = u
    OBVIOUS
  <2>1. i + 1 \in 1 .. n /\ (i + 1) - 1 = i /\ i <= n
    BY <1>1
  <2>2. g[i] = u
    BY <1>5, <2>1
  <2>3. g[i + 1] = Applied(g[i], u.projects, r, Parts(r)[i + 1])
    BY <1>3, <2>1
  <2>4. Applied(u, u.projects, r, Parts(r)[i + 1]) = u
    BY <2>1, PartAgain DEF n
  <2> QED
    BY <2>2, <2>3, <2>4
<1>6. \A i \in Nat : i \in T
  <2> HIDE DEF T
  <2> QED
    BY <1>4, <1>5, SetInduction
<1>7. n \in T
  BY <1>1, <1>6
<1> QED
  BY <1>1, <1>2, <1>7

\* A registry that may be repeated is planned again and changes nothing.
LEMMA ReconciledAgain ==
  ASSUME NEW t, SoundTables(t), NEW r \in Registries, NamedEntries(r), Plannable(t, r),
         Repeatable(t, r), NEW u, u = AllApplied(t, r), u.ok
  PROVE  Plannable(u, r) /\ Reconciled(u, r) = u
<1>1. PICK f : Applying(f, t, r) /\ AllApplied(t, r) = f[Len(Parts(r))]
  BY ApplyTraced
<1>2. Ended(f, t, r, u)
  BY <1>1 DEF Ended
<1>3. Plannable(u, r)
  BY <1>2, PlannedAgain
<1>4. AllApplied(u, r) = u
  BY <1>2, AppliedAgain
<1> QED
  BY <1>3, <1>4 DEF Reconciled

\* A registry that is read has for each of its projects a name, which is one of its
\* aliases.
LEMMA RegistryIsNamed ==
  ASSUME NEW input \in Input, NEW present
  PROVE  NamedEntries(Registry(input, present))
<1> DEFINE r == Registry(input, present)
           Project(i) == Discovered(input.projects[i].entry, input.projects[i].override, present)
           Independent(i) == Listed(input.independents[i], present)
           projects == [i \in DOMAIN input.projects |-> Project(i)]
           independents == [i \in DOMAIN input.independents |-> Independent(i)]
<1>1. r = [input EXCEPT !.projects = projects, !.independents = independents]
  BY DEF Registry
<1>2. ASSUME NEW i \in DOMAIN input.projects
      PROVE  Project(i).name \in Project(i).aliases
  BY DEF Discovered
<1>3. ASSUME NEW i \in DOMAIN input.independents
      PROVE  Independent(i).name \in Independent(i).aliases
  <2> DEFINE Item == [name : Name, source : Uri, aliases : SUBSET Name, roots : SUBSET Root]
  <2>1. input.independents \in Seq(Item)
    BY DEF Input
  <2>2. input.independents[i] \in Item
    <3> HIDE DEF Item
    <3> QED
      BY <2>1
  <2> QED
    BY <2>2 DEF Listed
<1>4. /\ DOMAIN projects = DOMAIN input.projects
      /\ \A i \in DOMAIN projects : projects[i] = Project(i)
      /\ DOMAIN independents = DOMAIN input.independents
      /\ \A i \in DOMAIN independents : independents[i] = Independent(i)
  OBVIOUS
<1> HIDE DEF projects, independents, Project, Independent
<1>5. r.projects = projects /\ r.independents = independents
  BY <1>1 DEF Input
<1> QED
  BY <1>2, <1>3, <1>4, <1>5 DEF NamedEntries
==============================================================================
