---------------------------- MODULE ProjectTables ----------------------------
(***************************************************************************)
(* The tables that say what a project is: projects with their aliases,     *)
(* objects and relations.  Names resolve to projects; a registry, made of  *)
(* Codex's own state and an operator's manifest, is planned against the    *)
(* tables and applied to them.  Everything here is a function of the       *)
(* tables; ProjectRegistry says who applies what, and when.                *)
(***************************************************************************)
EXTENDS Integers, Sequences, FiniteSets, Functions

CONSTANTS
  Name,       \* normalized names and aliases of projects
  Codex,      \* Codex's ids of its projects
  NoCodex,    \* NULL
  Root,       \* directories; a root is identified with its file URI
  Home,       \* the operator's home, which is never a root
  Uri,        \* what a project's source may be
  Object      \* objects that a manifest may name

NoProject == 0        \* a row of projects is its index, and NULL is none

CodexUri(c) == <<"codex-project", c>>

ASSUME TablesAssumption ==
  /\ NoCodex \notin Codex
  /\ Home \in Root /\ Root \subseteq Uri
  /\ \A c \in Codex : CodexUri(c) \in Uri \ Root

\* The tables.  An alias is confirmed as a canonical identity, confirmed
\* otherwise (historical), rejected, or absent; "old" are the URIs that the
\* row's metadata keeps as superseded.
Row == [name : Name, source : Uri, status : {"confirmed", "archived"},
        codex : Codex \cup {NoCodex}, old : SUBSET Uri,
        aliases : [Name -> {"none", "historical", "identity", "rejected"}]]

Blank(name, source) ==
  [name |-> name, source |-> source, status |-> "confirmed", codex |-> NoCodex,
   old |-> {}, aliases |-> [n \in Name |-> IF n = name THEN "historical" ELSE "none"]]

TheOne(S) == CHOOSE x \in S : TRUE
Unique(S) == Cardinality(S) = 1

-----------------------------------------------------------------------------
(* resolveProjectIdentity *)

\* The tier in which row r answers to hint h; 99 if it does not.
Tier(r, h) ==
  IF r.source = h THEN 0
  ELSE IF h \notin Name THEN 99
  ELSE IF r.aliases[h] = "identity" THEN 1
  ELSE IF r.name = h THEN 2
  ELSE IF r.aliases[h] = "historical" THEN 3
  ELSE 99

\* The confirmed project in the best tier that has any, if it is alone there.
Resolve(ps, h) ==
  LET found == {p \in DOMAIN ps : ps[p].status = "confirmed" /\ Tier(ps[p], h) < 99}
      best == {p \in found : \A q \in found : Tier(ps[p], h) <= Tier(ps[q], h)} IN
  IF Unique(best) THEN TheOne(best) ELSE NoProject

-----------------------------------------------------------------------------
(* loadCodexRegistry *)

\* What Codex's state and an operator's manifest may say.
Input ==
  [projects : Seq([entry : [codex : Codex, name : Name, roots : SUBSET Root],
                   override : [name : SUBSET Name, aliases : SUBSET Name,
                               roots : SUBSET Root, adopt : SUBSET Uri,
                               adoptObject : SUBSET Object, replace : BOOLEAN]]),
   independents : Seq([name : Name, source : Uri, aliases : SUBSET Name,
                       roots : SUBSET Root]),
   supersedeAliases : Seq([owner : Uri, alias : Name, by : Codex]),
   supersedeObjects : Seq([object : Object, by : Object]),
   standalone : Seq([owner : Uri, aliases : SUBSET Name])]

\* What is read from Codex's state, one entry of it, under the manifest's override.
Discovered(entry, override, present) ==
  LET name == IF override.name = {} THEN entry.name ELSE TheOne(override.name) IN
  [codex |-> entry.codex, name |-> name,
   aliases |-> {name, entry.name} \cup override.aliases,
   roots |-> ((entry.roots \cup override.roots) \ {Home}) \cap present,
   adopt |-> override.adopt, adoptObject |-> override.adoptObject,
   replace |-> override.replace]

\* What the manifest lists beside them.
Listed(entry, present) ==
  [entry EXCEPT !.aliases = @ \cup {entry.name}, !.roots = (@ \ {Home}) \cap present]

\* A registry: the input's projects with the roots that exist.
Registry(input, present) ==
  LET codex == input.projects  listed == input.independents IN
  [input EXCEPT
     !.projects = [i \in DOMAIN codex |->
                     Discovered(codex[i].entry, codex[i].override, present)],
     !.independents = [i \in DOMAIN listed |-> Listed(listed[i], present)]]

Entries(r) == r.projects \o r.independents

\* Identities and roots have one owner each.
UniqueIdentities(r) ==
  /\ \A i, j \in DOMAIN Entries(r) : i # j =>
       /\ Entries(r)[i].aliases \cap Entries(r)[j].aliases = {}
       /\ Entries(r)[i].roots \cap Entries(r)[j].roots = {}
  /\ \A i, j \in DOMAIN r.independents : i # j =>
       r.independents[i].source # r.independents[j].source

-----------------------------------------------------------------------------
(* planCodexRegistry *)

\* (Mutant of Owners: superseded URIs are forgotten.)
OwnersBySource(ps, u) == {p \in DOMAIN ps : ps[p].source = u}

Owners(ps, u) == {p \in DOMAIN ps : ps[p].source = u \/ u \in ps[p].old}

\* selectAdoption: by the manifest, by Codex's id, by the URI made of it, by a
\* root whose project is not another Codex project's.
Adopted(ps, e) ==
  LET explicit == IF e.adopt = {} THEN {} ELSE Owners(ps, TheOne(e.adopt))
      byCodexId == {p \in DOMAIN ps : ps[p].codex = e.codex}
      byCodexUri == {p \in DOMAIN ps : ps[p].source = CodexUri(e.codex)}
      byRoot == {p \in DOMAIN ps : /\ ps[p].source \in e.roots
                                   /\ ps[p].codex \in {NoCodex, e.codex}} IN
  CASE Unique(explicit)   -> TheOne(explicit)
    [] ~Unique(explicit) /\ Unique(byCodexId) -> TheOne(byCodexId)
    [] ~Unique(explicit) /\ byCodexId = {} /\ Unique(byCodexUri) -> TheOne(byCodexUri)
    [] ~Unique(explicit) /\ byCodexId = {} /\ byCodexUri = {} /\ Unique(byRoot) -> TheOne(byRoot)
    [] OTHER -> NoProject

\* Other projects at one of its roots ...
Workspaces(ps, e) ==
  {p \in DOMAIN ps : p # Adopted(ps, e) /\ ps[p].source \in e.roots}

\* ... and others of the same name, which are only candidates.
Candidates(ps, e, superseded) ==
  {p \in DOMAIN ps \ (Workspaces(ps, e) \cup {Adopted(ps, e)}) :
     \/ ps[p].name \in e.aliases
     \/ \E n \in e.aliases : /\ ps[p].aliases[n] \in {"identity", "historical"}
                             /\ <<ps[p].source, n>> \notin superseded}

Superseded(r) == {<<s.owner, s.alias>> : s \in Range(r.supersedeAliases)}

TargetSource(ps, e) ==
  IF e.replace \/ Adopted(ps, e) = NoProject THEN CodexUri(e.codex)
  ELSE ps[Adopted(ps, e)].source

BySource(ps, u) ==
  LET found == {p \in DOMAIN ps : ps[p].source = u} IN
  IF found = {} THEN NoProject ELSE TheOne(found)

RulesApply(t, r) ==
  /\ \A s \in Range(r.supersedeAliases) :
       /\ Unique(Owners(t.projects, s.owner))
       /\ t.projects[TheOne(Owners(t.projects, s.owner))].aliases[s.alias] # "none"
  /\ \A s \in Range(r.standalone) :
       /\ Unique(Owners(t.projects, s.owner))
       /\ \A i \in DOMAIN Entries(r) : s.aliases \cap Entries(r)[i].aliases = {}
  /\ \A a, b \in Range(r.standalone) :
       a.aliases \cap b.aliases # {} => Owners(t.projects, a.owner) = Owners(t.projects, b.owner)
  /\ \A s \in Range(r.supersedeObjects) :
       /\ {s.object, s.by} \subseteq DOMAIN t.objects /\ s.object # s.by
       /\ t.objects[s.by].state # "rejected"

ProjectsPlan(t, r) ==
  /\ \A i \in DOMAIN r.projects :
       LET e == r.projects[i] IN
       /\ e.adopt # {} => Unique(Owners(t.projects, TheOne(e.adopt)))
       /\ e.adoptObject \subseteq {o \in DOMAIN t.objects : t.objects[o].state # "rejected"}
  /\ \A i, j \in DOMAIN r.projects :
       i # j /\ Adopted(t.projects, r.projects[i]) # NoProject =>
         Adopted(t.projects, r.projects[i]) # Adopted(t.projects, r.projects[j])

\* Projects outside Codex never share anything with a confirmed one.
IndependentsPlan(t, r) ==
  LET ps == t.projects IN
  \A i \in DOMAIN r.independents :
    LET e == r.independents[i]  own == BySource(ps, e.source) IN
    /\ \A j \in DOMAIN r.projects :
         /\ TargetSource(ps, r.projects[j]) # e.source
         /\ own # NoProject => Adopted(ps, r.projects[j]) # own
    /\ \A p \in DOMAIN ps \ {own} : ps[p].status = "confirmed" =>
         /\ ps[p].name \notin e.aliases
         /\ \A n \in e.aliases : ps[p].aliases[n] \notin {"identity", "historical"}

Plannable(t, r) ==
  UniqueIdentities(r) /\ RulesApply(t, r) /\ ProjectsPlan(t, r) /\ IndependentsPlan(t, r)

-----------------------------------------------------------------------------
(* The statements of an apply.  A violated unique index fails all of them. *)

\* (Mutant of Indexed: identities are not indexed.)
IndexedSourcesOnly(ps) ==
  \A p, q \in DOMAIN ps : p # q =>
    /\ ps[p].source # ps[q].source
    /\ ps[p].codex = NoCodex \/ ps[p].codex # ps[q].codex

Indexed(ps) ==
  \A p, q \in DOMAIN ps : p # q =>
    /\ ps[p].source # ps[q].source
    /\ ps[p].codex = NoCodex \/ ps[p].codex # ps[q].codex
    /\ \A n \in Name : ~(ps[p].aliases[n] = "identity" /\ ps[q].aliases[n] = "identity")

WithProjects(t, ps) == [t EXCEPT !.projects = ps, !.ok = @ /\ Indexed(ps)]

WithIdentities(t, p, names) ==
  WithProjects(t, [t.projects EXCEPT ![p].aliases =
    [n \in Name |-> IF n \in names THEN "identity" ELSE @[n]]])

RejectAlias(t, s) ==
  WithProjects(t, [t.projects EXCEPT
    ![TheOne(Owners(t.projects, s.owner))].aliases[s.alias] = "rejected"])

\* (Mutant of Touches: only relations that end at the object.)
EndsAt(rel, o) == rel.to = o

Touches(rel, o) == rel.from = o \/ rel.to = o

Close(t, rels) ==
  [t EXCEPT !.relations = (@ \ rels) \cup {[rel EXCEPT !.open = FALSE] : rel \in rels}]

RejectObject(t, s) ==
  LET rejected == [t EXCEPT !.objects[s.object].state = "rejected"] IN
  Close(rejected, {rel \in t.relations : rel.open /\ Touches(rel, s.object)})

\* ensureObject, adoptGroupObject: whatever the row said before.
EnsureObjects(t, project) ==
  [t EXCEPT !.objects = [o \in DOMAIN @ \cup DOMAIN project |->
     IF o \in DOMAIN project THEN [state |-> "confirmed", project |-> project[o]] ELSE @[o]]]

EnsureObject(t, uri, p) == EnsureObjects(t, [o \in {uri} |-> p])

Versions(t, from, type, to) ==
  {rel \in t.relations : rel.from = from /\ rel.type = type /\ rel.to = to}

\* A next version of each relation that has no current one in the state; one in
\* another state, which an agent has asserted, stays current beside it.
EnsureRelations(t, from, type, ends, state) ==
  LET missing == {to \in ends : ~\E rel \in Versions(t, from, type, to) :
                                   rel.open /\ rel.state = state} IN
  [t EXCEPT !.relations = @ \cup
     {[from |-> from, type |-> type, to |-> to, state |-> state, open |-> TRUE,
       version |-> Cardinality(Versions(t, from, type, to)) + 1] : to \in missing}]

\* INSERT or UPDATE of the project of entry e.
SaveProject(t, p, e, target, codex) ==
  IF p = NoProject
    THEN WithProjects(t, Append(t.projects,
           [Blank(e.name, target) EXCEPT !.codex = codex, !.aliases = [n \in Name |-> "none"]]))
    ELSE LET row == t.projects[p] IN
         WithProjects(t, [t.projects EXCEPT ![p] =
           [row EXCEPT !.name = e.name, !.source = target, !.status = "confirmed",
                       !.codex = codex, !.old = @ \cup ({row.source} \ {target})]])

RootObjects(scope, roots) == {<<"root", scope, root>> : root \in roots}

WithRoots(t, p, owner, scope, roots) ==
  LET uris == RootObjects(scope, roots) IN
  EnsureRelations(EnsureObjects(t, [uri \in uris |-> p]),
                  owner, "HAS_REGISTERED_ROOT", uris, "confirmed")

Scopes(projects) == {<<"scope", p>> : p \in projects}

\* The scopes of other projects are their own objects; what was a candidate
\* before is one no longer.
WithScopes(t, projects) == EnsureObjects(t, [uri \in Scopes(projects) |-> uri[2]])

WithWorkspaces(t, group, workspaces) ==
  LET scoped == WithScopes(t, workspaces)
      candidates == {rel \in scoped.relations :
        /\ rel.open /\ rel.from = group /\ rel.type = "MAY_INCLUDE_WORKSPACE"
        /\ rel.to \in Scopes(workspaces) /\ rel.state = "candidate"} IN
  EnsureRelations(Close(scoped, candidates),
                  group, "HAS_REGISTERED_WORKSPACE", Scopes(workspaces), "confirmed")

WithCandidates(t, group, candidates) ==
  EnsureRelations(WithScopes(t, candidates),
                  group, "MAY_INCLUDE_WORKSPACE", Scopes(candidates), "candidate")

\* The object of a Codex project: its own, or one that the manifest has it adopt.
GroupOf(e) == IF e.adoptObject = {} THEN <<"group", e.codex>> ELSE TheOne(e.adoptObject)

\* One Codex project, planned against ps, the projects when the lock was taken.
RegisterCodex(t, ps, e, superseded) ==
  LET adopted == Adopted(ps, e)
      p == IF adopted = NoProject THEN Len(t.projects) + 1 ELSE adopted
      group == GroupOf(e)
      saved == SaveProject(t, adopted, e, TargetSource(ps, e), e.codex)
      owned == EnsureObject(WithIdentities(saved, p, e.aliases), group, p)
      rooted == WithRoots(owned, p, group, <<"group", e.codex>>, e.roots) IN
  WithCandidates(WithWorkspaces(rooted, group, Workspaces(ps, e)),
                 group, Candidates(ps, e, superseded))

RegisterIndependent(t, ps, e) ==
  LET own == BySource(ps, e.source)
      p == IF own = NoProject THEN Len(t.projects) + 1 ELSE own
      scope == <<"registered", e.source>>
      saved == SaveProject(t, own, e, e.source,
                           IF own = NoProject THEN NoCodex ELSE ps[own].codex) IN
  WithRoots(EnsureObject(WithIdentities(saved, p, e.aliases), scope, p), p, scope, scope, e.roots)

\* The parts of an apply in their order: the manifest's rules, then Codex's
\* projects, then the others.
Each(kind, rules) == [i \in DOMAIN rules |-> [kind |-> kind, of |-> rules[i]]]

Parts(r) ==
  Each("alias", r.supersedeAliases) \o Each("object", r.supersedeObjects) \o
  Each("standalone", r.standalone) \o Each("codex", r.projects) \o
  Each("independent", r.independents)

Applied(t, ps, r, part) ==
  CASE part.kind = "alias"       -> RejectAlias(t, part.of)
    [] part.kind = "object"      -> RejectObject(t, part.of)
    [] part.kind = "standalone"  -> WithIdentities(t, TheOne(Owners(ps, part.of.owner)),
                                                   part.of.aliases)
    [] part.kind = "codex"       -> RegisterCodex(t, ps, part.of, Superseded(r))
    [] part.kind = "independent" -> RegisterIndependent(t, ps, part.of)

\* The tables after all of them, each applied to what the one before has left.
AllApplied(t, r) ==
  LET after[i \in 0 .. Len(Parts(r))] ==
        IF i = 0 THEN t ELSE Applied(after[i - 1], t.projects, r, Parts(r)[i]) IN
  after[Len(Parts(r))]

\* (Mutant of Accepted: the error of a statement is swallowed.)
AcceptedAnyway(t, r) == TRUE

\* Whether the transaction commits.
Accepted(t, r) ==
  /\ t.ok
  /\ \A s \in Range(r.supersedeAliases) : \E e \in Range(r.projects) : e.codex = s.by

\* reconcileCodexRegistry with --apply.  A plan that throws, a violated index
\* and an alias superseded by nobody registered leave the tables as they were.
Reconciled(t, r) ==
  IF Plannable(t, r) /\ Accepted(AllApplied(t, r), r) THEN AllApplied(t, r) ELSE t

-----------------------------------------------------------------------------
(* What agents record meanwhile *)

\* ensureObject of the activity repository: a new object gets the project of the
\* session, an old one keeps its, and confirmed is never taken back.
Mention(t, ends, state, p) ==
  [t EXCEPT !.objects = [o \in DOMAIN @ \cup ends |->
     IF o \notin DOMAIN @ THEN [state |-> state, project |-> p]
     ELSE IF o \notin ends THEN @[o]
     ELSE [state |-> IF state = "confirmed" THEN state ELSE @[o].state,
           project |-> IF @[o].project = NoProject THEN p ELSE @[o].project]]]

OpenVersions(t, c) == {rel \in Versions(t, c.from, c.type, c.to) : rel.open}

Newest(rels) == {a \in rels : \A b \in rels : b.version <= a.version}

\* The newest open version is asserted again, or there is a next one.
Assert(t, c) ==
  LET newest == Newest(OpenVersions(t, c)) IN
  IF OpenVersions(t, c) = {}
    THEN EnsureRelations(t, c.from, c.type, {c.to}, c.state)
    ELSE [t EXCEPT !.relations = (@ \ newest) \cup
            {[rel EXCEPT !.state = IF @ = "confirmed" THEN @ ELSE c.state] : rel \in newest}]

\* applyRelationEffect (see OntologyWriteback), in a session of project p.
ApplyEffect(t, c, p) ==
  LET mentioned == Mention(t, {c.from, c.to}, c.state, p) IN
  IF c.op = "retract" THEN Close(mentioned, OpenVersions(mentioned, c)) ELSE Assert(mentioned, c)

-----------------------------------------------------------------------------
(* When a registry may be applied again *)

\* The projects that its entries take over.
Claimed(ps, r) ==
  ({Adopted(ps, e) : e \in Range(r.projects)} \cup
   {BySource(ps, e.source) : e \in Range(r.independents)}) \ {NoProject}

\* A URI that the manifest names a project by is not given to another project.
Named(r) ==
  {s.owner : s \in Range(r.supersedeAliases)} \cup {s.owner : s \in Range(r.standalone)}
    \cup UNION {e.adopt : e \in Range(r.projects)}

NamesStay(ps, r) ==
  /\ \A e \in Range(r.projects) :
       TargetSource(ps, e) \in Named(r) => Adopted(ps, e) \in Owners(ps, TargetSource(ps, e))
  /\ \A e \in Range(r.independents) : e.source \in Named(r) => BySource(ps, e.source) # NoProject

\* A directory of a Codex project is not the source that another project gets or
\* gives up.
RootsStay(ps, r) ==
  \A i \in DOMAIN r.projects :
    /\ \A j \in DOMAIN r.projects \ {i} :
         LET q == Adopted(ps, r.projects[j]) IN
         q # NoProject /\ ps[q].source \in r.projects[i].roots =>
           TargetSource(ps, r.projects[j]) = ps[q].source
    /\ \A e \in Range(r.independents) :
         e.source \in r.projects[i].roots => BySource(ps, e.source) # NoProject

\* The objects that an apply makes for itself, and those it is told to adopt.
MadeFor(ps, r, e) ==
  (IF e.adoptObject = {} THEN {GroupOf(e)} ELSE {})
    \cup RootObjects(<<"group", e.codex>>, e.roots)
    \cup Scopes(Workspaces(ps, e) \cup Candidates(ps, e, Superseded(r)))

RegisteredObjects(e) ==
  {<<"registered", e.source>>} \cup RootObjects(<<"registered", e.source>>, e.roots)

Made(ps, r) ==
  (UNION {MadeFor(ps, r, e) : e \in Range(r.projects)})
    \cup (UNION {RegisteredObjects(e) : e \in Range(r.independents)})

AdoptedObjects(r) == UNION {e.adoptObject : e \in Range(r.projects)}

\* An adopted object is adopted once, and is none that the apply makes.
ObjectsApart(ps, r) ==
  /\ AdoptedObjects(r) \cap Made(ps, r) = {}
  /\ \A i, j \in DOMAIN r.projects :
       i # j => r.projects[i].adoptObject \cap r.projects[j].adoptObject = {}

\* The manifest registers nothing that it retires, and replaces nothing by what it
\* retires.
RetiredStays(ps, r) ==
  /\ \A s \in Range(r.supersedeObjects) :
       /\ s.object \notin Made(ps, r) \cup AdoptedObjects(r)
       /\ \A other \in Range(r.supersedeObjects) : other.by # s.object
  /\ \A s \in Range(r.supersedeAliases) :
       LET p == TheOne(Owners(ps, s.owner)) IN
       /\ \A e \in Range(r.projects) : Adopted(ps, e) = p => s.alias \notin e.aliases
       /\ \A e \in Range(r.independents) : BySource(ps, e.source) = p => s.alias \notin e.aliases
       /\ \A x \in Range(r.standalone) :
            TheOne(Owners(ps, x.owner)) = p => s.alias \notin x.aliases

\* What is taken over, archived or not, has no name of a project outside Codex.
IndependentsApart(ps, r) ==
  \A e \in Range(r.independents) :
    \A p \in Claimed(ps, r) \ {BySource(ps, e.source)} : \A n \in e.aliases :
      ps[p].aliases[n] \notin {"identity", "historical"}

Repeatable(t, r) ==
  LET ps == t.projects IN
  /\ NamesStay(ps, r) /\ RootsStay(ps, r) /\ ObjectsApart(ps, r)
  /\ RetiredStays(ps, r) /\ IndependentsApart(ps, r)
==============================================================================
