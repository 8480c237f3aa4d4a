------------------------- MODULE MCProjectRegistry -------------------------
(* ProjectRegistry on small instances, for TLC. *)
EXTENDS ProjectRegistry

CONSTANTS c1, c2, s1, na, nb, nc, none

r1 == <<"file", "r1">>
r2 == <<"file", "r2">>
home == <<"file", "home">>
product == <<"product", "c">>
old == <<"object", "old">>
group == <<"object", "group">>

MCRoots == {r1, r2, home}
MCDisks == {{r1}, MCRoots}
MCUris == MCRoots \cup {product, CodexUri(c1), CodexUri(c2)}
MCNamed == {old, group, <<"group", c1>>}

\* Two legacy projects of one name in two directories; each has a root object.
MCProjects == <<Blank(na, r1), Blank(na, r2)>>
MCDistinct == <<Blank(na, r1), Blank(nb, r2)>>
MCObjects ==
  [o \in {old, group} |->
     [state |-> "confirmed", project |-> IF o = old THEN 2 ELSE 1]]

Plain == [name |-> {}, aliases |-> {}, roots |-> {}, adopt |-> {}, adoptObject |-> {},
          replace |-> FALSE]
NoRules == [projects |-> <<>>, independents |-> <<>>, supersedeAliases |-> <<>>,
            supersedeObjects |-> <<>>, standalone |-> <<>>]
Entry(c, n, roots) == [codex |-> c, name |-> n, roots |-> roots]

\* Codex alone: a directory adopted, the other project a candidate or (both
\* directories in one project) a workspace of a new one.
OneRoot == [NoRules EXCEPT !.projects = <<[entry |-> Entry(c1, na, {r1, home}),
                                           override |-> Plain]>>]
TwoRoots == [NoRules EXCEPT
  !.projects = <<[entry |-> Entry(c1, nb, {r1, r2}), override |-> Plain],
                 [entry |-> Entry(c2, na, {}), override |-> Plain]>>]

\* An operator's manifest: adopts, renames, replaces the source, supersedes an
\* alias and an object, and registers what Codex does not know.
Approved == [NoRules EXCEPT
  !.projects = <<[entry |-> Entry(c1, na, {r1}),
                  override |-> [Plain EXCEPT !.name = {nb}, !.adopt = {r1}, !.replace = TRUE,
                                             !.adoptObject = {group}]]>>,
  !.supersedeAliases = <<[owner |-> r2, alias |-> na, by |-> c1]>>,
  !.supersedeObjects = <<[object |-> old, by |-> group]>>,
  !.independents = <<[name |-> nc, source |-> product, aliases |-> {}, roots |-> {r2}]>>]
Standalone == [NoRules EXCEPT !.standalone = <<[owner |-> r2, aliases |-> {nc}]>>]
Retired == [NoRules EXCEPT
  !.supersedeObjects = <<[object |-> <<"group", c1>>, by |-> group]>>]

\* A manifest that retires what it makes: not one that may be applied again.
Renewed == [OneRoot EXCEPT !.supersedeObjects = Retired.supersedeObjects]

MCInputs == {OneRoot, TwoRoots, Approved, Standalone, Retired, Renewed}

Merge(from, to, canonical, n) ==
  [action |-> "merge", source |-> from, match |-> to, canonical |-> canonical,
   name |-> n, aliases |-> {na}, sessions |-> {s1}]
Archive(from) == [action |-> "archive", source |-> from]

MCManifests ==
  {<<Merge(r2, r1, {}, na)>>,
   <<Archive(CodexUri(c2)), Merge(r2, CodexUri(c1), {}, nb)>>,
   <<Merge(r1, r2, {product}, na)>>,
   <<Merge(r2, r1, {}, na), Merge(r1, r2, {}, nb)>>,
   <<Archive(r2)>>}

MCRequests ==
  {[hint |-> none, root |-> r1, repository |-> none, bootstrap |-> TRUE],
   [hint |-> na, root |-> r2, repository |-> none, bootstrap |-> FALSE]}

\* An agent confirms or retracts what the registry has as a candidate, or relates
\* what a manifest retires.
Claim(op, from, type, to, state) ==
  [op |-> op, from |-> from, type |-> type, to |-> to, state |-> state]
MCClaims ==
  {Claim(op, <<"group", c1>>, "MAY_INCLUDE_WORKSPACE", <<"scope", 2>>, "confirmed") :
     op \in {"assert", "retract"}}
  \cup {Claim("assert", <<"group", c1>>, "HAS_REGISTERED_ROOT", old, "candidate")}
=============================================================================
