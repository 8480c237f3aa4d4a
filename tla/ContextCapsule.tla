--------------------------- MODULE ContextCapsule ---------------------------
(***************************************************************************)
(* What a capsule is made of: the stages of a retrieval plan, what the     *)
(* adapters may find in each, and how the candidates are deduplicated,     *)
(* ranked and packed into the budget.  Which words an intention has, and   *)
(* how they score a piece of evidence, is left open.                       *)
(***************************************************************************)
EXTENDS Integers, FiniteSets, SequencesExt

CONSTANTS
  Project, NoProject,   \* projects, and no project (NULL)
  Policy,               \* rows of retrieval_policies; they belong to PolicyProject
  PolicyProject,
  PolicyUri,            \* the source_uri of each
  Source,               \* what the codebase adapters can find; each names its own project
  SourceProject,
  Ask                   \* resolve requests
ASSUME CapsuleAssumption ==
  /\ NoProject \notin Project /\ PolicyProject \in Project
  /\ SourceProject \in [Source -> Project]
  /\ Policy \cap Source = {} /\ IsFiniteSet(Policy) /\ IsFiniteSet(Source)
  /\ Ask \subseteq [hint: Project \cup {NoProject}, highRisk: BOOLEAN, code: BOOLEAN, budget: Nat]

\* buildRetrievalBlueprint
Stages(ask) ==
  <<"ontology-locate">>
    \o (IF ask.highRisk THEN <<"ontology-policy">> ELSE <<>>)
    \o (IF ask.code THEN <<"codebase-source">> ELSE <<>>)

-----------------------------------------------------------------------------
(* What the adapters find *)

\* searchPolicies: locating lists the policies without their instructions.
References(project, policy) ==
  {[id |-> q, uri |-> PolicyUri[q], stage |-> "ontology-locate", tokens |-> 1] :
     q \in {q \in Policy : project = PolicyProject /\ policy[q] # "rejected"}}

Instructions(project, policy) ==
  {[id |-> q, uri |-> PolicyUri[q], stage |-> "ontology-policy", tokens |-> 2] :
     q \in {q \in Policy : project = PolicyProject /\ policy[q] = "confirmed"}}

\* A live adapter may answer from other projects, a snapshot is selected by
\* project; without one both go by words.
SourceItems(found) ==
  {[id |-> s, uri |-> s, stage |-> "codebase-source", tokens |-> 1] : s \in found}
OfProject(project) == {s \in Source : project \in {NoProject, SourceProject[s]}}

\* The outcomes of a stage: its status, what it found, and how much of it the
\* resolver counts.  Live adapters go before the snapshot, which is asked when
\* none of them answered; what belongs to another project is left out after
\* it has been counted.
Outcome(status, evidence, count) == [status |-> status, evidence |-> evidence, count |-> count]

StageOutcomes(stage, project, policy) ==
  {Outcome("failed", {}, 0)} \cup
  CASE stage = "ontology-locate" ->
         {Outcome("executed", References(project, policy), Cardinality(References(project, policy)))}
    [] stage = "ontology-policy" ->
         {Outcome("executed", Instructions(project, policy),
                  Cardinality(Instructions(project, policy)))}
    [] stage = "codebase-source" ->
         {Outcome("executed", SourceItems(found \cap OfProject(project)), Cardinality(found)) :
            found \in SUBSET Source}

\* What the capsule's "unresolved" says of a stage ...
StageGaps(stage, outcome) ==
  (IF outcome.status = "failed" THEN {stage} ELSE {})
  \cup (IF stage = "ontology-policy" /\ outcome.count = 0 THEN {"no confirmed policy"} ELSE {})

\* ... and of the project.
ProjectGaps(ask, project) ==
  IF project # NoProject THEN {}
  ELSE IF ask.hint # NoProject THEN {"project hint"} ELSE {"no project"}

-----------------------------------------------------------------------------
(* rankAndDedupe, packEvidence *)

\* Of candidates with one uri the better score wins, but an instruction wins
\* over whatever is not one.
\* (Mutant of Winners: the score alone decides.)
WinnersByScore(same) == same
Winners(same) ==
  LET instructions == {e \in same : e.stage = "ontology-policy"}
  IN IF instructions = {} THEN same ELSE instructions

\* Scores are left open: any winner of each uri, in any order.
Rankings(candidates) ==
  LET uris == {e.uri : e \in candidates}
      of(u) == Winners({e \in candidates : e.uri = u})
      chosen == {c \in [uris -> candidates] : \A u \in uris : c[u] \in of(u)}
  IN UNION {SetToSeqs({c[u] : u \in uris}) : c \in chosen}

\* Whatever no longer fits is passed over, and smaller pieces behind it may fit.
Packed(ranked, budget) ==
  LET used[i \in 0 .. Len(ranked)] ==
        IF i = 0 THEN 0
        ELSE used[i - 1] + (IF used[i - 1] + ranked[i].tokens > budget THEN 0
                                                                       ELSE ranked[i].tokens)
  IN {ranked[i] : i \in {j \in DOMAIN ranked : used[j - 1] + ranked[j].tokens <= budget}}

\* The capsule, and the audit of every ranked candidate that goes with it.
CapsuleOf(id, ask, project, gaps, ranked) ==
  LET selected == Packed(ranked, ask.budget)
  IN [id |-> id, project |-> project, highRisk |-> ask.highRisk, evidence |-> selected,
      unresolved |-> gaps \cup ProjectGaps(ask, project),
      truncated |-> Cardinality(selected) < Len(ranked),
      audit |-> {[evidence |-> e, selected |-> e \in selected] : e \in ToSet(ranked)}]
==============================================================================
