------------------------ MODULE DaemonClientsProofs -------------------------
(***************************************************************************)
(* Proofs about DaemonClients, for any policies, sources, intentions,      *)
(* budgets and workloads, and with the daemon killed at any step.  The     *)
(* invariant follows a request through the stages of its capsule, and says *)
(* what its saves have written so far.  What holds of the gateway alone    *)
(* holds of it beside the clients.                                         *)
(***************************************************************************)
EXTENDS DaemonClients, PairingGatewayProofs, SequenceTheorems

StageName == {"ontology-locate", "ontology-policy", "codebase-source"}
AskType == [hint: Project \cup {NoProject}, highRisk: BOOLEAN, code: BOOLEAN, budget: Nat]
IsInstruction(e) == e.stage = "ontology-policy"

AuditIsTrue(c) == \A a \in c.audit : a.selected => a.evidence \in c.evidence
\* The policies have been looked at, or need not be.
PolicySeen(ask, gaps, found) ==
  ask.highRisk => "no confirmed policy" \in gaps \/ \E e \in found : IsInstruction(e)

\* PolicyGapIsSaid, of one capsule
GapIsSaid(c) ==
  c.highRisk => \/ \E e \in c.evidence : IsInstruction(e)
                \/ "no confirmed policy" \in c.unresolved
                \/ c.truncated

-----------------------------------------------------------------------------
(* What a capsule is made of *)

LEMMA FunctionIsSeq ==
  ASSUME NEW S, NEW n \in Nat, NEW f \in [1 .. n -> S]
  PROVE  f \in Seq(S) /\ Len(f) = n /\ DOMAIN f = 1 .. n
<1>1. f \in Seq(S)
  BY SeqDef
<1> QED
  BY <1>1, LenProperties

\* A high-risk intention has a stage of its own for policies.
LEMMA StagesShape ==
  ASSUME NEW ask \in AskType
  PROVE  /\ Stages(ask) \in Seq(StageName)
         /\ ask.highRisk => \E i \in 1 .. Len(Stages(ask)) : Stages(ask)[i] = "ontology-policy"
<1> DEFINE locate == <<"ontology-locate">>
           risk == IF ask.highRisk THEN <<"ontology-policy">> ELSE << >>
           code == IF ask.code THEN <<"codebase-source">> ELSE << >>
<1>1. locate \in Seq(StageName) /\ Len(locate) = 1
  BY DEF StageName
<1>2. /\ risk \in Seq(StageName) /\ Len(risk) \in Nat
      /\ ask.highRisk => Len(risk) = 1 /\ risk[1] = "ontology-policy"
  <2>1. CASE ask.highRisk
    BY <2>1 DEF StageName
  <2>2. CASE ~ask.highRisk
    <3>1. risk = << >>
      BY <2>2
    <3> QED
      BY <2>2, <3>1
  <2> QED
    BY <2>1, <2>2
<1>3. code \in Seq(StageName) /\ Len(code) \in Nat
  <2>1. CASE ask.code
    BY <2>1 DEF StageName
  <2>2. CASE ~ask.code
    <3>1. code = << >>
      BY <2>2
    <3> QED
      BY <3>1
  <2> QED
    BY <2>1, <2>2
<1>4. Stages(ask) = (locate \o risk) \o code
  BY DEF Stages
<1> DEFINE front == locate \o risk
<1> HIDE DEF locate, risk, code
<1>4a. Stages(ask) = front \o code
  BY <1>4
<1>5. /\ front \in Seq(StageName) /\ Len(front) = 1 + Len(risk)
      /\ ask.highRisk => front[2] = "ontology-policy" /\ Len(front) = 2
  <2>1. /\ front \in Seq(StageName) /\ Len(front) = Len(locate) + Len(risk)
        /\ \A i \in 1 .. Len(locate) + Len(risk) :
             front[i] = IF i <= Len(locate) THEN locate[i] ELSE risk[i - Len(locate)]
    BY <1>1, <1>2, ConcatProperties
  <2> QED
    BY <1>1, <1>2, <2>1
<1> HIDE DEF front
<1>6. /\ Stages(ask) \in Seq(StageName) /\ Len(Stages(ask)) = Len(front) + Len(code)
      /\ \A i \in 1 .. Len(front) + Len(code) :
           Stages(ask)[i] = IF i <= Len(front) THEN front[i] ELSE code[i - Len(front)]
  <2> DEFINE all == front \o code
  <2>1. /\ all \in Seq(StageName) /\ Len(all) = Len(front) + Len(code)
        /\ \A i \in 1 .. Len(front) + Len(code) :
             all[i] = IF i <= Len(front) THEN front[i] ELSE code[i - Len(front)]
    BY <1>2, <1>3, <1>5, ConcatProperties
  <2>2. Stages(ask) = all
    BY <1>4a
  <2> HIDE DEF all
  <2> QED
    BY <2>1, <2>2
<1>7. ASSUME ask.highRisk PROVE 2 \in 1 .. Len(Stages(ask)) /\ Stages(ask)[2] = "ontology-policy"
  BY <1>3, <1>5, <1>6, <1>7
<1> QED
  BY <1>6, <1>7

LEMMA FiniteImage ==
  ASSUME NEW S, IsFiniteSet(S), NEW T, NEW f \in [S -> T], \A t \in T : \E x \in S : f[x] = t
  PROVE  IsFiniteSet(T)
<1>1. f \in Surjection(S, T)
  BY DEF Surjection
<1> QED
  BY <1>1, FS_Surjection

\* A stage finds finitely much; the policy stage finds an instruction, or says
\* that there is none, also when it fails.
LEMMA OutcomesShape ==
  ASSUME NEW stage \in StageName, NEW project, NEW states,
         NEW o \in StageOutcomes(stage, project, states)
  PROVE  /\ IsFiniteSet(o.evidence)
         /\ stage = "ontology-policy" =>
              \/ "no confirmed policy" \in StageGaps(stage, o)
              \/ \E e \in o.evidence : IsInstruction(e)
<1>1. CASE o = Outcome("failed", {}, 0)
  <2>1. o.evidence = {} /\ o.count = 0
    BY <1>1 DEF Outcome
  <2> QED
    BY <2>1, FS_EmptySet DEF StageGaps
<1>2. CASE stage = "ontology-locate" /\ o.evidence = References(project, states)
  <2> DEFINE S == {q \in Policy : project = PolicyProject /\ states[q] # "rejected"}
             f == [q \in S |-> [id |-> q, uri |-> PolicyUri[q], stage |-> "ontology-locate",
                                tokens |-> 1]]
             T == References(project, states)
  <2>1. IsFiniteSet(S)
    BY CapsuleAssumption, FS_Subset
  <2>2. f \in [S -> T] /\ \A t \in T : \E x \in S : f[x] = t
    BY DEF References
  <2>3. IsFiniteSet(T)
    <3> HIDE DEF S, f, T
    <3> QED
      BY <2>1, <2>2, FiniteImage
  <2> QED
    BY <1>2, <2>3
<1>3. CASE /\ stage = "ontology-policy" /\ o.evidence = Instructions(project, states)
           /\ o.count = Cardinality(Instructions(project, states))
  <2> DEFINE S == {q \in Policy : project = PolicyProject /\ states[q] = "confirmed"}
             f == [q \in S |-> [id |-> q, uri |-> PolicyUri[q], stage |-> "ontology-policy",
                                tokens |-> 2]]
             T == Instructions(project, states)
  <2>1. IsFiniteSet(S)
    BY CapsuleAssumption, FS_Subset
  <2>2. f \in [S -> T] /\ \A t \in T : \E x \in S : f[x] = t
    BY DEF Instructions
  <2>3. IsFiniteSet(T)
    <3> HIDE DEF S, f, T
    <3> QED
      BY <2>1, <2>2, FiniteImage
  <2>4. \A e \in T : IsInstruction(e)
    BY DEF Instructions, IsInstruction
  <2>5. CASE T = {}
    <3>1. o.count = 0
      BY <1>3, <2>5, FS_EmptySet
    <3> QED
      BY <1>3, <2>3, <3>1 DEF StageGaps
  <2>6. CASE T # {}
    BY <1>3, <2>3, <2>4, <2>6
  <2> QED
    BY <2>5, <2>6
<1>4. CASE stage = "codebase-source"
           /\ \E found \in SUBSET Source : o.evidence = SourceItems(found \cap OfProject(project))
  <2>1. PICK found \in SUBSET Source : o.evidence = SourceItems(found \cap OfProject(project))
    BY <1>4
  <2> DEFINE S == found \cap OfProject(project)
             f == [s \in S |-> [id |-> s, uri |-> s, stage |-> "codebase-source", tokens |-> 1]]
             T == SourceItems(S)
  <2>2. IsFiniteSet(S)
    BY CapsuleAssumption, FS_Subset
  <2>3. f \in [S -> T] /\ \A t \in T : \E x \in S : f[x] = t
    BY DEF SourceItems
  <2>4. IsFiniteSet(T)
    <3> HIDE DEF S, f, T
    <3> QED
      BY <2>2, <2>3, FiniteImage
  <2> QED
    BY <1>4, <2>1, <2>4
<1>5. CASE stage = "ontology-locate" /\ o # Outcome("failed", {}, 0)
  <2>1. o \in {Outcome("executed", References(project, states), Cardinality(References(project, states)))}
    BY <1>5 DEF StageOutcomes
  <2>2. o.evidence = References(project, states)
    BY <2>1 DEF Outcome
  <2> QED
    BY <1>2, <1>5, <2>2
<1>6. CASE stage = "ontology-policy" /\ o # Outcome("failed", {}, 0)
  <2>1. o \in {Outcome("executed", Instructions(project, states),
                       Cardinality(Instructions(project, states)))}
    BY <1>6 DEF StageOutcomes
  <2>2. /\ o.evidence = Instructions(project, states)
        /\ o.count = Cardinality(Instructions(project, states))
    BY <2>1 DEF Outcome
  <2> QED
    BY <1>3, <1>6, <2>2
<1>7. CASE stage = "codebase-source" /\ o # Outcome("failed", {}, 0)
  <2>1. o \in {Outcome("executed", SourceItems(found \cap OfProject(project)), Cardinality(found)) :
                 found \in SUBSET Source}
    BY <1>7 DEF StageOutcomes
  <2>2. \E found \in SUBSET Source : o.evidence = SourceItems(found \cap OfProject(project))
    BY <2>1 DEF Outcome
  <2> QED
    BY <1>4, <1>7, <2>2
<1> QED
  BY <1>1, <1>5, <1>6, <1>7 DEF StageName

LEMMA SetToSeqsShape ==
  ASSUME NEW S, IsFiniteSet(S), NEW s \in SetToSeqs(S)
  PROVE  ToSet(s) = S /\ Len(s) = Cardinality(S)
<1> DEFINE n == Cardinality(S)
<1>1. n \in Nat
  BY FS_CardinalityType
<1>2. s \in [1 .. n -> S] /\ \A i, j \in 1 .. n : i # j => s[i] # s[j]
  BY DEF SetToSeqs
<1>3. s \in Injection(1 .. n, S)
  BY <1>2 DEF Injection, IsInjective
<1>4. IsFiniteSet(1 .. n) /\ Cardinality(1 .. n) = n
  <2> HIDE DEF n
  <2> QED
    BY <1>1, FS_Interval
<1>5. s \in Surjection(1 .. n, S)
  BY <1>3, <1>4, FS_Injection
<1> HIDE DEF n
<1>6. Len(s) = n /\ DOMAIN s = 1 .. n
  BY <1>1, <1>2, FunctionIsSeq
<1>7. ToSet(s) = S
  BY <1>2, <1>5, <1>6 DEF Surjection, ToSet
<1> QED
  BY <1>6, <1>7 DEF n

\* What is ranked has been found, once each, and of what has been found under
\* the uri of an instruction it is an instruction.
LEMMA RankingsShape ==
  ASSUME NEW candidates, IsFiniteSet(candidates), NEW ranked \in Rankings(candidates)
  PROVE  /\ IsFiniteSet(ToSet(ranked)) /\ Cardinality(ToSet(ranked)) = Len(ranked)
         /\ (\E e \in candidates : IsInstruction(e)) => \E e \in ToSet(ranked) : IsInstruction(e)
<1> DEFINE uris == {e.uri : e \in candidates}
           of(u) == Winners({e \in candidates : e.uri = u})
<1>1. PICK c \in [uris -> candidates] :
        (\A u \in uris : c[u] \in of(u)) /\ ranked \in SetToSeqs({c[u] : u \in uris})
  BY DEF Rankings
<1> DEFINE S == {c[u] : u \in uris}
<1>2. IsFiniteSet(S)
  <2>1. S \in SUBSET candidates
    BY <1>1
  <2> QED
    BY <2>1, FS_Subset
<1>3. ToSet(ranked) = S /\ Len(ranked) = Cardinality(S)
  <2> HIDE DEF S
  <2> QED
    BY <1>1, <1>2, SetToSeqsShape DEF S
<1>4. ASSUME NEW e \in candidates, IsInstruction(e)
      PROVE  \E w \in S : IsInstruction(w)
  <2>1. e.uri \in uris /\ e \in {d \in candidates : d.uri = e.uri}
    OBVIOUS
  <2>2. c[e.uri] \in of(e.uri) /\ c[e.uri] \in S
    BY <1>1, <2>1
  <2>3. IsInstruction(c[e.uri])
    BY <1>4, <2>1, <2>2 DEF Winners, IsInstruction
  <2> QED
    BY <2>2, <2>3
<1> QED
  BY <1>2, <1>3, <1>4

LEMMA PackedShape ==
  ASSUME NEW ranked, NEW budget
  PROVE  Packed(ranked, budget) \in SUBSET ToSet(ranked)
BY DEF Packed, ToSet

\* A capsule that says nothing of policies and was not cut short has all that
\* is ranked, and so an instruction if one was found.
LEMMA CapsuleShape ==
  ASSUME NEW candidates, IsFiniteSet(candidates), NEW ranked \in Rankings(candidates),
         NEW id, NEW ask \in AskType, NEW project, NEW gaps,
         PolicySeen(ask, gaps, candidates)
  PROVE  LET c == CapsuleOf(id, ask, project, gaps, ranked)
         IN  c.id = id /\ AuditIsTrue(c) /\ GapIsSaid(c)
<1> DEFINE selected == Packed(ranked, ask.budget)
           c == CapsuleOf(id, ask, project, gaps, ranked)
<1>1. /\ c.id = id /\ c.evidence = selected /\ c.highRisk = ask.highRisk
      /\ c.unresolved = gaps \cup ProjectGaps(ask, project)
      /\ c.truncated <=> Cardinality(selected) < Len(ranked)
      /\ c.audit = {[evidence |-> e, selected |-> e \in selected] : e \in ToSet(ranked)}
  BY DEF CapsuleOf
<1>2. AuditIsTrue(c)
  <2> SUFFICES ASSUME NEW a \in c.audit, a.selected PROVE a.evidence \in c.evidence
    BY DEF AuditIsTrue
  <2> HIDE DEF selected, c
  <2>1. PICK e \in ToSet(ranked) : a = [evidence |-> e, selected |-> e \in selected]
    BY <1>1
  <2>2. a.evidence = e /\ a.selected = (e \in selected)
    BY <2>1
  <2> QED
    BY <1>1, <2>2
<1>3. /\ IsFiniteSet(ToSet(ranked)) /\ Cardinality(ToSet(ranked)) = Len(ranked)
      /\ (\E e \in candidates : IsInstruction(e)) => \E e \in ToSet(ranked) : IsInstruction(e)
  BY RankingsShape
<1>4. c.truncated \/ selected = ToSet(ranked)
  <2>1. selected \in SUBSET ToSet(ranked)
    BY PackedShape
  <2> HIDE DEF selected
  <2>2. /\ Cardinality(selected) <= Cardinality(ToSet(ranked))
        /\ Cardinality(ToSet(ranked)) = Cardinality(selected) => selected = ToSet(ranked)
        /\ Cardinality(selected) \in Nat /\ Cardinality(ToSet(ranked)) \in Nat
    BY <1>3, <2>1, FS_Subset, FS_CardinalityType
  <2>3. Cardinality(selected) < Len(ranked) \/ selected = ToSet(ranked)
    BY <1>3, <2>2
  <2> HIDE DEF c
  <2> QED
    BY <1>1, <2>3
<1> HIDE DEF selected, c
<1> QED
  BY <1>1, <1>2, <1>3, <1>4 DEF c, GapIsSaid, PolicySeen

-----------------------------------------------------------------------------
(* The invariant *)

Begins == {"begin", "bootstrap"}
SessionRow == [status : {"active", "closed"}, project : Project \cup {NoProject}]

\* The thread's sessions are one after the other.
SessionsInv ==
  /\ policy \in [Policy -> {"candidate", "confirmed", "rejected"}]
  /\ sessions \in Seq(SessionRow)
  /\ \A i, j \in Active : i = j
  /\ intentions \subseteq Session \ {0}

CapsulesInv ==
  /\ IsFiniteSet(capsules)
  /\ \A c \in capsules : c.id \in 1 .. Cardinality(capsules) /\ AuditIsTrue(c)
  /\ \A c, d \in capsules : c.id = d.id => c = d
  /\ \A c \in capsules : GapIsSaid(c)

\* The meter knows of nothing but capsules.
SampleOf(c) == [capsule |-> c.id, project |-> c.project]
MeterInv ==
  /\ \A s \in samples : \E c \in capsules : s = SampleOf(c)
  /\ \A row \in audits : \E c \in capsules : row \in AuditRows(c)

Sampled(c) == SampleOf(c) \in samples
Audited(c) == AuditRows(c) \subseteq audits
HeldInv == \A c \in held : c \in capsules /\ Sampled(c) /\ Audited(c)

\* A session that has its project keeps it.
UsesInv ==
  /\ UsesAreTrue
  /\ \A u \in uses : u.session \in DOMAIN sessions /\ sessions[u.session].project # NoProject

ObservedInv ==
  observed \in [mode : DOMAIN Rank, session : Session, first : BOOLEAN, completed : BOOLEAN,
                hook : BOOLEAN, mcp : BOOLEAN]

TablesInv == SessionsInv /\ CapsulesInv /\ MeterInv /\ HeldInv /\ UsesInv /\ ObservedInv

\* A high-risk intention has its instruction, or the gap, or the stage for it ahead.
PolicyAhead(r) == \E i \in 1 .. Len(r.left) : r.left[i] = "ontology-policy"
PolicyMet(r) == "no confirmed policy" \in r.gaps \/ \E e \in r.found : IsInstruction(e)

\* Saves are made in their order; none is left out.
SavesAhead ==
  {<<"capsule", "intention", "sample", "audit">>, <<"intention", "sample", "audit">>,
   <<"sample", "audit">>, <<"audit">>, << >>}

Starting(r) == r.kind \in Begins /\ r.session # 0
Resolving(r) ==
  /\ r.kind = "query" \/ Starting(r)
  /\ r.left \in Seq(StageName)
  /\ r.ask.highRisk => PolicyMet(r) \/ PolicyAhead(r)
Saving(r) ==
  /\ r.capsule \in capsules
  /\ r.saves \in SavesAhead
  /\ Len(r.saves) > 2 => Starting(r)
  /\ Len(r.saves) < 2 => Sampled(r.capsule)
  /\ r.saves = << >> => Audited(r.capsule)

RequestField ==
  {"from", "n", "kind", "stage", "ask", "event", "session", "capsule", "ids", "project",
   "left", "found", "gaps", "saves"}
RequestInv(r) ==
  /\ DOMAIN r = RequestField
  /\ r.from \in Actor /\ r.n \in Nat /\ r.session \in Session /\ r.ask \in AskType
  /\ IsFiniteSet(r.found)
  /\ r.stage = "begun" => Starting(r)
  /\ r.stage = "resolving" => Resolving(r)
  /\ r.stage = "saving" => Saving(r)

ClientState ==
  [stage : {"idle", "observe", "bootstrap", "done", "waiting"},
   event : {"none", "initialized", "session_started", "session_completed", "context_read"},
   session : Session, n : Nat]
AwaitedBy(a) == \E r \in requests : r.from = a /\ r.n = client[a].n
TrafficInv ==
  /\ \A r \in requests : RequestInv(r) /\ r.n <= client[r.from].n
  /\ client \in [Actor -> ClientState]
  /\ \A a \in Actor : Waits(a) => AwaitedBy(a)

ClientsInv == TablesInv /\ TrafficInv

-----------------------------------------------------------------------------
(* Requests come and go *)

\* No step takes a session, a capsule or a measurement back.
TablesGrow ==
  /\ Session \subseteq Session'
  /\ capsules \subseteq capsules'
  /\ samples \subseteq samples'
  /\ audits \subseteq audits'

tables == <<policy, sessions, capsules, capsuleRows, intentions, samples, audits, uses, observed, held>>

LEMMA TablesKept == UNCHANGED tables => TablesGrow
BY DEF tables, TablesGrow, Session

LEMMA RequestKept ==
  ASSUME NEW r, RequestInv(r), TablesGrow
  PROVE  RequestInv(r)'
<1>1. Saving(r) => Saving(r)'
  BY DEF TablesGrow, Saving, Starting, Sampled, Audited, AuditRows, SampleOf
<1>2. r.stage = "resolving" => Resolving(r)'
  BY DEF RequestInv, Resolving, Starting, PolicyMet, PolicyAhead
<1> QED
  BY <1>1, <1>2 DEF RequestInv, TablesGrow, Starting, Actor, Hooks

LEMMA ClientsKept ==
  ASSUME TablesGrow
  PROVE  ClientState \subseteq ClientState'
BY DEF TablesGrow, ClientState

\* What an answer may have its client do next.
MayDo(r, next) ==
  /\ next \in ClientState' /\ next.stage # "waiting"
  /\ WaitsFor(r) => next.n = client[r.from].n

LEMMA AnswerKeeps ==
  ASSUME TrafficInv, TablesGrow, NEW r \in requests, NEW next, MayDo(r, next), Answer(r, next)
  PROVE  TrafficInv'
<1>1. requests' = requests \ {r}
  BY DEF Answer, Leaves
<1>2. client' = client \/ (WaitsFor(r) /\ client' = [client EXCEPT ![r.from] = next])
  BY DEF Answer
<1>3. client \in [Actor -> ClientState] /\ client \in [Actor -> ClientState']
  BY ClientsKept DEF TrafficInv
<1>4. r.from \in Actor
  BY DEF TrafficInv, RequestInv
<1>5. /\ client' \in [Actor -> ClientState']
      /\ \A a \in Actor : /\ client'[a].n = client[a].n
                          /\ Waits(a)' => client'[a] = client[a] /\ Waits(a)
  BY <1>2, <1>3, <1>4 DEF MayDo, Waits
<1>6. \A q \in requests' : RequestInv(q)' /\ q.n <= client'[q.from].n
  BY <1>1, <1>5, RequestKept DEF TrafficInv, RequestInv
<1>7. ASSUME NEW a \in Actor, Waits(a)' PROVE AwaitedBy(a)'
  <2>1. PICK q \in requests : q.from = a /\ q.n = client[a].n
    BY <1>5, <1>7 DEF TrafficInv, AwaitedBy
  <2>2. CASE q = r
    <3>1. WaitsFor(r)
      BY <1>5, <1>7, <2>1, <2>2 DEF WaitsFor
    <3>2. client'[a] = next
      BY <1>3, <1>4, <2>1, <2>2, <3>1 DEF Answer
    <3> QED
      BY <1>7, <3>2 DEF MayDo, Waits
  <2>3. CASE q # r
    BY <1>1, <1>5, <2>1, <2>3 DEF AwaitedBy
  <2> QED
    BY <2>2, <2>3
<1> QED
  BY <1>5, <1>6, <1>7 DEF TrafficInv, Actor, Hooks

LEMMA BecomesKeeps ==
  ASSUME TrafficInv, TablesGrow, NEW r \in requests, NEW s, s.from = r.from, s.n = r.n,
         RequestInv(s)', Becomes(r, s), client' = client
  PROVE  TrafficInv'
<1>1. requests' = (requests \ {r}) \cup {s}
  BY DEF Becomes
<1>2. client' \in [Actor -> ClientState']
  BY ClientsKept DEF TrafficInv
<1>3. \A q \in requests' : RequestInv(q)' /\ q.n <= client'[q.from].n
  BY <1>1, RequestKept DEF TrafficInv
<1>4. \A a \in Actor : Waits(a)' => AwaitedBy(a)'
  BY <1>1 DEF TrafficInv, AwaitedBy, Waits
<1> QED
  BY <1>2, <1>3, <1>4 DEF TrafficInv, Actor, Hooks

\* What a client sends has arrived, with everything yet to be found out.
Fresh(a, q) ==
  /\ DOMAIN q = RequestField
  /\ q.from = a /\ q.n = client[a].n + 1 /\ q.stage = "arrived"
  /\ q.session \in Session /\ q.ask \in AskType /\ q.found = {}
  /\ q.event \in {"none", "initialized", "session_started", "session_completed", "context_read"}

LEMMA FreshIsSound ==
  ASSUME TrafficInv, NEW a \in Actor, NEW q, Fresh(a, q)
  PROVE  RequestInv(q)
<1>1. q.n \in Nat
  BY DEF TrafficInv, ClientState, Fresh
<1> QED
  BY <1>1, FS_EmptySet DEF RequestInv, Fresh

LEMMA RequestIsFresh ==
  ASSUME TrafficInv, NEW a \in Actor, NEW kind
  PROVE  Fresh(a, Request(a, kind))
<1>1. HookAsk \in AskType
  BY HookAskAssumption, CapsuleAssumption DEF AskType
<1>2. 0 \in Session
  BY DEF Session
<1> QED
  BY <1>1, <1>2 DEF Request, Fresh, RequestField

LEMMA RestingIsState ==
  ASSUME NEW a \in Actor, NEW c, c.n \in Nat
  PROVE  /\ Resting(a, c) \in ClientState
         /\ Resting(a, c).stage # "waiting" /\ Resting(a, c).n = c.n
<1>1. 0 \in Session
  BY DEF Session
<1> QED
  BY <1>1 DEF Resting, Doing, ClientState

LEMMA SendKeeps ==
  ASSUME TrafficInv, NEW a \in Actor, NEW q, Fresh(a, q), Send(a, q)
  PROVE  TrafficInv' /\ UNCHANGED tables
<1>1. UNCHANGED tables
  BY DEF Send, tables, meterTables
<1>2. TablesGrow
  BY <1>1, TablesKept
<1>3. ClientState' = ClientState /\ Actor' = Actor
  BY <1>1 DEF tables, ClientState, Session, Actor, Hooks
<1>4. client \in [Actor -> ClientState] /\ client[a] \in ClientState /\ client[a].n \in Nat
  BY DEF TrafficInv, ClientState
<1>5. CASE /\ requests' = requests \cup {q}
           /\ client' = [client EXCEPT ![a] = Doing("waiting", q.event, q.session, @.n + 1)]
  <2> DEFINE next == Doing("waiting", q.event, q.session, client[a].n + 1)
  <2>1. next \in ClientState /\ next.n = client[a].n + 1
    BY <1>4 DEF Doing, ClientState, Fresh
  <2>2. client' = [client EXCEPT ![a] = next]
    BY <1>5
  <2> HIDE DEF next
  <2>3. /\ client' \in [Actor -> ClientState]
        /\ client'[a] = next
        /\ \A b \in Actor : b # a => client'[b] = client[b]
    BY <1>4, <2>1, <2>2
  <2>4. ASSUME NEW p \in requests' PROVE RequestInv(p)' /\ p.n <= client'[p.from].n
    <3>1. CASE p = q
      BY <1>2, <1>4, <2>1, <2>3, <3>1, FreshIsSound, RequestKept DEF Fresh
    <3>2. CASE p # q
      <4>1. /\ p \in requests /\ RequestInv(p) /\ p.n \in Nat /\ p.from \in Actor
            /\ p.n <= client[p.from].n
        BY <1>5, <3>2 DEF TrafficInv, RequestInv
      <4>2. client'[p.from].n = client[p.from].n
            \/ (p.from = a /\ client'[p.from].n = client[p.from].n + 1)
        BY <2>1, <2>3, <4>1
      <4>3. p.n <= client'[p.from].n
        BY <1>4, <4>1, <4>2
      <4> QED
        BY <1>2, <4>1, <4>3, RequestKept
    <3> QED
      BY <3>1, <3>2
  <2>5. ASSUME NEW b \in Actor, Waits(b)' PROVE AwaitedBy(b)'
    <3>1. CASE b = a
      BY <1>5, <2>1, <2>3, <3>1 DEF AwaitedBy, Fresh
    <3>2. CASE b # a
      <4>1. PICK p \in requests : p.from = b /\ p.n = client[b].n
        BY <2>3, <2>5, <3>2 DEF TrafficInv, Waits, AwaitedBy
      <4> QED
        BY <1>5, <2>3, <3>2, <4>1 DEF AwaitedBy
    <3> QED
      BY <3>1, <3>2
  <2> QED
    BY <1>1, <1>3, <2>3, <2>4, <2>5 DEF TrafficInv
<1>6. CASE /\ requests' = requests
           /\ client' = [client EXCEPT ![a] = Resting(a, [@ EXCEPT !.event = q.event])]
  <2> DEFINE c == [client[a] EXCEPT !.event = q.event]
             next == Resting(a, c)
  <2>1. c.n = client[a].n
    BY <1>4 DEF ClientState
  <2>2. next \in ClientState /\ next.stage # "waiting" /\ next.n = client[a].n
    <3> HIDE DEF c
    <3> QED
      BY <1>4, <2>1, RestingIsState
  <2>3. client' = [client EXCEPT ![a] = next]
    BY <1>6
  <2> HIDE DEF next, c
  <2>4. /\ client' \in [Actor -> ClientState]
        /\ client'[a] = next
        /\ \A b \in Actor : b # a => client'[b] = client[b]
    BY <1>4, <2>2, <2>3
  <2>5. ASSUME NEW p \in requests' PROVE RequestInv(p)' /\ p.n <= client'[p.from].n
    BY <1>2, <1>6, <2>2, <2>4, RequestKept DEF TrafficInv, RequestInv
  <2>6. ASSUME NEW b \in Actor, Waits(b)' PROVE AwaitedBy(b)'
    BY <1>6, <2>2, <2>4, <2>6 DEF TrafficInv, Waits, AwaitedBy
  <2> QED
    BY <1>1, <1>3, <2>4, <2>5, <2>6 DEF TrafficInv
<1> QED
  BY <1>1, <1>5, <1>6 DEF Send

\* A client that gives up, or that the daemon leaves behind.
LEMMA ClientsRest ==
  ASSUME TrafficInv, UNCHANGED tables, requests' = requests \/ requests' = {},
         client' \in [Actor -> ClientState],
         \A a \in Actor : /\ client'[a].n = client[a].n
                          /\ Waits(a)' => requests' = requests /\ client'[a] = client[a]
  PROVE  TrafficInv'
<1>1. TablesGrow
  BY TablesKept
<1>2. ClientState' = ClientState /\ Actor' = Actor
  BY DEF tables, ClientState, Session, Actor, Hooks
<1>3. ASSUME NEW p \in requests' PROVE RequestInv(p)' /\ p.n <= client'[p.from].n
  BY <1>1, RequestKept DEF TrafficInv, RequestInv
<1>4. ASSUME NEW b \in Actor, Waits(b)' PROVE AwaitedBy(b)'
  BY <1>4 DEF TrafficInv, Waits, AwaitedBy
<1> QED
  BY <1>2, <1>3, <1>4 DEF TrafficInv

LEMMA GiveUpKeeps ==
  ASSUME TrafficInv, NEW a \in Actor, GiveUp(a)
  PROVE  TrafficInv' /\ UNCHANGED tables
<1>1. UNCHANGED tables /\ requests' = requests
  BY DEF GiveUp, tables, meterTables
<1> DEFINE next == Resting(a, client[a])
<1>2. client \in [Actor -> ClientState] /\ client[a].n \in Nat
  BY DEF TrafficInv, ClientState
<1>3. next \in ClientState /\ next.stage # "waiting" /\ next.n = client[a].n
  BY <1>2, RestingIsState
<1>4. client' = [client EXCEPT ![a] = next]
  BY DEF GiveUp
<1> HIDE DEF next
<1>5. /\ client' \in [Actor -> ClientState]
      /\ \A b \in Actor : /\ client'[b].n = client[b].n
                          /\ Waits(b)' => client'[b] = client[b]
  BY <1>2, <1>3, <1>4 DEF Waits
<1> QED
  BY <1>1, <1>5, ClientsRest

LEMMA DiesKeeps ==
  ASSUME TrafficInv, Dies
  PROVE  TrafficInv' /\ UNCHANGED tables
<1>1. UNCHANGED tables /\ requests' = {}
  BY DEF Dies, tables, meterTables
<1>2. /\ client \in [Actor -> ClientState]
      /\ client' = [a \in Actor |-> IF Waits(a) THEN Resting(a, client[a]) ELSE client[a]]
  BY DEF TrafficInv, Dies
<1>3. ASSUME NEW a \in Actor
      PROVE  client'[a] \in ClientState /\ client'[a].n = client[a].n /\ client'[a].stage # "waiting"
  <2>1. client[a] \in ClientState /\ client[a].n \in Nat
    BY <1>2 DEF ClientState
  <2>2. CASE Waits(a)
    BY <1>2, <2>1, <2>2, RestingIsState
  <2>3. CASE ~ Waits(a)
    BY <1>2, <2>1, <2>3 DEF Waits
  <2> QED
    BY <2>2, <2>3
<1>4. client' \in [Actor -> ClientState] /\ \A a \in Actor : ~ Waits(a)'
  BY <1>2, <1>3 DEF Waits
<1> QED
  BY <1>1, <1>3, <1>4, ClientsRest

-----------------------------------------------------------------------------
(* The clients' steps *)

LEMMA ObservationKeeps ==
  ASSUME TrafficInv, NEW a \in Actor, SendObservation(a)
  PROVE  TrafficInv' /\ UNCHANGED tables
<1> DEFINE q == Request(a, "observe")
           s == [q EXCEPT !.event = client[a].event, !.session = client[a].session]
<1>1. Fresh(a, q)
  BY RequestIsFresh
<1>2. client[a] \in ClientState
  BY DEF TrafficInv
<1>3. Send(a, s)
  BY DEF SendObservation
<1>4. Fresh(a, s)
  <2> HIDE DEF q
  <2> QED
    BY <1>1, <1>2 DEF Fresh, RequestField, ClientState
<1> HIDE DEF s
<1> QED
  BY <1>3, <1>4, SendKeeps

LEMMA CallKeeps ==
  ASSUME TrafficInv, SessionsInv, CallTool
  PROVE  TrafficInv' /\ UNCHANGED tables
<1>0. "mcp" \in Actor
  BY DEF Actor
<1>1. ASSUME NEW ask \in Ask, NEW kind, Call([Request("mcp", kind) EXCEPT !.ask = ask])
      PROVE  TrafficInv' /\ UNCHANGED tables
  <2> DEFINE q == Request("mcp", kind)
             s == [q EXCEPT !.ask = ask]
  <2>1. Fresh("mcp", q)
    BY <1>0, RequestIsFresh
  <2>2. Send("mcp", s)
    BY <1>1 DEF Call
  <2>3. ask \in AskType
    BY CapsuleAssumption DEF AskType
  <2>4. Fresh("mcp", s)
    <3> HIDE DEF q
    <3> QED
      BY <2>1, <2>3 DEF Fresh, RequestField
  <2> HIDE DEF s
  <2> QED
    BY <1>0, <2>2, <2>4, SendKeeps
<1>2. ASSUME NEW i \in DOMAIN sessions, sessions \in Seq(SessionRow),
             Call([Request("mcp", "complete") EXCEPT !.session = i])
      PROVE  TrafficInv' /\ UNCHANGED tables
  <2> DEFINE q == Request("mcp", "complete")
             s == [q EXCEPT !.session = i]
  <2>1. Fresh("mcp", q)
    BY <1>0, RequestIsFresh
  <2>2. Send("mcp", s)
    BY <1>2 DEF Call
  <2>3. i \in Session
    BY <1>2 DEF Session
  <2>4. Fresh("mcp", s)
    <3> HIDE DEF q
    <3> QED
      BY <2>1, <2>3 DEF Fresh, RequestField
  <2> HIDE DEF s
  <2> QED
    BY <1>0, <2>2, <2>4, SendKeeps
<1>3. ASSUME NEW i \in DOMAIN sessions, NEW c \in capsules, NEW ids, sessions \in Seq(SessionRow),
             Call([Request("mcp", "use") EXCEPT !.session = i, !.capsule = [id |-> c.id], !.ids = ids])
      PROVE  TrafficInv' /\ UNCHANGED tables
  <2> DEFINE q == Request("mcp", "use")
             s == [q EXCEPT !.session = i, !.capsule = [id |-> c.id], !.ids = ids]
  <2>1. Fresh("mcp", q)
    BY <1>0, RequestIsFresh
  <2>2. Send("mcp", s)
    BY <1>3 DEF Call
  <2>3. i \in Session
    BY <1>3 DEF Session
  <2>4. Fresh("mcp", s)
    <3> HIDE DEF q
    <3> QED
      BY <2>1, <2>3 DEF Fresh, RequestField
  <2> HIDE DEF s
  <2> QED
    BY <1>0, <2>2, <2>4, SendKeeps
<1> QED
  BY <1>1, <1>2, <1>3 DEF CallTool, SessionsInv

LEMMA HookSendsKeep ==
  ASSUME TrafficInv, SendBootstrap \/ SendEnd
  PROVE  TrafficInv' /\ UNCHANGED tables
<1>1. "start" \in Actor /\ "end" \in Actor
  BY DEF Actor, Hooks
<1> QED
  BY <1>1, RequestIsFresh, SendKeeps DEF SendBootstrap, SendEnd

-----------------------------------------------------------------------------
(* Sessions *)

LEMMA TablesStay == TablesInv /\ UNCHANGED tables => TablesInv'
BY DEF tables, TablesInv, SessionsInv, Active, Session, CapsulesInv,
   MeterInv, AuditRows, SampleOf, HeldInv, Sampled, Audited, UsesInv, UsesAreTrue, ObservedInv, Rank

\* Sessions are added and closed, and adopt a project when they have none.
SessionsGrow ==
  /\ Len(sessions) <= Len(sessions')
  /\ \A i \in DOMAIN sessions :
       sessions[i].project # NoProject => sessions'[i].project = sessions[i].project

LEMMA SessionsGrowKeeps ==
  ASSUME TablesInv, SessionsInv', SessionsGrow,
         UNCHANGED <<policy, capsules, meterTables, uses, observed, held>>
  PROVE  TablesInv' /\ TablesGrow
<1>1. /\ sessions \in Seq(SessionRow) /\ sessions' \in Seq(SessionRow)
      /\ DOMAIN sessions = 1 .. Len(sessions) /\ DOMAIN sessions' = 1 .. Len(sessions')
      /\ Len(sessions) \in Nat /\ Len(sessions') \in Nat
  <2>1. SessionRow' = SessionRow
    BY DEF SessionRow
  <2>2. sessions \in Seq(SessionRow) /\ sessions' \in Seq(SessionRow)
    BY <2>1 DEF TablesInv, SessionsInv
  <2> QED
    BY <2>2, LenProperties
<1>2. Session \subseteq Session' /\ DOMAIN sessions \subseteq DOMAIN sessions'
  BY <1>1 DEF SessionsGrow, Session
<1>3. CapsulesInv' /\ MeterInv' /\ HeldInv'
  BY DEF TablesInv, meterTables, CapsulesInv, MeterInv, AuditRows,
         SampleOf, HeldInv, Sampled, Audited
<1>4. UsesInv'
  <2>1. ASSUME NEW u \in uses
        PROVE  /\ u.session \in DOMAIN sessions' /\ sessions'[u.session].project # NoProject
               /\ sessions'[u.session].project = sessions[u.session].project
    BY <1>2 DEF TablesInv, UsesInv, SessionsGrow
  <2> QED
    BY <2>1 DEF TablesInv, UsesInv, UsesAreTrue
<1>5. ObservedInv'
  BY <1>2 DEF TablesInv, ObservedInv, Rank
<1>6. TablesGrow
  BY <1>2 DEF TablesGrow, meterTables
<1> QED
  BY <1>3, <1>4, <1>5, <1>6 DEF TablesInv

\* A session is closed.
LEMMA CloseKeeps ==
  ASSUME TablesInv, NEW i \in Active, sessions' = [sessions EXCEPT ![i].status = "closed"],
         UNCHANGED <<policy, intentions>>
  PROVE  SessionsInv' /\ SessionsGrow /\ Session' = Session
<1>1. sessions \in Seq(SessionRow) /\ i \in DOMAIN sessions /\ sessions[i] \in SessionRow
  BY DEF TablesInv, SessionsInv, Active
<1> DEFINE row == [sessions[i] EXCEPT !.status = "closed"]
<1>2. row \in SessionRow /\ row.status = "closed" /\ row.project = sessions[i].project
  BY <1>1 DEF SessionRow
<1>3. sessions' = [sessions EXCEPT ![i] = row]
  OBVIOUS
<1> HIDE DEF row
<1>4. /\ sessions' \in Seq(SessionRow) /\ Len(sessions') = Len(sessions)
      /\ DOMAIN sessions' = DOMAIN sessions /\ Len(sessions) \in Nat
      /\ \A j \in DOMAIN sessions : sessions'[j] = IF j = i THEN row ELSE sessions[j]
  BY <1>1, <1>2, <1>3
<1>5. Active' \subseteq Active /\ Session' = Session
  BY <1>2, <1>4 DEF Active, Session
<1>6. SessionRow' = SessionRow
  BY DEF SessionRow
<1> QED
  BY <1>2, <1>4, <1>5, <1>6 DEF TablesInv, SessionsInv, SessionsGrow

\* What an answer has its client report.
LEMMA ReportsMayDo ==
  ASSUME NEW r, r.n \in Nat, NEW i \in Session',
         NEW event \in {"session_started", "session_completed", "context_read"}
  PROVE  MayDo(r, Reports(r, event, i))
<1> DEFINE next == Reports(r, event, i)
<1>1. next \in ClientState' /\ next.stage = "observe" /\ next.n = r.n
  BY DEF Reports, Doing, ClientState
<1>2. WaitsFor(r) => r.n = client[r.from].n
  BY DEF WaitsFor
<1> QED
  BY <1>1, <1>2 DEF MayDo

LEMMA RestsMayDo ==
  ASSUME TrafficInv, TablesGrow, NEW r \in requests
  PROVE  MayDo(r, Rests(r))
<1>1. r.from \in Actor /\ client[r.from].n \in Nat
  BY DEF TrafficInv, RequestInv, ClientState
<1>2. /\ Rests(r) \in ClientState
      /\ Rests(r).stage # "waiting" /\ Rests(r).n = client[r.from].n
  BY <1>1, RestingIsState DEF Rests
<1> QED
  BY <1>2, ClientsKept DEF MayDo

LEMMA FailKeeps ==
  ASSUME TablesInv, TrafficInv, NEW r \in requests, Fail(r)
  PROVE  TablesInv' /\ TrafficInv'
<1>1. UNCHANGED tables /\ Answer(r, Rests(r))
  BY DEF Fail, tables, meterTables
<1>2. TablesGrow
  BY <1>1, TablesKept
<1> QED
  BY <1>1, <1>2, TablesStay, RestsMayDo, AnswerKeeps

LEMMA CompleteSessionKeeps ==
  ASSUME TablesInv, TrafficInv, NEW r \in requests, CompleteSession(r)
  PROVE  TablesInv' /\ TrafficInv'
<1>1. SessionsInv' /\ SessionsGrow /\ Session' = Session
  BY CloseKeeps DEF CompleteSession, meterTables
<1>2. TablesInv' /\ TablesGrow
  BY <1>1, SessionsGrowKeeps DEF CompleteSession
<1>3. r.n \in Nat /\ r.session \in Session'
  BY <1>1 DEF TrafficInv, RequestInv
<1>4. MayDo(r, Reports(r, "session_completed", r.session))
  BY <1>3, ReportsMayDo
<1> QED
  BY <1>2, <1>4, AnswerKeeps DEF CompleteSession

LEMMA EndSessionKeeps ==
  ASSUME TablesInv, TrafficInv, NEW r \in requests, EndSession(r)
  PROVE  TablesInv' /\ TrafficInv'
<1>0. PICK i \in Active :
        /\ sessions' = [sessions EXCEPT ![i].status = "closed"]
        /\ Answer(r, Reports(r, "session_completed", i))
  BY DEF EndSession
<1>1. SessionsInv' /\ SessionsGrow /\ Session' = Session
  BY <1>0, CloseKeeps DEF EndSession, meterTables
<1>2. TablesInv' /\ TablesGrow
  BY <1>1, SessionsGrowKeeps DEF EndSession
<1>3. r.n \in Nat /\ i \in Session'
  BY <1>1 DEF TrafficInv, RequestInv, TablesInv, SessionsInv, Active, Session
<1>4. MayDo(r, Reports(r, "session_completed", i))
  BY <1>3, ReportsMayDo
<1> QED
  BY <1>0, <1>2, <1>4, AnswerKeeps

\* The thread's only active session, a new one if there is none.
LEMMA StartSessions ==
  ASSUME TablesInv, NEW r, r.ask \in AskType, NEW i, NEW p, UNCHANGED <<policy, intentions>>,
         \/ /\ Active = {} /\ i = Len(sessions) + 1 /\ p = r.ask.hint
            /\ sessions' = Append(sessions, [status |-> "active", project |-> p])
         \/ /\ i \in Active /\ sessions[i].project \in {NoProject, p}
            /\ p \in {sessions[i].project, r.ask.hint}
            /\ sessions' = [sessions EXCEPT ![i].project = p]
  PROVE  /\ SessionsInv' /\ SessionsGrow
         /\ i \in Session' \ {0} /\ p \in Project \cup {NoProject}
<1>1. /\ sessions \in Seq(SessionRow) /\ Len(sessions) \in Nat
      /\ DOMAIN sessions = 1 .. Len(sessions)
  BY LenProperties DEF TablesInv, SessionsInv
<1>2. r.ask.hint \in Project \cup {NoProject}
  BY DEF AskType
<1>3. SessionRow' = SessionRow
  BY DEF SessionRow
<1>4. CASE /\ Active = {} /\ i = Len(sessions) + 1 /\ p = r.ask.hint
           /\ sessions' = Append(sessions, [status |-> "active", project |-> p])
  <2> DEFINE row == [status |-> "active", project |-> p]
  <2>1. row \in SessionRow
    BY <1>2, <1>4 DEF SessionRow
  <2>2. sessions' = Append(sessions, row)
    BY <1>4
  <2> HIDE DEF row
  <2>3. /\ sessions' \in Seq(SessionRow) /\ Len(sessions') = Len(sessions) + 1
        /\ DOMAIN sessions' = 1 .. Len(sessions')
        /\ \A j \in 1 .. Len(sessions) : sessions'[j] = sessions[j]
    <3>1. sessions' \in Seq(SessionRow) /\ Len(sessions') = Len(sessions) + 1
      BY <1>1, <2>1, <2>2, AppendProperties
    <3>2. \A j \in 1 .. Len(sessions) : sessions'[j] = sessions[j]
      <4>1. sessions \in Seq(SessionRow)
        BY <1>1
      <4> QED
        BY <2>1, <2>2, <4>1, AppendProperties
    <3> QED
      BY <3>1, <3>2, LenProperties
  <2>4. Active' \subseteq {i}
    <3>1. \A j \in DOMAIN sessions' : j = i \/ (j \in DOMAIN sessions /\ sessions'[j] = sessions[j])
      BY <1>1, <1>4, <2>3
    <3>2. Active = {}
      BY <1>4
    <3> QED
      BY <3>1, <3>2 DEF Active
  <2>5. Session \subseteq Session' /\ i \in Session' \ {0}
    BY <1>1, <1>4, <2>3 DEF Session
  <2> QED
    BY <1>1, <1>2, <1>3, <1>4, <2>3, <2>4, <2>5 DEF TablesInv, SessionsInv, SessionsGrow
<1>5. CASE /\ i \in Active /\ sessions[i].project \in {NoProject, p}
           /\ p \in {sessions[i].project, r.ask.hint}
           /\ sessions' = [sessions EXCEPT ![i].project = p]
  <2>0. i \in DOMAIN sessions /\ sessions[i] \in SessionRow
    <3>1. i \in DOMAIN sessions
      BY <1>5 DEF Active
    <3> QED
      BY <1>1, <3>1
  <2> DEFINE row == [sessions[i] EXCEPT !.project = p]
  <2>1. row \in SessionRow /\ row.status = sessions[i].status /\ row.project = p
    BY <1>2, <1>5, <2>0 DEF SessionRow
  <2>2. sessions' = [sessions EXCEPT ![i] = row]
    BY <1>5
  <2> HIDE DEF row
  <2>3. /\ sessions' \in Seq(SessionRow) /\ Len(sessions') = Len(sessions)
        /\ DOMAIN sessions' = DOMAIN sessions
        /\ \A j \in DOMAIN sessions : sessions'[j] = IF j = i THEN row ELSE sessions[j]
    <3>1. sessions \in Seq(SessionRow)
      BY <1>1
    <3> QED
      BY <2>0, <2>1, <2>2, <3>1
  <2>4. Active' \subseteq Active
    BY <2>1, <2>3 DEF Active
  <2>5. Session' = Session /\ i \in Session' \ {0}
    <3>1. Session' = Session
      BY <2>3 DEF Session
    <3>2. i \in 1 .. Len(sessions) /\ Len(sessions) \in Nat
      BY <1>1, <2>0
    <3> QED
      BY <3>1, <3>2 DEF Session
  <2>6. p \in Project \cup {NoProject}
    BY <1>2, <1>5, <2>0 DEF SessionRow
  <2>7. SessionsInv'
    BY <1>3, <2>3, <2>4, <2>5 DEF TablesInv, SessionsInv
  <2>8. SessionsGrow
    <3>1. Len(sessions) <= Len(sessions')
      <4>1. Len(sessions') = Len(sessions)
        BY <2>3
      <4>2. Len(sessions) \in Nat
        BY <1>1
      <4> QED
        BY <4>1, <4>2
    <3>2. sessions[i].project # NoProject => p = sessions[i].project
      BY <1>5
    <3>3. \A j \in DOMAIN sessions :
            sessions[j].project # NoProject => sessions'[j].project = sessions[j].project
      BY <2>1, <2>3, <3>2
    <3> QED
      BY <3>1, <3>3 DEF SessionsGrow
  <2> QED
    BY <2>5, <2>6, <2>7, <2>8
<1> QED
  BY <1>4, <1>5

InSession(r, p, i) == [r EXCEPT !.session = i, !.stage = "begun", !.ask.hint = p]

LEMMA StartedKeeps ==
  ASSUME TablesInv, TrafficInv, NEW r \in requests, r.kind \in Begins, NEW i, NEW p,
         UNCHANGED <<policy, capsules, meterTables, uses, observed, client, held>>,
         \/ /\ Active = {} /\ i = Len(sessions) + 1 /\ p = r.ask.hint
            /\ sessions' = Append(sessions, [status |-> "active", project |-> p])
         \/ /\ i \in Active /\ sessions[i].project \in {NoProject, p}
            /\ p \in {sessions[i].project, r.ask.hint}
            /\ sessions' = [sessions EXCEPT ![i].project = p],
         Becomes(r, InSession(r, p, i))
  PROVE  TablesInv' /\ TrafficInv'
<1>1. r.ask \in AskType /\ RequestInv(r)
  BY DEF TrafficInv, RequestInv
<1>2. /\ SessionsInv' /\ SessionsGrow
      /\ i \in Session' \ {0} /\ p \in Project \cup {NoProject}
  BY <1>1, StartSessions DEF meterTables
<1>3. TablesInv' /\ TablesGrow
  BY <1>2, SessionsGrowKeeps
<1> DEFINE s == InSession(r, p, i)
<1>4. /\ DOMAIN s = RequestField /\ s.from = r.from /\ s.n = r.n /\ s.kind = r.kind
      /\ s.session = i /\ s.stage = "begun" /\ s.ask = [r.ask EXCEPT !.hint = p]
      /\ s.found = r.found
  BY <1>1 DEF RequestInv, RequestField, InSession
<1>5. s.ask \in AskType
  BY <1>1, <1>2, <1>4 DEF AskType
<1> HIDE DEF s
<1>6. RequestInv(s)'
  BY <1>1, <1>2, <1>4, <1>5 DEF RequestInv, Starting, Actor, Hooks
<1> QED
  BY <1>3, <1>4, <1>6, BecomesKeeps DEF s

LEMMA StartSessionKeeps ==
  ASSUME TablesInv, TrafficInv, NEW r \in requests, StartSession(r)
  PROVE  TablesInv' /\ TrafficInv'
<1>1. /\ UNCHANGED <<policy, capsules, meterTables, uses, observed, client, held>>
      /\ r.kind \in Begins
  BY DEF StartSession, Begins
<1>2. CASE /\ Active = {}
           /\ sessions' = Append(sessions, [status |-> "active", project |-> r.ask.hint])
           /\ Begun(r, r.ask.hint, Len(sessions) + 1)
  <2> DEFINE p == r.ask.hint
             i == Len(sessions) + 1
  <2>1. /\ Active = {} /\ i = Len(sessions) + 1 /\ p = r.ask.hint
        /\ sessions' = Append(sessions, [status |-> "active", project |-> p])
    BY <1>2
  <2>2. Becomes(r, InSession(r, p, i))
    BY <1>2 DEF Begun, Becomes, InSession
  <2> HIDE DEF p, i
  <2> QED
    BY <1>1, <2>1, <2>2, StartedKeeps
<1>3. ASSUME NEW i \in Active,
             NoProject \in {sessions[i].project, r.ask.hint} \/ sessions[i].project = r.ask.hint,
             sessions' = [sessions EXCEPT ![i].project = IF @ = NoProject THEN r.ask.hint ELSE @],
             Begun(r, sessions'[i].project, i)
      PROVE  TablesInv' /\ TrafficInv'
  <2> DEFINE p == IF sessions[i].project = NoProject THEN r.ask.hint ELSE sessions[i].project
  <2>1. sessions' = [sessions EXCEPT ![i].project = p]
    BY <1>3
  <2>2. sessions[i].project \in {NoProject, p} /\ p \in {sessions[i].project, r.ask.hint}
    OBVIOUS
  <2>3. sessions'[i].project = p
    <3>1. sessions \in Seq(SessionRow) /\ i \in DOMAIN sessions /\ sessions[i] \in SessionRow
      BY DEF TablesInv, SessionsInv, Active
    <3> HIDE DEF p
    <3> QED
      BY <2>1, <3>1 DEF SessionRow
  <2>4. Becomes(r, InSession(r, p, i))
    BY <1>3, <2>3 DEF Begun, Becomes, InSession
  <2> HIDE DEF p
  <2> QED
    BY <1>1, <2>1, <2>2, <2>4, StartedKeeps
<1> QED
  BY <1>2, <1>3 DEF StartSession

-----------------------------------------------------------------------------
(* Capsules *)

LEMMA ResolveProjectKeeps ==
  ASSUME TablesInv, TrafficInv, NEW r \in requests, ResolveProject(r)
  PROVE  TablesInv' /\ TrafficInv'
<1>1. UNCHANGED tables /\ client' = client
  BY DEF ResolveProject, tables, meterTables
<1>2. TablesInv' /\ TablesGrow
  BY <1>1, TablesStay, TablesKept
<1>3. PICK p : Becomes(r, [r EXCEPT !.project = p, !.stage = "resolving", !.left = Stages(r.ask)])
  BY DEF ResolveProject
<1> DEFINE s == [r EXCEPT !.project = p, !.stage = "resolving", !.left = Stages(r.ask)]
<1>4. RequestInv(r)
  BY DEF TrafficInv
<1>5. /\ DOMAIN s = RequestField /\ s.from = r.from /\ s.n = r.n /\ s.kind = r.kind
      /\ s.session = r.session /\ s.stage = "resolving" /\ s.ask = r.ask
      /\ s.found = r.found /\ s.left = Stages(r.ask)
  BY <1>4 DEF RequestInv, RequestField
<1>6. Becomes(r, s)
  BY <1>3
<1> HIDE DEF s
<1>7. Resolving(s)
  <2>1. r.kind = "query" \/ Starting(r)
    BY <1>4 DEF ResolveProject, RequestInv
  <2>2. /\ s.left \in Seq(StageName)
        /\ r.ask.highRisk => \E i \in 1 .. Len(s.left) : s.left[i] = "ontology-policy"
    BY <1>4, <1>5, StagesShape DEF RequestInv
  <2> QED
    BY <1>5, <2>1, <2>2 DEF Resolving, Starting, PolicyAhead
<1>8. RequestInv(s)
  BY <1>4, <1>5, <1>7 DEF RequestInv
<1> QED
  BY <1>1, <1>2, <1>5, <1>6, <1>8, RequestKept, BecomesKeeps

\* Running the policy stage meets what it was ahead for.
LEMMA RunStageKeeps ==
  ASSUME TablesInv, TrafficInv, NEW r \in requests, RunStage(r)
  PROVE  TablesInv' /\ TrafficInv'
<1>1. UNCHANGED tables /\ client' = client
  BY DEF RunStage, tables, meterTables
<1>2. TablesInv' /\ TablesGrow
  BY <1>1, TablesStay, TablesKept
<1>3. r.stage = "resolving" /\ r.left # << >> /\ RequestInv(r) /\ Resolving(r)
  BY DEF RunStage, TrafficInv, RequestInv
<1>4. PICK o \in StageOutcomes(Head(r.left), r.project, policy) :
        Becomes(r, [r EXCEPT !.left = Tail(@), !.found = @ \cup o.evidence,
                             !.gaps = @ \cup StageGaps(Head(r.left), o)])
  BY DEF RunStage
<1> DEFINE s == [r EXCEPT !.left = Tail(@), !.found = @ \cup o.evidence,
                          !.gaps = @ \cup StageGaps(Head(r.left), o)]
<1>5. /\ DOMAIN s = RequestField /\ s.from = r.from /\ s.n = r.n /\ s.kind = r.kind
      /\ s.session = r.session /\ s.stage = "resolving" /\ s.ask = r.ask
      /\ s.left = Tail(r.left) /\ s.found = r.found \cup o.evidence
      /\ s.gaps = r.gaps \cup StageGaps(Head(r.left), o)
  BY <1>3 DEF RequestInv, RequestField
<1>6. Becomes(r, s)
  BY <1>4
<1> HIDE DEF s
<1>7. /\ Head(r.left) \in StageName /\ Tail(r.left) \in Seq(StageName)
      /\ Len(Tail(r.left)) = Len(r.left) - 1 /\ Head(r.left) = r.left[1] /\ Len(r.left) \in Nat
      /\ \A i \in 1 .. Len(r.left) - 1 : Tail(r.left)[i] = r.left[i + 1]
  BY <1>3, HeadTailProperties, LenProperties DEF Resolving
<1>8. /\ IsFiniteSet(o.evidence)
      /\ Head(r.left) = "ontology-policy" =>
           \/ "no confirmed policy" \in StageGaps(Head(r.left), o)
           \/ \E e \in o.evidence : IsInstruction(e)
  BY <1>7, OutcomesShape
<1>9. IsFiniteSet(s.found)
  BY <1>3, <1>5, <1>8, FS_Union DEF RequestInv
<1>10. ASSUME r.ask.highRisk PROVE PolicyMet(s) \/ PolicyAhead(s)
  <2>1. CASE PolicyMet(r)
    BY <1>5, <2>1 DEF PolicyMet
  <2>2. CASE PolicyAhead(r)
    <3>1. PICK i \in 1 .. Len(r.left) : r.left[i] = "ontology-policy"
      BY <2>2 DEF PolicyAhead
    <3>2. CASE i = 1
      BY <1>5, <1>7, <1>8, <3>1, <3>2 DEF PolicyMet
    <3>3. CASE i # 1
      <4> DEFINE n == Len(r.left)
      <4>1. n \in Nat /\ i \in 1 .. n /\ Len(s.left) = n - 1
        BY <1>5, <1>7
      <4>2. \A j \in 1 .. n - 1 : s.left[j] = r.left[j + 1]
        BY <1>5, <1>7
      <4> HIDE DEF n
      <4>3. i - 1 \in 1 .. n - 1 /\ (i - 1) + 1 = i
        BY <3>3, <4>1
      <4>4. s.left[i - 1] = "ontology-policy"
        BY <3>1, <4>2, <4>3
      <4> QED
        BY <4>1, <4>3, <4>4 DEF PolicyAhead
    <3> QED
      BY <3>2, <3>3
  <2> QED
    BY <1>3, <1>10, <2>1, <2>2 DEF Resolving
<1>11. Resolving(s)
  BY <1>3, <1>5, <1>7, <1>10 DEF Resolving, Starting
<1>12. RequestInv(s)
  BY <1>3, <1>5, <1>9, <1>11 DEF RequestInv
<1> QED
  BY <1>1, <1>2, <1>5, <1>6, <1>12, RequestKept, BecomesKeeps

\* A capsule gets the next id, and is true to what was found for it.
LEMMA PackTables ==
  ASSUME TablesInv, NEW c, c.id = Cardinality(capsules) + 1, AuditIsTrue(c), GapIsSaid(c),
         capsules' = capsules \cup {c},
         UNCHANGED <<policy, sessions, meterTables, uses, observed, held>>
  PROVE  TablesInv' /\ TablesGrow
<1>1. IsFiniteSet(capsules) /\ Cardinality(capsules) \in Nat
  BY FS_CardinalityType DEF TablesInv, CapsulesInv
<1>2. \A d \in capsules : d.id \in 1 .. Cardinality(capsules) /\ d.id # c.id
  <2> DEFINE n == Cardinality(capsules)
  <2>1. n \in Nat /\ c.id = n + 1
    BY <1>1
  <2>2. \A d \in capsules : d.id \in 1 .. n
    BY DEF TablesInv, CapsulesInv
  <2> HIDE DEF n
  <2>3. ASSUME NEW d \in capsules PROVE d.id # c.id
    <3>1. d.id \in 1 .. n
      BY <2>2
    <3> QED
      BY <2>1, <3>1
  <2> QED
    BY <2>2, <2>3 DEF n
<1>3. c \notin capsules
  BY <1>2
<1>4. IsFiniteSet(capsules') /\ Cardinality(capsules') = Cardinality(capsules) + 1
  BY <1>1, <1>3, FS_AddElement
<1>5. \A d \in capsules' : d.id \in 1 .. Cardinality(capsules') /\ AuditIsTrue(d)
  <2> DEFINE n == Cardinality(capsules)
  <2>1. n \in Nat /\ c.id = n + 1 /\ Cardinality(capsules') = n + 1
    BY <1>1, <1>4
  <2>2. \A d \in capsules : d.id \in 1 .. n /\ AuditIsTrue(d)
    BY DEF TablesInv, CapsulesInv
  <2> HIDE DEF n
  <2>3. ASSUME NEW d \in capsules' PROVE d.id \in 1 .. n + 1 /\ AuditIsTrue(d)
    <3>1. CASE d = c
      BY <2>1, <3>1
    <3>2. CASE d # c
      <4>1. d.id \in 1 .. n /\ AuditIsTrue(d)
        BY <2>2, <3>2
      <4> QED
        BY <2>1, <4>1
    <3> QED
      BY <3>1, <3>2
  <2> QED
    BY <2>1, <2>3
<1>6. \A d, e \in capsules' : d.id = e.id => d = e
  BY <1>2 DEF TablesInv, CapsulesInv
<1>7. \A d \in capsules' : GapIsSaid(d)
  BY DEF TablesInv, CapsulesInv
<1>8. CapsulesInv'
  BY <1>4, <1>5, <1>6, <1>7 DEF CapsulesInv
<1>9. SessionsInv' /\ ObservedInv'
  BY DEF TablesInv, SessionsInv, ObservedInv, meterTables, Active, Session, Rank, SessionRow
<1>10. MeterInv' /\ HeldInv' /\ UsesInv'
  BY DEF TablesInv, meterTables, MeterInv, AuditRows, SampleOf, HeldInv, Sampled, Audited,
         UsesInv, UsesAreTrue
<1>11. TablesGrow
  BY DEF TablesGrow, meterTables, Session
<1> QED
  BY <1>8, <1>9, <1>10, <1>11 DEF TablesInv

LEMMA PackKeeps ==
  ASSUME TablesInv, TrafficInv, NEW r \in requests, Pack(r)
  PROVE  TablesInv' /\ TrafficInv'
<1>1. RequestInv(r) /\ Resolving(r) /\ r.left = << >>
  BY DEF Pack, TrafficInv, RequestInv
<1> DEFINE id == Cardinality(capsules) + 1
<1>0. PICK ranked \in Rankings(r.found) :
        \E c : /\ c = CapsuleOf(id, r.ask, r.project, r.gaps, ranked)
              /\ capsules' = capsules \cup {c}
              /\ Becomes(r, [r EXCEPT !.stage = "saving", !.capsule = c,
                                      !.saves = Saves(r.kind)])
  BY DEF Pack
<1>2. PICK c : /\ c = CapsuleOf(id, r.ask, r.project, r.gaps, ranked)
               /\ capsules' = capsules \cup {c}
               /\ Becomes(r, [r EXCEPT !.stage = "saving", !.capsule = c,
                                       !.saves = Saves(r.kind)])
  BY <1>0
<1> DEFINE s == [r EXCEPT !.stage = "saving", !.capsule = c, !.saves = Saves(r.kind)]
<1>3. capsules' = capsules \cup {c} /\ Becomes(r, s)
  BY <1>2
<1>4. r.ask.highRisk => PolicyMet(r)
  BY <1>1 DEF Resolving, PolicyAhead
<1>5. c.id = id /\ AuditIsTrue(c) /\ GapIsSaid(c)
  <2> HIDE DEF id
  <2>1. IsFiniteSet(r.found) /\ r.ask \in AskType
    BY <1>1 DEF RequestInv
  <2>2. PolicySeen(r.ask, r.gaps, r.found)
    BY <1>4 DEF PolicyMet, PolicySeen
  <2>3. LET d == CapsuleOf(id, r.ask, r.project, r.gaps, ranked)
        IN  d.id = id /\ AuditIsTrue(d) /\ GapIsSaid(d)
    BY <2>1, <2>2, CapsuleShape
  <2> QED
    BY <1>2, <2>3
<1>6. UNCHANGED <<policy, sessions, meterTables, uses, observed, held>> /\ client' = client
  BY DEF Pack
<1>7. TablesInv' /\ TablesGrow
  BY <1>3, <1>5, <1>6, PackTables
<1>8. /\ DOMAIN s = RequestField /\ s.from = r.from /\ s.n = r.n /\ s.kind = r.kind
      /\ s.session = r.session /\ s.stage = "saving" /\ s.ask = r.ask
      /\ s.found = r.found /\ s.capsule = c /\ s.saves = Saves(r.kind)
  BY <1>1 DEF RequestInv, RequestField
<1> HIDE DEF s
<1>9. c \in capsules'
  BY <1>3
<1>10. Saving(s)'
  <2>1. CASE r.kind = "query"
    <3>1. s.saves = <<"sample", "audit">>
      BY <1>8, <2>1 DEF Saves
    <3>2. Len(s.saves) = 2
      BY <3>1
    <3> QED
      BY <1>8, <1>9, <3>1, <3>2 DEF Saving, SavesAhead
  <2>2. CASE r.kind # "query"
    <3>1. s.saves = <<"capsule", "intention", "sample", "audit">>
      BY <1>8, <2>2 DEF Saves
    <3>2. Len(s.saves) = 4
      BY <3>1
    <3>3. Starting(s)
      BY <1>1, <1>8, <2>2 DEF Resolving, Starting
    <3> QED
      BY <1>8, <1>9, <3>1, <3>2, <3>3 DEF Saving, SavesAhead, Starting
  <2> QED
    BY <2>1, <2>2
<1>11. RequestInv(s)'
  <2>1. RequestInv(r)'
    BY <1>1, <1>7, RequestKept
  <2> QED
    BY <1>8, <1>10, <2>1 DEF RequestInv
<1> QED
  BY <1>3, <1>6, <1>7, <1>8, <1>11, BecomesKeeps

LEMMA SaveTables ==
  ASSUME TablesInv, NEW c \in capsules,
         intentions' \subseteq Session \ {0},
         samples \subseteq samples', samples' \subseteq samples \cup {SampleOf(c)},
         audits \subseteq audits', audits' \subseteq audits \cup AuditRows(c),
         UNCHANGED <<policy, sessions, capsules, uses, observed, held>>
  PROVE  TablesInv' /\ TablesGrow
<1>1. SessionsInv' /\ ObservedInv' /\ CapsulesInv' /\ UsesInv'
  BY DEF TablesInv, SessionsInv, ObservedInv, Active, Session, Rank, SessionRow,
         CapsulesInv, UsesInv, UsesAreTrue
<1>2. MeterInv'
  BY DEF TablesInv, MeterInv, AuditRows, SampleOf
<1>3. HeldInv'
  BY DEF TablesInv, HeldInv, Sampled, Audited, AuditRows, SampleOf
<1>4. TablesGrow
  BY DEF TablesGrow, Session
<1> QED
  BY <1>1, <1>2, <1>3, <1>4 DEF TablesInv

\* Each save leaves the rest of them ahead, and what it is for stored.
LEMMA SaveKeeps ==
  ASSUME TablesInv, TrafficInv, NEW r \in requests, Save(r)
  PROVE  TablesInv' /\ TrafficInv'
<1>1. RequestInv(r) /\ Saving(r) /\ r.saves # << >> /\ r.stage = "saving"
  BY DEF Save, TrafficInv, RequestInv
<1> DEFINE step == Head(r.saves)
           c == r.capsule
           s == [r EXCEPT !.saves = Tail(@)]
<1>2. /\ intentions' = IF step = "intention" THEN intentions \cup {r.session} ELSE intentions
      /\ samples' = IF step = "sample" THEN samples \cup {SampleOf(c)} ELSE samples
      /\ audits' = IF step = "audit" THEN audits \cup AuditRows(c) ELSE audits
      /\ UNCHANGED <<policy, sessions, capsules, uses, observed, held>> /\ client' = client
      /\ Becomes(r, s)
  BY DEF Save, SampleOf
<1>3. \/ r.saves = <<"capsule", "intention", "sample", "audit">>
      \/ r.saves = <<"intention", "sample", "audit">>
      \/ r.saves = <<"sample", "audit">>
      \/ r.saves = <<"audit">>
  BY <1>1 DEF Saving, SavesAhead
<1>4. step = "intention" => Starting(r)
  <2>1. ASSUME step = "intention" PROVE Len(r.saves) > 2
    BY <1>3, <2>1
  <2> QED
    BY <1>1, <2>1 DEF Saving
<1>5. intentions' \subseteq Session \ {0}
  BY <1>1, <1>2, <1>4 DEF TablesInv, SessionsInv, RequestInv, Starting
<1>6. TablesInv' /\ TablesGrow
  <2> HIDE DEF step
  <2> QED
    BY <1>1, <1>2, <1>5, SaveTables DEF Saving
<1>7. /\ DOMAIN s = RequestField /\ s.from = r.from /\ s.n = r.n /\ s.kind = r.kind
      /\ s.session = r.session /\ s.stage = "saving" /\ s.ask = r.ask
      /\ s.found = r.found /\ s.capsule = c /\ s.saves = Tail(r.saves)
  BY <1>1 DEF RequestInv, RequestField
<1> HIDE DEF s
<1>8. /\ s.saves \in SavesAhead
      /\ Len(s.saves) > 2 => Len(r.saves) > 2
      /\ Len(s.saves) < 2 => step = "sample" \/ Len(r.saves) < 2
      /\ s.saves = << >> => step = "audit"
  <2>1. CASE r.saves = <<"capsule", "intention", "sample", "audit">>
    BY <1>7, <2>1 DEF SavesAhead
  <2>2. CASE r.saves = <<"intention", "sample", "audit">>
    BY <1>7, <2>2 DEF SavesAhead
  <2>3. CASE r.saves = <<"sample", "audit">>
    BY <1>7, <2>3 DEF SavesAhead
  <2>4. CASE r.saves = <<"audit">>
    BY <1>7, <2>4 DEF SavesAhead
  <2> QED
    BY <1>3, <2>1, <2>2, <2>3, <2>4
<1>9. Saving(r)'
  BY <1>1, <1>6, RequestKept DEF RequestInv
<1>10. Saving(s)'
  <2> HIDE DEF step
  <2>1. step = "sample" => Sampled(c)'
    BY <1>2 DEF Sampled, SampleOf
  <2>2. step = "audit" => Audited(c)'
    BY <1>2 DEF Audited, AuditRows
  <2> QED
    BY <1>7, <1>8, <1>9, <2>1, <2>2 DEF Saving, Starting
<1>11. RequestInv(s)'
  <2>1. RequestInv(r)'
    BY <1>1, <1>6, RequestKept
  <2> QED
    BY <1>7, <1>10, <2>1 DEF RequestInv
<1> QED
  BY <1>2, <1>6, <1>7, <1>11, BecomesKeeps

LEMMA AnswerCapsuleKeeps ==
  ASSUME TablesInv, TrafficInv, NEW r \in requests, AnswerCapsule(r)
  PROVE  TablesInv' /\ TrafficInv'
<1>1. RequestInv(r) /\ Saving(r) /\ r.saves = << >>
  BY DEF AnswerCapsule, TrafficInv, RequestInv
<1>2. r.capsule \in capsules /\ Sampled(r.capsule) /\ Audited(r.capsule)
  <2>1. Len(r.saves) = 0
    BY <1>1
  <2> QED
    BY <1>1, <2>1 DEF Saving
<1>3. /\ held' \subseteq held \cup {r.capsule}
      /\ UNCHANGED <<policy, sessions, capsules, meterTables, uses, observed>>
      /\ \/ Answer(r, Reports(r, "context_read", 0))
         \/ Answer(r, Reports(r, "session_started", r.session))
  BY DEF AnswerCapsule
<1>4. TablesGrow
  BY <1>3 DEF TablesGrow, Session, meterTables
<1>5. SessionsInv' /\ CapsulesInv' /\ MeterInv' /\ UsesInv' /\ ObservedInv'
  BY <1>3 DEF TablesInv, meterTables, SessionsInv, Active, Session, SessionRow, CapsulesInv, MeterInv,
     AuditRows, SampleOf, UsesInv, UsesAreTrue, ObservedInv, Rank
<1>6. HeldInv'
  BY <1>2, <1>3 DEF TablesInv, meterTables, HeldInv, Sampled, Audited, AuditRows, SampleOf
<1>7. r.n \in Nat /\ 0 \in Session' /\ r.session \in Session'
  BY <1>1, <1>3 DEF RequestInv, Session
<1>8. /\ MayDo(r, Reports(r, "context_read", 0))
      /\ MayDo(r, Reports(r, "session_started", r.session))
  BY <1>7, ReportsMayDo
<1> QED
  BY <1>3, <1>4, <1>5, <1>6, <1>8, AnswerKeeps DEF TablesInv

\* What the meter says of a capsule is true of the one capsule of that id.
LEMMA RecordUseKeeps ==
  ASSUME TablesInv, TrafficInv, NEW r \in requests, RecordUse(r)
  PROVE  TablesInv' /\ TrafficInv'
<1>1. /\ UNCHANGED <<policy, sessions, capsules, meterTables, observed, held>>
      /\ Answer(r, Rests(r))
  BY DEF RecordUse
<1>2. TablesGrow
  BY <1>1 DEF TablesGrow, Session, meterTables
<1> DEFINE project == sessions[r.session].project
           u == [session |-> r.session, capsule |-> r.capsule.id, ids |-> r.ids]
<1>3. /\ r.session \in DOMAIN sessions /\ project # NoProject
      /\ uses' = uses \cup {u}
      /\ [capsule |-> r.capsule.id, project |-> project] \in samples
      /\ \A i \in r.ids : [capsule |-> r.capsule.id, id |-> i, selected |-> TRUE] \in audits
  BY DEF RecordUse, ValidUse, Active
<1>4. PICK c \in capsules : c.id = r.capsule.id /\ c.project = project
  <2>1. PICK c \in capsules : [capsule |-> r.capsule.id, project |-> project] = SampleOf(c)
    BY <1>3 DEF TablesInv, MeterInv
  <2> QED
    BY <2>1 DEF SampleOf
<1>5. ASSUME NEW i \in r.ids PROVE i \in {e.id : e \in c.evidence}
  <2>1. PICK d \in capsules : [capsule |-> r.capsule.id, id |-> i, selected |-> TRUE] \in AuditRows(d)
    BY <1>3 DEF TablesInv, MeterInv
  <2>2. PICK a \in d.audit : [capsule |-> r.capsule.id, id |-> i, selected |-> TRUE]
                               = [capsule |-> d.id, id |-> a.evidence.id, selected |-> a.selected]
    BY <2>1 DEF AuditRows
  <2>3. d.id = r.capsule.id /\ a.evidence.id = i /\ a.selected = TRUE
    BY <2>2
  <2>4. d = c
    BY <1>4, <2>3 DEF TablesInv, CapsulesInv
  <2>5. a.evidence \in c.evidence
    BY <1>4, <2>3, <2>4 DEF TablesInv, CapsulesInv, AuditIsTrue
  <2> QED
    BY <2>3, <2>5
<1>6. /\ u.session = r.session /\ u.capsule = r.capsule.id /\ u.ids = r.ids
  OBVIOUS
<1>7. UsesInv'
  <2> HIDE DEF u
  <2>1. ASSUME NEW v \in uses'
        PROVE  /\ \E b \in capsules : /\ b.id = v.capsule /\ v.ids \subseteq {e.id : e \in b.evidence}
                                      /\ b.project = sessions[v.session].project
               /\ v.session \in DOMAIN sessions /\ sessions[v.session].project # NoProject
    <3>1. CASE v = u
      BY <1>3, <1>4, <1>5, <1>6, <3>1
    <3>2. CASE v # u
      BY <1>3, <3>2 DEF TablesInv, UsesInv, UsesAreTrue
    <3> QED
      BY <3>1, <3>2
  <2> QED
    BY <1>1, <2>1 DEF UsesInv, UsesAreTrue
<1>8. SessionsInv' /\ CapsulesInv' /\ MeterInv' /\ HeldInv' /\ ObservedInv'
  BY <1>1 DEF TablesInv, meterTables, SessionsInv, Active, Session, SessionRow, CapsulesInv, MeterInv,
     AuditRows, SampleOf, HeldInv, Sampled, Audited, ObservedInv, Rank
<1> QED
  BY <1>1, <1>2, <1>7, <1>8, RestsMayDo, AnswerKeeps DEF TablesInv

LEMMA ObserveClientKeeps ==
  ASSUME TablesInv, TrafficInv, NEW r \in requests, ObserveClient(r)
  PROVE  TablesInv' /\ TrafficInv'
<1>1. /\ UNCHANGED <<policy, sessions, capsules, meterTables, uses, held>>
      /\ Answer(r, Rests(r)) /\ observed' = Merged(observed, r)
  BY DEF ObserveClient
<1>2. TablesGrow
  BY <1>1 DEF TablesGrow, Session, meterTables
<1>3. SessionsInv' /\ CapsulesInv' /\ MeterInv' /\ HeldInv' /\ UsesInv'
  BY <1>1 DEF TablesInv, meterTables, SessionsInv, Active, Session, SessionRow, CapsulesInv, MeterInv,
     AuditRows, SampleOf, HeldInv, Sampled, Audited, UsesInv, UsesAreTrue
<1>4. ObservedInv'
  <2>1. Session' = Session /\ r.session \in Session
    BY <1>1 DEF Session, TrafficInv, RequestInv
  <2>2. observed.mode \in DOMAIN Rank /\ Mode(r.event) \in DOMAIN Rank
    BY DEF TablesInv, ObservedInv, Rank, Mode
  <2> QED
    BY <1>1, <2>1, <2>2 DEF TablesInv, ObservedInv, Merged, Rank
<1> QED
  BY <1>1, <1>2, <1>3, <1>4, RestsMayDo, AnswerKeeps DEF TablesInv

LEMMA ChangePolicyKeeps ==
  ASSUME TablesInv, TrafficInv, Operate
  PROVE  TablesInv' /\ TrafficInv'
<1>1. PICK q \in Policy, state \in {"confirmed", "rejected"} : ChangePolicy(q, state)
  BY DEF Operate
<1>2. /\ UNCHANGED <<sessions, capsules, meterTables, uses, observed, requests, client, held>>
      /\ policy' = [policy EXCEPT ![q] = state]
  BY <1>1 DEF ChangePolicy
<1>3. TablesGrow
  BY <1>2 DEF TablesGrow, Session, meterTables
<1>4. SessionsInv'
  BY <1>2 DEF TablesInv, meterTables, SessionsInv, Active, Session, SessionRow
<1>5. CapsulesInv' /\ MeterInv' /\ HeldInv' /\ UsesInv' /\ ObservedInv'
  BY <1>2 DEF TablesInv, meterTables, CapsulesInv, MeterInv, Session,
     AuditRows, SampleOf, HeldInv, Sampled, Audited, UsesInv, UsesAreTrue, ObservedInv, Rank
<1>6. TrafficInv'
  BY <1>2, <1>3, RequestKept, ClientsKept DEF TrafficInv, Waits, AwaitedBy, Actor, Hooks
<1> QED
  BY <1>4, <1>5, <1>6 DEF TablesInv

-----------------------------------------------------------------------------
(* Every step *)

LEMMA HandleKeeps ==
  ASSUME TablesInv, TrafficInv, NEW r \in requests, Handle(r)
  PROVE  TablesInv' /\ TrafficInv'
<1>1. CASE Fail(r) \/ RefuseStart(r)
  BY <1>1, FailKeeps DEF RefuseStart
<1>2. CASE StartSession(r)
  BY <1>2, StartSessionKeeps
<1>3. CASE CompleteSession(r)
  BY <1>3, CompleteSessionKeeps
<1>4. CASE EndSession(r)
  BY <1>4, EndSessionKeeps
<1>5. CASE ResolveProject(r)
  BY <1>5, ResolveProjectKeeps
<1>6. CASE RunStage(r)
  BY <1>6, RunStageKeeps
<1>7. CASE Pack(r)
  BY <1>7, PackKeeps
<1>8. CASE Save(r)
  BY <1>8, SaveKeeps
<1>9. CASE AnswerCapsule(r)
  BY <1>9, AnswerCapsuleKeeps
<1>10. CASE RecordUse(r)
  BY <1>10, RecordUseKeeps
<1>11. CASE ObserveClient(r)
  BY <1>11, ObserveClientKeeps
<1> QED
  BY <1>1, <1>2, <1>3, <1>4, <1>5, <1>6, <1>7, <1>8, <1>9, <1>10, <1>11 DEF Handle

LEMMA ClientActs ==
  ASSUME TablesInv, TrafficInv, HooksRun \/ McpRuns
  PROVE  TrafficInv' /\ UNCHANGED tables
<1>1. "mcp" \in Actor /\ Hooks \subseteq Actor
  BY DEF Actor
<1>2. SessionsInv
  BY DEF TablesInv
<1> QED
  BY <1>1, <1>2, HookSendsKeep, ObservationKeeps, GiveUpKeeps, CallKeeps DEF HooksRun, McpRuns

LEMMA ClientsUndisturbed ==
  ASSUME TablesInv, TrafficInv, UNCHANGED clientsVars
  PROVE  TablesInv' /\ TrafficInv'
<1>1. UNCHANGED tables /\ requests' = requests /\ client' = client
  BY DEF clientsVars, tables, meterTables
<1>2. client' \in [Actor -> ClientState]
  BY <1>1 DEF TrafficInv
<1> QED
  BY <1>1, <1>2, TablesStay, ClientsRest

LEMMA ClientsStep ==
  ASSUME ClientsInv, [Next]_allVars
  PROVE  ClientsInv'
<1>0. TablesInv /\ TrafficInv
  BY DEF ClientsInv
<1>1. CASE UNCHANGED clientsVars
  BY <1>0, <1>1, ClientsUndisturbed DEF ClientsInv
<1>2. CASE Dies
  BY <1>0, <1>2, DiesKeeps, TablesStay DEF ClientsInv
<1>3. CASE Operate
  BY <1>0, <1>3, ChangePolicyKeeps DEF ClientsInv
<1>4. CASE HooksRun \/ McpRuns
  BY <1>0, <1>4, ClientActs, TablesStay DEF ClientsInv
<1>5. CASE DaemonRuns
  BY <1>0, <1>5, HandleKeeps DEF ClientsInv, DaemonRuns
<1> QED
  BY <1>1, <1>2, <1>3, <1>4, <1>5 DEF Next, DaemonLives, ThreadActs, GatewayActs, allVars

LEMMA ClientsStart == ClientsInit => ClientsInv
<1> SUFFICES ASSUME ClientsInit PROVE ClientsInv
  OBVIOUS
<1> USE DEF ClientsInit
<1>1. Session = {0} /\ Active = {} /\ sessions \in Seq(SessionRow)
  BY DEF Session, Active
<1>2. SessionsInv
  BY <1>1 DEF SessionsInv
<1>3. CapsulesInv
  BY FS_EmptySet DEF CapsulesInv
<1>4. MeterInv /\ HeldInv /\ UsesInv
  BY DEF MeterInv, HeldInv, UsesInv, UsesAreTrue
<1>5. ObservedInv
  BY <1>1 DEF ObservedInv, Unseen, Rank
<1>6. /\ client \in [Actor -> ClientState] /\ \A a \in Actor : ~ Waits(a)
  BY <1>1 DEF Doing, ClientState, Waits
<1>7. TrafficInv
  BY <1>6 DEF TrafficInv
<1> QED
  BY <1>2, <1>3, <1>4, <1>5, <1>7 DEF ClientsInv, TablesInv

\* The tables the thread's clients share and the requests in hand keep in step,
\* whatever fails, is given up or is killed.
THEOREM ClientsInvariant == Spec => []ClientsInv
<1>1. Init => ClientsInv
  BY ClientsStart DEF Init
<1> QED
  BY <1>1, ClientsStep, PTL DEF Spec

\* Types, at most one active session of the thread, and a request in hand for
\* whoever waits.
THEOREM ClientsTypeCorrect == Spec => []ClientsTypeOK
<1>1. ClientsInv => ClientsTypeOK
  <2> SUFFICES ASSUME ClientsInv PROVE ClientsTypeOK
    OBVIOUS
  <2> USE DEF ClientsInv
  <2>1. /\ policy \in [Policy -> {"candidate", "confirmed", "rejected"}]
        /\ intentions \subseteq Session \ {0}
    BY DEF TablesInv, SessionsInv
  <2>2. \A i \in DOMAIN sessions : /\ sessions[i].status \in {"active", "closed"}
                                   /\ sessions[i].project \in Project \cup {NoProject}
    <3>1. sessions \in Seq(SessionRow)
      BY DEF TablesInv, SessionsInv
    <3>2. \A i \in DOMAIN sessions : sessions[i] \in SessionRow
      BY <3>1
    <3> QED
      BY <3>2 DEF SessionRow
  <2>3. Cardinality(Active) <= 1
    <3>1. CASE Active = {}
      BY <3>1, FS_EmptySet
    <3>2. CASE Active # {}
      <4>1. PICK i \in Active : Active = {i}
        BY <3>2 DEF TablesInv, SessionsInv
      <4> QED
        BY <4>1, FS_Singleton
    <3> QED
      BY <3>1, <3>2
  <2>4. observed.mode \in DOMAIN Rank /\ observed.session \in Session /\ held \subseteq capsules
    BY DEF TablesInv, ObservedInv, HeldInv
  <2>5. \A r \in requests : r.from \in Actor /\ r.session \in Session /\ r.n <= client[r.from].n
    BY DEF TrafficInv, RequestInv
  <2>6. \A a \in Actor : /\ client[a].session \in Session
                         /\ Waits(a) => \E r \in requests : WaitsFor(r) /\ r.from = a
    BY DEF TrafficInv, ClientState, AwaitedBy, WaitsFor
  <2> QED
    BY <2>1, <2>2, <2>3, <2>4, <2>5, <2>6 DEF ClientsTypeOK
<1> QED
  BY <1>1, ClientsInvariant, PTL

\* A capsule for a high-risk intention never keeps silent about policies: not
\* when they change between its stages, the stage fails or the budget is short.
THEOREM PolicyGapSaid == Spec => []PolicyGapIsSaid
<1>1. ClientsInv => PolicyGapIsSaid
  BY DEF ClientsInv, TablesInv, CapsulesInv, GapIsSaid, IsInstruction, PolicyGapIsSaid
<1> QED
  BY <1>1, ClientsInvariant, PTL

\* No client holds a capsule whose measurement is not stored whole.
THEOREM HeldIsMeasured == Spec => []AnsweredIsMeasured
<1>1. ClientsInv => AnsweredIsMeasured
  <2> SUFFICES ASSUME ClientsInv, NEW c \in held
               PROVE  /\ [capsule |-> c.id, project |-> c.project] \in samples
                      /\ {a \in audits : a.capsule = c.id} = AuditRows(c)
    BY DEF AnsweredIsMeasured
  <2>1. c \in capsules /\ SampleOf(c) \in samples /\ AuditRows(c) \subseteq audits
    BY DEF ClientsInv, TablesInv, HeldInv, Sampled, Audited
  <2>2. \A a \in AuditRows(c) : a.capsule = c.id
    BY DEF AuditRows
  <2>3. ASSUME NEW a \in audits, a.capsule = c.id PROVE a \in AuditRows(c)
    <3>1. PICK d \in capsules : a \in AuditRows(d)
      BY DEF ClientsInv, TablesInv, MeterInv
    <3>2. d.id = c.id
      BY <2>3, <3>1 DEF AuditRows
    <3>3. d = c
      BY <2>1, <3>2 DEF ClientsInv, TablesInv, CapsulesInv
    <3> QED
      BY <3>1, <3>3
  <2> QED
    BY <2>1, <2>2, <2>3 DEF SampleOf
<1> QED
  BY <1>1, ClientsInvariant, PTL

\* What a client says it used was in its capsule, and of its session's project.
THEOREM UsesTrue == Spec => []UsesAreTrue
<1>1. ClientsInv => UsesAreTrue
  BY DEF ClientsInv, TablesInv, UsesInv
<1> QED
  BY <1>1, ClientsInvariant, PTL

\* The thread's row forgets nothing, whatever order observations arrive in.
THEOREM ObservationsKept == Spec => ObservationNeverForgets
<1> DEFINE A == /\ Rank[observed'.mode] >= Rank[observed.mode]
                /\ observed.session # 0 => observed'.session # 0
                /\ observed.first => observed'.first
                /\ observed.completed => observed'.completed
                /\ observed.hook => observed'.hook
                /\ observed.mcp => observed'.mcp
<1>1. ASSUME ClientsInv, [Next]_allVars PROVE [A]_clientsVars
  <2>1. ObservedInv
    BY <1>1 DEF ClientsInv, TablesInv
  <2>2. CASE observed' = observed
    BY <2>1, <2>2 DEF ObservedInv, Rank
  <2>3. ASSUME NEW r \in requests, ObserveClient(r) PROVE A
    <3>1. observed' = Merged(observed, r) /\ Mode(r.event) \in DOMAIN Rank
      BY <2>3 DEF ObserveClient, Mode, Rank
    <3> QED
      BY <2>1, <3>1 DEF ObservedInv, Merged, Rank
  <2> QED
    BY <1>1, <2>2, <2>3
    DEF Next, DaemonLives, ThreadActs, GatewayActs, allVars, clientsVars, Dies, Operate, ChangePolicy,
        HooksRun, McpRuns, SendBootstrap, SendEnd, SendObservation, CallTool, Call, Send, GiveUp,
        DaemonRuns, Handle, Fail, StartSession, RefuseStart, CompleteSession, EndSession,
        ResolveProject, RunStage, Pack, Save, AnswerCapsule, RecordUse
<1> QED
  BY <1>1, ClientsInvariant, PTL DEF Spec, ObservationNeverForgets

-----------------------------------------------------------------------------
(* The gateway beside them *)

\* Beside the clients, and a daemon that comes and goes, the gateway does what
\* it does alone.
THEOREM GatewayIsAlone == Spec => GatewaySpec
<1>1. Init => GatewayInit
  BY DEF Init
<1>2. [Next]_allVars => [GatewayNext]_gatewayVars
  BY DEF Next, DaemonLives, ThreadActs, GatewayActs, allVars
<1> QED
  BY <1>1, <1>2, PTL DEF Spec, GatewaySpec

\* So a pairing secret is good for one session ...
THEOREM SecretUsedOnceBesideClients == Spec => []CodeUsedOnce
BY GatewayIsAlone, PairingSecretUsedOnce, PTL

\* ... and its file survives.
THEOREM SecretSurvivesBesideClients == Spec => SecretSurvives
BY GatewayIsAlone, SecretFilesSurvive, PTL
==============================================================================
