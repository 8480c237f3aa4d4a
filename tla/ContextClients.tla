--------------------------- MODULE ContextClients ---------------------------
(***************************************************************************)
(* The clients of one Codex thread and the daemon they call: the           *)
(* SessionStart and SessionEnd hooks and the MCP server.  They begin and   *)
(* end the thread's session, ask for capsules, report what they used of    *)
(* them and let themselves be observed.  A client that gives up on a       *)
(* request does not take it back: the daemon goes on with it, beside the   *)
(* next ones.  Policies change meanwhile and the daemon may be killed.     *)
(*                                                                         *)
(* Sessions commit here in one step each, as in SessionContract.           *)
(***************************************************************************)
EXTENDS ContextCapsule, DaemonProcess

CONSTANTS HookAsk   \* the request of a bootstrap: tokenBudget, workflow session_start
ASSUME HookAskAssumption == HookAsk \in Ask

VARIABLES
  policy,      \* retrieval_policies: confirmation_state
  sessions,    \* agent_sessions of the thread, in the order they were begun
  capsules,    \* every capsule the daemon has put together
  capsuleRows, \* context_capsules, by id
  intentions,  \* sessions whose intention is resolved
  samples,     \* context_meter_samples
  audits,      \* context_meter_evidence_samples
  uses,        \* activities of type context.used
  observed,    \* agent_client_observations: the thread's row
  requests,    \* what the daemon has in hand
  client,      \* the thread's clients
  held         \* capsules the clients have received

meterTables == <<capsuleRows, intentions, samples, audits>>
clientsVars == <<policy, sessions, capsules, capsuleRows, intentions, samples, audits, uses,
                 observed, requests, client, held>>

Hooks == {"start", "end"}
Actor == Hooks \cup {"mcp"}
NoCapsule == [id |-> 0]
Unseen == [mode |-> "unseen", session |-> 0, first |-> FALSE, completed |-> FALSE,
           hook |-> FALSE, mcp |-> FALSE]

\* A client is waiting for its n-th request, or about to do what "stage" says.
Doing(stage, event, session, n) ==
  [stage |-> stage, event |-> event, session |-> session, n |-> n]

\* The MCP server and the SessionStart hook let themselves be observed first.
ClientsInit ==
  /\ policy = [q \in Policy |-> "candidate"]
  /\ sessions = <<>>
  /\ capsules = {} /\ capsuleRows = {} /\ intentions = {} /\ samples = {} /\ audits = {}
  /\ uses = {}
  /\ observed = Unseen
  /\ requests = {}
  /\ client = [a \in Actor |-> IF a = "end" THEN Doing("idle", "none", 0, 0)
                               ELSE Doing("observe", "initialized", 0, 0)]
  /\ held = {}

\* The operator confirms and rejects policies.
ChangePolicy(q, state) ==
  /\ <<policy[q], state>> \in {<<"candidate", "confirmed">>, <<"candidate", "rejected">>,
                               <<"confirmed", "rejected">>}
  /\ policy' = [policy EXCEPT ![q] = state]
  /\ UNCHANGED <<sessions, capsules, meterTables, uses, observed, requests, client, held>>

-----------------------------------------------------------------------------
(* The clients *)

Request(a, kind) ==
  [from |-> a, n |-> client[a].n + 1, kind |-> kind, stage |-> "arrived", ask |-> HookAsk,
   event |-> "none", session |-> 0, capsule |-> NoCapsule, ids |-> {}, project |-> NoProject,
   left |-> <<>>, found |-> {}, gaps |-> {}, saves |-> <<>>]

\* What a client does after an observation, and after a call that failed.
Resting(a, c) ==
  IF a = "mcp" THEN Doing("idle", "none", 0, c.n)
  ELSE IF a = "start" /\ c.event = "initialized" THEN Doing("bootstrap", "none", 0, c.n)
  ELSE Doing("done", "none", 0, c.n)

Waits(a) == client[a].stage = "waiting"
WaitsFor(r) == Waits(r.from) /\ client[r.from].n = r.n

Send(a, request) ==
  /\ \/ /\ daemon = "up"
        /\ requests' = requests \cup {request}
        /\ client' = [client EXCEPT ![a] =
             Doing("waiting", request.event, request.session, @.n + 1)]
     \/ /\ daemon = "down"
        /\ client' = [client EXCEPT ![a] = Resting(a, [@ EXCEPT !.event = request.event])]
        /\ UNCHANGED requests
  /\ UNCHANGED <<policy, sessions, capsules, meterTables, uses, observed, held>>

SendObservation(a) ==
  /\ client[a].stage = "observe"
  /\ Send(a, [Request(a, "observe") EXCEPT !.event = client[a].event,
                                           !.session = client[a].session])

\* handleSessionStart, after its thread batches (CodexThreadSync)
SendBootstrap ==
  /\ client["start"].stage = "bootstrap"
  /\ Send("start", Request("start", "bootstrap"))

SendEnd ==
  /\ client["start"].stage = "done"
  /\ client["end"].stage = "idle"
  /\ Send("end", Request("end", "end"))

\* The MCP server's queue: one tool call at a time.
Call(request) ==
  /\ client["mcp"].stage = "idle"
  /\ Send("mcp", request)

CallTool ==
  \/ \E ask \in Ask, kind \in {"begin", "query"} : Call([Request("mcp", kind) EXCEPT !.ask = ask])
  \/ \E i \in DOMAIN sessions : Call([Request("mcp", "complete") EXCEPT !.session = i])
  \/ \E i \in DOMAIN sessions, c \in capsules, ids \in SUBSET (Policy \cup Source) :
       /\ ids # {}
       /\ Call([Request("mcp", "use") EXCEPT !.session = i, !.capsule = [id |-> c.id], !.ids = ids])

\* Hooks give up on every request after timeoutMs, the MCP server only on
\* observations.
GiveUp(a) ==
  /\ Waits(a)
  /\ a \in Hooks \/ client[a].event # "none"
  /\ client' = [client EXCEPT ![a] = Resting(a, @)]
  /\ UNCHANGED <<policy, sessions, capsules, meterTables, uses, observed, requests, held>>

-----------------------------------------------------------------------------
(* The daemon's answers *)

Leaves(r) == requests' = requests \ {r}
Becomes(r, s) == requests' = (requests \ {r}) \cup {s}

\* An answer that nobody waits for is lost.
Answer(r, next) ==
  /\ Leaves(r)
  /\ client' = IF WaitsFor(r) THEN [client EXCEPT ![r.from] = next] ELSE client

\* After its result a client reports the event.
Reports(r, event, session) == Doing("observe", event, session, r.n)
Rests(r) == Resting(r.from, client[r.from])

\* A statement fails, the pool is exhausted: 500.
\* (Mutant of Fail: the request is dropped, and nobody is told.)
FailUnanswered(r) ==
  /\ Leaves(r)
  /\ UNCHANGED <<policy, sessions, capsules, meterTables, uses, observed, client, held>>
Fail(r) ==
  /\ Answer(r, Rests(r))
  /\ UNCHANGED <<policy, sessions, capsules, meterTables, uses, observed, held>>

Dies ==
  /\ DaemonStops
  /\ requests' = {}
  /\ client' = [a \in Actor |-> IF Waits(a) THEN Resting(a, client[a]) ELSE client[a]]
  /\ UNCHANGED <<policy, sessions, capsules, meterTables, uses, observed, held>>

-----------------------------------------------------------------------------
(* Sessions *)

Active == {i \in DOMAIN sessions : sessions[i].status = "active"}

\* The active session of the thread is resumed, and may adopt a project.  The
\* first capsule is asked for with the name of the session's project.
Begun(r, project, i) ==
  Becomes(r, [r EXCEPT !.session = i, !.stage = "begun", !.ask.hint = project])

StartSession(r) ==
  /\ r.kind \in {"begin", "bootstrap"} /\ r.stage = "arrived"
  /\ \/ /\ Active = {}
        /\ sessions' = Append(sessions, [status |-> "active", project |-> r.ask.hint])
        /\ Begun(r, r.ask.hint, Len(sessions) + 1)
     \/ \E i \in Active :
          /\ NoProject \in {sessions[i].project, r.ask.hint} \/ sessions[i].project = r.ask.hint
          /\ sessions' = [sessions EXCEPT ![i].project = IF @ = NoProject THEN r.ask.hint ELSE @]
          /\ Begun(r, sessions'[i].project, i)
  /\ UNCHANGED <<policy, capsules, meterTables, uses, observed, client, held>>

\* A project the thread does not belong to, or none for a bootstrap.
RefuseStart(r) ==
  /\ r.stage = "arrived"
  /\ \/ r.kind = "bootstrap"
     \/ /\ r.kind = "begin"
        /\ \E i \in Active : NoProject \notin {sessions[i].project, r.ask.hint}
                             /\ sessions[i].project # r.ask.hint
  /\ Fail(r)

CompleteSession(r) ==
  /\ r.kind = "complete" /\ r.session \in Active
  /\ sessions' = [sessions EXCEPT ![r.session].status = "closed"]
  /\ Answer(r, Reports(r, "session_completed", r.session))
  /\ UNCHANGED <<policy, capsules, meterTables, uses, observed, held>>

\* endSessionFromClientLifecycle; without an active session nothing is closed.
EndSession(r) ==
  /\ r.kind = "end"
  /\ \E i \in Active :
       /\ sessions' = [sessions EXCEPT ![i].status = "closed"]
       /\ Answer(r, Reports(r, "session_completed", i))
  /\ UNCHANGED <<policy, capsules, meterTables, uses, observed, held>>

-----------------------------------------------------------------------------
(* Capsules *)

\* The project is resolved once; a hint may name none, or several.
ResolveProject(r) ==
  /\ r.stage = "begun" \/ (r.kind = "query" /\ r.stage = "arrived")
  /\ \E p \in {r.ask.hint, NoProject} :
       Becomes(r, [r EXCEPT !.project = p, !.stage = "resolving", !.left = Stages(r.ask)])
  /\ UNCHANGED <<policy, sessions, capsules, meterTables, uses, observed, client, held>>

\* One stage after the other; each reads the tables as they are by then.
RunStage(r) ==
  /\ r.stage = "resolving" /\ r.left # <<>>
  /\ \E o \in StageOutcomes(Head(r.left), r.project, policy) :
       Becomes(r, [r EXCEPT !.left = Tail(@), !.found = @ \cup o.evidence,
                            !.gaps = @ \cup StageGaps(Head(r.left), o)])
  /\ UNCHANGED <<policy, sessions, capsules, meterTables, uses, observed, client, held>>

\* Each save is a statement that commits by itself; a query saves its meter only.
\* (Mutant of Saves: a query saves its meter without the audit.)
SavesWithoutAudit(kind) ==
  IF kind = "query" THEN <<"sample">> ELSE <<"capsule", "intention", "sample", "audit">>
Saves(kind) ==
  IF kind = "query" THEN <<"sample", "audit">> ELSE <<"capsule", "intention", "sample", "audit">>

Pack(r) ==
  /\ r.stage = "resolving" /\ r.left = <<>>
  /\ \E ranked \in Rankings(r.found) :
       LET c == CapsuleOf(Cardinality(capsules) + 1, r.ask, r.project, r.gaps, ranked)
       IN /\ capsules' = capsules \cup {c}
          /\ Becomes(r, [r EXCEPT !.stage = "saving", !.capsule = c, !.saves = Saves(r.kind)])
  /\ UNCHANGED <<policy, sessions, meterTables, uses, observed, client, held>>

AuditRows(c) == {[capsule |-> c.id, id |-> a.evidence.id, selected |-> a.selected] : a \in c.audit}

Save(r) ==
  /\ r.stage = "saving" /\ r.saves # <<>>
  /\ LET step == Head(r.saves)
         c == r.capsule
     IN /\ capsuleRows' = IF step = "capsule" THEN capsuleRows \cup {c.id} ELSE capsuleRows
        /\ intentions' = IF step = "intention" THEN intentions \cup {r.session} ELSE intentions
        /\ samples' = IF step = "sample" THEN samples \cup {[capsule |-> c.id, project |-> c.project]}
                      ELSE samples
        /\ audits' = IF step = "audit" THEN audits \cup AuditRows(c) ELSE audits
  /\ Becomes(r, [r EXCEPT !.saves = Tail(@)])
  /\ UNCHANGED <<policy, sessions, capsules, uses, observed, client, held>>

AnswerCapsule(r) ==
  /\ r.stage = "saving" /\ r.saves = <<>>
  /\ held' = IF WaitsFor(r) THEN held \cup {r.capsule} ELSE held
  /\ Answer(r, IF r.kind = "query" THEN Reports(r, "context_read", 0)
               ELSE Reports(r, "session_started", r.session))
  /\ UNCHANGED <<policy, sessions, capsules, meterTables, uses, observed>>

\* validateContextUse: the capsule's sample is of the session's project, and its
\* audit has every piece as selected.
\* (Mutant of ValidUse: a piece that was only a candidate will do.)
ValidUseOfCandidate(r) ==
  /\ sessions[r.session].project # NoProject
  /\ [capsule |-> r.capsule.id, project |-> sessions[r.session].project] \in samples
  /\ \A i \in r.ids : \E a \in audits : a.capsule = r.capsule.id /\ a.id = i
ValidUse(r) ==
  /\ sessions[r.session].project # NoProject
  /\ [capsule |-> r.capsule.id, project |-> sessions[r.session].project] \in samples
  /\ \A i \in r.ids : [capsule |-> r.capsule.id, id |-> i, selected |-> TRUE] \in audits

RecordUse(r) ==
  /\ r.kind = "use" /\ r.session \in Active
  /\ ValidUse(r)
  /\ uses' = uses \cup {[session |-> r.session, capsule |-> r.capsule.id, ids |-> r.ids]}
  /\ Answer(r, Rests(r))
  /\ UNCHANGED <<policy, sessions, capsules, meterTables, observed, held>>

-----------------------------------------------------------------------------
(* Observations *)

Mode(event) ==
  CASE event \in {"session_started", "session_completed"} -> "session"
    [] event = "context_read" -> "read"
    [] OTHER -> "none"
Rank == [unseen |-> 0, none |-> 1, read |-> 2, session |-> 3]

\* observeAgentClient: INSERT ... ON CONFLICT DO UPDATE
\* (Mutant of Merged: the session of the last observation, with or without one.)
MergedByLast(row, r) ==
  [mode |-> IF Rank[row.mode] > Rank[Mode(r.event)] THEN row.mode ELSE Mode(r.event),
   session |-> r.session,
   first |-> row.first \/ Mode(r.event) # "none",
   completed |-> row.completed \/ r.event = "session_completed",
   hook |-> row.hook \/ r.from \in Hooks,
   mcp |-> row.mcp \/ r.from = "mcp"]
Merged(row, r) ==
  [mode |-> IF Rank[row.mode] > Rank[Mode(r.event)] THEN row.mode ELSE Mode(r.event),
   session |-> IF r.session # 0 THEN r.session ELSE row.session,
   first |-> row.first \/ Mode(r.event) # "none",
   completed |-> row.completed \/ r.event = "session_completed",
   hook |-> row.hook \/ r.from \in Hooks,
   mcp |-> row.mcp \/ r.from = "mcp"]

ObserveClient(r) ==
  /\ r.kind = "observe"
  /\ observed' = Merged(observed, r)
  /\ Answer(r, Rests(r))
  /\ UNCHANGED <<policy, sessions, capsules, meterTables, uses, held>>

-----------------------------------------------------------------------------
Operate == \E q \in Policy, state \in {"confirmed", "rejected"} : ChangePolicy(q, state)

HooksRun == SendBootstrap \/ SendEnd \/ (\E a \in Hooks : SendObservation(a) \/ GiveUp(a))

McpRuns == SendObservation("mcp") \/ CallTool \/ GiveUp("mcp")

Handle(r) ==
  \/ Fail(r)
  \/ StartSession(r) \/ RefuseStart(r) \/ CompleteSession(r) \/ EndSession(r)
  \/ ResolveProject(r) \/ RunStage(r) \/ Pack(r) \/ Save(r) \/ AnswerCapsule(r)
  \/ RecordUse(r) \/ ObserveClient(r)

DaemonRuns == \E r \in requests : Handle(r)

-----------------------------------------------------------------------------
Session == 0 .. Len(sessions)

ClientsTypeOK ==
  /\ policy \in [Policy -> {"candidate", "confirmed", "rejected"}]
  /\ \A i \in DOMAIN sessions : /\ sessions[i].status \in {"active", "closed"}
                                /\ sessions[i].project \in Project \cup {NoProject}
  /\ Cardinality(Active) <= 1
  /\ observed.mode \in DOMAIN Rank /\ observed.session \in Session
  /\ intentions \subseteq Session \ {0}
  /\ held \subseteq capsules
  /\ \A r \in requests : /\ r.from \in Actor /\ r.session \in Session
                         /\ r.n <= client[r.from].n
  /\ \A a \in Actor : /\ client[a].session \in Session
                      /\ Waits(a) => \E r \in requests : WaitsFor(r) /\ r.from = a

\* A capsule for a high-risk intention holds the instruction of a confirmed
\* policy, or says that there is none, or says that something did not fit:
\* also when policies change between the stages, the policy stage fails, and
\* references and instructions are deduplicated by their source.
PolicyGapIsSaid ==
  \A c \in capsules :
    c.highRisk => \/ \E e \in c.evidence : e.stage = "ontology-policy"
                  \/ "no confirmed policy" \in c.unresolved
                  \/ c.truncated

\* What a client holds has been measured whole, whatever failed or was killed
\* meanwhile: the capsule's sample is stored with its project, and the audit
\* of every candidate says whether the capsule has it.
AnsweredIsMeasured ==
  \A c \in held :
    /\ [capsule |-> c.id, project |-> c.project] \in samples
    /\ {a \in audits : a.capsule = c.id} = AuditRows(c)

\* A recorded use names only what its capsule contained, and the capsule is one
\* of the project of the session it is recorded in.
UsesAreTrue ==
  \A u \in uses : \E c \in capsules :
    /\ c.id = u.capsule
    /\ u.ids \subseteq {e.id : e \in c.evidence}
    /\ c.project = sessions[u.session].project

\* Whatever order the hooks' and the MCP server's observations of one thread
\* arrive in, late ones included, the row never forgets its session, that it
\* was completed, who observed it, or the deepest use it has seen.
ObservationNeverForgets ==
  [][/\ Rank[observed'.mode] >= Rank[observed.mode]
     /\ observed.session # 0 => observed'.session # 0
     /\ observed.first => observed'.first
     /\ observed.completed => observed'.completed
     /\ observed.hook => observed'.hook
     /\ observed.mcp => observed'.mcp]_clientsVars
==============================================================================
