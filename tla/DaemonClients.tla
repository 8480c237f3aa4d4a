---------------------------- MODULE DaemonClients ----------------------------
(***************************************************************************)
(* One daemon with the clients of a Codex thread and the LAN gateway.      *)
(* They share the daemon: while it is down, calls fail at once, hooks go   *)
(* on without a session, and a gateway that starts gives up.               *)
(***************************************************************************)
EXTENDS ContextClients, PairingGateway

CONSTANTS
  Workloads,   \* bounds: what a behaviour has the clients do
  MaxIds       \* bound on the pieces of evidence named by one use

VARIABLE load         \* what of it is left, and how often the daemon may yet die

Tool == {"begin", "query", "use", "complete"}

ASSUME WorkloadAssumption ==
  /\ MaxIds \in Nat
  /\ \A w \in Workloads : /\ w.calls \in Nat /\ w.tools \subseteq Tool /\ w.asks \subseteq Ask
                          /\ w.deaths \in Nat /\ w.operator \in BOOLEAN /\ w.hooks \in BOOLEAN
                          /\ w.pairing \in BOOLEAN

allVars == <<daemon, clientsVars, gatewayVars, load>>

Init ==
  /\ DaemonInit /\ ClientsInit /\ GatewayInit
  /\ load \in Workloads

\* Tool calls the step sends, of those the MCP server may choose from, and as
\* many as are left.  What it observes is not counted.
ToolCalls == {r \in requests' \ requests : r.from = "mcp" /\ r.stage = "arrived" /\ r.kind \in Tool}

WithinLoad ==
  /\ \A r \in ToolCalls :
       /\ load.calls > 0 /\ r.kind \in load.tools
       /\ r.kind \in {"begin", "query"} => r.ask \in load.asks
       /\ Cardinality(r.ids) <= MaxIds
  /\ load' = [load EXCEPT !.calls = @ - Cardinality(ToolCalls)]

DaemonLives ==
  \/ /\ load.deaths > 0
     /\ load' = [load EXCEPT !.deaths = @ - 1]
     /\ Dies
     /\ UNCHANGED gatewayVars
  \/ DaemonStarts /\ UNCHANGED <<clientsVars, gatewayVars, load>>

ThreadActs ==
  /\ \/ load.operator /\ Operate
     \/ load.hooks /\ HooksRun
     \/ McpRuns
     \/ DaemonRuns
  /\ WithinLoad
  /\ UNCHANGED <<daemon, gatewayVars>>

GatewayActs ==
  /\ load.pairing /\ GatewayNext
  /\ UNCHANGED <<daemon, clientsVars, load>>

Next == DaemonLives \/ ThreadActs \/ GatewayActs

Spec == Init /\ [][Next]_allVars
==============================================================================
