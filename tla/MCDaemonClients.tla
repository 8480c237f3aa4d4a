--------------------------- MODULE MCDaemonClients ---------------------------
(* DaemonClients on small instances, for TLC. *)
EXTENDS DaemonClients

CONSTANTS p1, p2, q1, q2, u1, s1, c1, r1, r2

\* Two policies of one source, and code of their project.
MCPolicyUri == (q1 :> u1) @@ (q2 :> u1)
MCSourceProject == s1 :> p1

AskFor(hint, highRisk, code, budget) ==
  [hint |-> hint, highRisk |-> highRisk, code |-> code, budget |-> budget]
RiskyAsk == AskFor(p1, TRUE, TRUE, 3)
CodeAsk(hint) == AskFor(hint, FALSE, TRUE, 1)
PlainAsk(hint) == AskFor(hint, FALSE, FALSE, 1)
MCAsk ==
  {RiskyAsk, CodeAsk(p1), CodeAsk(p2), PlainAsk(p1), PlainAsk(p2), PlainAsk(NoProject)}
MCHookAsk == PlainAsk(p1)

Load(calls, tools, asks) ==
  [calls |-> calls, tools |-> tools, asks |-> asks, deaths |-> 1,
   operator |-> FALSE, hooks |-> FALSE, pairing |-> FALSE]

\* Queries while policies change, capsules and their use, the life of a session,
\* the hooks beside the MCP server, and the gateway.
MCWorkloads ==
  {[Load(1, {"query"}, {RiskyAsk, CodeAsk(p1), CodeAsk(p2)}) EXCEPT !.operator = TRUE],
   Load(2, {"begin", "use"}, {CodeAsk(p1)}),
   Load(2, Tool \ {"use"}, {PlainAsk(p1), PlainAsk(p2), PlainAsk(NoProject)}),
   [Load(1, {"complete"}, {}) EXCEPT !.hooks = TRUE],
   [Load(0, {}, {}) EXCEPT !.pairing = TRUE]}

Symmetry == Permutations({q1, q2})
==============================================================================
