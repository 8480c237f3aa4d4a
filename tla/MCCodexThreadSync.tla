-------------------------- MODULE MCCodexThreadSync --------------------------
(* CodexThreadSync on small instances, for TLC. *)
EXTENDS CodexThreadSync, TLC

CONSTANTS k1, k2, p1, p2, h1, h2, w1, w2

\* What no hook sends: a candidate that names no project, of the authority of
\* an assignment.
MCImports ==
  {[thread |-> 1, codex |-> NoCodex, class |-> "candidate",
    authority |-> "codex_project_assignment"]}

Symmetry == Permutations({k1, k2}) \cup Permutations({p1, p2})
            \cup Permutations({h1, h2}) \cup Permutations({w1, w2})
==============================================================================
