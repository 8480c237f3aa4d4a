------------------------- MODULE MCSessionLifecycle --------------------------
(* SessionLifecycle on small instances, for TLC. *)
EXTENDS SessionLifecycle, TLC

CONSTANTS s1, s2, h1, h2

MCOutcome == {"completed"}
\* Clients may also record what only a completion should.
MCType == {"work", "completed"}
MCDuration == {1}
Symmetry == Permutations({s1, s2}) \cup Permutations({h1, h2})
==============================================================================
