-------------------------- MODULE MCGithubReconcile --------------------------
(* GithubReconcile on small instances, for TLC. *)
EXTENDS GithubReconcile, TLC

CONSTANTS s1, p1, c1, c2

MCProjectOf == s1 :> p1

\* What an agent believes about the pull request without having asked GitHub.
MCBelief ==
  {[op |-> "assert", subject |-> "pr", type |-> "MERGED", target |-> "repo",
    state |-> "candidate", authority |-> "agent_inference"]}
Symmetry == Permutations({c1, c2})
==============================================================================
