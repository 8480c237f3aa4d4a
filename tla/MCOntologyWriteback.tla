------------------------- MODULE MCOntologyWriteback -------------------------
(* OntologyWriteback on small instances, for TLC. *)
EXTENDS OntologyWriteback

CONSTANTS s1, s2, p1, c1, c2

MCProjectOf == [s \in Session |-> IF s = s1 THEN p1 ELSE NoProject]

Make(op, type, state, authority) ==
  [op |-> op, subject |-> "group", type |-> type, target |-> "scope",
   state |-> state, authority |-> authority]
uses == Make("assert", "USES", "confirmed", "deterministic_source")
guess == Make("assert", "USES", "candidate", "agent_inference")
claim == Make("assert", "USES", "confirmed", "agent_inference")
drop == Make("retract", "USES", "candidate", "agent_inference")
includes == Make("assert", "MAY_INCLUDE_WORKSPACE", "confirmed", "user_confirmation")
suspects == Make("assert", "HAS_REGISTERED_WORKSPACE", "candidate", "agent_inference")

\* A relation is asserted, claimed and retracted, with relations of the types the
\* registry writes too; it is retracted twice; it is asserted and guessed.
MCBatch == {<<uses, includes>>, <<claim>>, <<drop, suspects>>}
MCRetractions == {<<uses>>, <<drop, drop>>}
MCGuesses == {<<uses>>, <<guess>>}

\* The registry finds a candidate workspace; it knows the workspace by its root;
\* it rejects the workspace's object, which the other two revive.
both == [u \in {"group", "scope"} |-> p1]
Workspace(type) == {[subject |-> "group", type |-> type, target |-> "scope"]}
MCManifest ==
  {[supersede |-> {}, adopted |-> {}, ensured |-> both,
    relations |-> Workspace("MAY_INCLUDE_WORKSPACE")],
   [supersede |-> {}, adopted |-> {"group"}, ensured |-> both,
    relations |-> Workspace("HAS_REGISTERED_WORKSPACE")],
   [supersede |-> {[object |-> "scope", by |-> "group"]}, adopted |-> {}, ensured |-> << >>,
    relations |-> {}]}
Symmetry == Permutations({c1, c2})
==============================================================================
