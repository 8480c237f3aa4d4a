CONSTANTS
  s1 = s1
  s2 = s2
  p1 = p1
  c1 = c1
  c2 = c2
  Client = {c1, c2}
  Nobody = Nobody
  Session = {s1}
  ProjectOf <- MCProjectOf
  Project = {p1}
  NoProject = NoProject
  Key = {k1}
  NoKey = NoKey
  Uri = {"group", "scope"}
  RelationType = {"USES", "MAY_INCLUDE_WORKSPACE", "HAS_REGISTERED_WORKSPACE"}
  Registered = {"USES", "MAY_INCLUDE_WORKSPACE", "HAS_REGISTERED_WORKSPACE"}
  Batch <- MCBatch
  Guarded = {"group"}
  Manifest <- MCManifest
  NoGuard = NoGuard
  MaxActivities = 2
  MaxRows = 2
SPECIFICATION Spec
SYMMETRY Symmetry
INVARIANTS TypeOK OneOpenVersion ConfirmedEndpoints ConfirmedByAuthority HistoryExplainsState OnceAndWhole AnswersAreTrue
PROPERTIES GuardedWritesSeeWhatTheyRead
