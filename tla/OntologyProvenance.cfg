CONSTANTS
  s1 = s1
  s2 = s2
  p1 = p1
  c1 = c1
  c2 = c2
  Client = {c1}
  Nobody = Nobody
  Session = {s1, s2}
  ProjectOf <- MCProjectOf
  Project = {p1}
  NoProject = NoProject
  Key = {k1}
  NoKey = NoKey
  Uri = {"group", "scope"}
  RelationType = {"USES", "MAY_INCLUDE_WORKSPACE", "HAS_REGISTERED_WORKSPACE"}
  Registered = {"USES", "MAY_INCLUDE_WORKSPACE", "HAS_REGISTERED_WORKSPACE"}
  Batch <- MCGuesses
  Guarded = {"group"}
  Manifest = {}
  NoGuard = NoGuard
  MaxActivities = 2
  MaxRows = 2
SPECIFICATION Spec
INVARIANT ConfirmedNamesItsAuthority
