CONSTANTS
  s1 = s1
  p1 = p1
  c1 = c1
  c2 = c2
  Client = {c1, c2}
  Nobody = Nobody
  Session = {s1}
  ProjectOf <- MCProjectOf
  Project = {p1}
  NoProject = NoProject
  Key = {1, 2}
  NoKey = NoKey
  Uri = {"pr", "repo"}
  RelationType = {"OPEN", "CLOSED", "MERGED", "AWAITING"}
  Registered = {"OPEN", "CLOSED", "MERGED", "AWAITING"}
  Batch = {}
  Guarded = {"pr"}
  Manifest = {}
  NoGuard = NoGuard
  MaxActivities = 3
  MaxRows = 0
  Belief <- MCBelief
  AgentSession = s1
  HelperSession = s1
  Pr = "pr"
  Repo = "repo"
  Legacy = "AWAITING"
  MaxPlans = 2
  MaxVersion = 1
SPECIFICATION ReconcileSpec
SYMMETRY Symmetry
INVARIANTS ReconcileTypeOK OneConfirmedState PlansAppliedOnce SuccessIsCurrent NoStaleSuccess
