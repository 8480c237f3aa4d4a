CONSTANTS
  p1 = p1
  p2 = p2
  q1 = q1
  q2 = q2
  u1 = u1
  s1 = s1
  c1 = c1
  r1 = r1
  r2 = r2
  Project = {p1, p2}
  NoProject = NoProject
  Policy = {q1, q2}
  PolicyProject = p1
  PolicyUri <- MCPolicyUri
  Source = {s1}
  SourceProject <- MCSourceProject
  Ask <- MCAsk
  HookAsk <- MCHookAsk
  Client = {c1}
  Post = {r1, r2}
  FailureLimit = 1
  SessionTtl = 1
  MaxTime = 1
  MaxSecrets = 4
  Workloads <- MCWorkloads
  MaxIds = 1
SPECIFICATION Spec
SYMMETRY Symmetry
CHECK_DEADLOCK FALSE
INVARIANTS ClientsTypeOK PolicyGapIsSaid AnsweredIsMeasured UsesAreTrue CodeUsedOnce
PROPERTIES ObservationNeverForgets SecretSurvives
