CONSTANTS
  s1 = s1
  s2 = s2
  h1 = h1
  h2 = h2
  Session = {s1, s2}
  Thread = {t1}
  NoThread = NoThread
  Project = {p1}
  NoProject = NoProject
  Key = {k1}
  ClientType <- MCType
  ClientOutcome <- MCOutcome
  Duration <- MCDuration
  Handler = {h1, h2}
  Sweeper = {}
  Nobody = Nobody
  SweepLimit = 1
  MaxClock = 1
SPECIFICATION Spec
INVARIANT RepeatedBeginResumes
