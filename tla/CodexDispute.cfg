CONSTANTS
  k1 = k1
  k2 = k2
  p1 = p1
  p2 = p2
  h1 = h1
  h2 = h2
  w1 = w1
  w2 = w2
  Thread = {1, 2}
  CodexProject = {k1, k2}
  NoCodex = NoCodex
  Project = {p1}
  NoProject = NoProject
  Hook = {h1, h2}
  Nobody = Nobody
  Imports <- MCImports
  Conn = {w1, w2}
  BatchSize = 2
  MaxEdits = 1
SPECIFICATION Spec
SYMMETRY Symmetry
CHECK_DEADLOCK FALSE
INVARIANTS DisagreementConflicts
