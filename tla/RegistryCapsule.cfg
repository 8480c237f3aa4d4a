CONSTANTS
  c1 = c1
  c2 = c2
  s1 = s1
  na = na
  nb = nb
  nc = nc
  none = none
  Name = {na, nb, nc}
  Codex = {c1, c2}
  NoCodex = NoCodex
  Root <- MCRoots
  Home <- home
  Uri <- MCUris
  Object <- MCNamed
  InitialProjects <- MCDistinct
  InitialObjects <- MCObjects
  Inputs <- MCInputs
  Disks <- MCDisks
  Manifests <- MCManifests
  Session = {s1}
  Requests <- MCRequests
  Claims = {}
  MaxRuns = 1
SPECIFICATION Spec
CHECK_DEADLOCK FALSE
INVARIANTS CapsuleOfItsSession
