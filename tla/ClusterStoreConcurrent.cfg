SPECIFICATION Spec
CONSTANTS
  p1 = p1
  p2 = p2
  r1 = r1
  r2 = r2
  k1 = k1
  k2 = k2
  k3 = k3
  b1 = b1
  b2 = b2
  NoRepo = NoRepo
  Procs = {p1, p2}
  Repos = {r1, r2}
  Packages = {k1, k2}
  Buildpacks = {b1, b2}
  Provides <- Overlapping
  Commands <- Concurrent
  MaxGeneration = 2
INVARIANTS SourcesUploaded DigestsUnique
SYMMETRY Symmetry
