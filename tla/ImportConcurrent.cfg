SPECIFICATION Spec
CONSTANTS
  p1 = p1
  p2 = p2
  r1 = r1
  r2 = r2
  i1 = i1
  i2 = i2
  i3 = i3
  j1 = j1
  k1 = k1
  k2 = k2
  NoRepo = NoRepo
  NoName = NoName
  NoSpec = NoSpec
  NoCommand = NoCommand
  LifecycleName = "default-lifecycle"
  Names = {"s", "default"}
  Images = {i1, i2, i3, j1, k1, k2}
  Procs = {p1, p2}
  Repos = {r1, r2}
  StackId <- OneId
  Commands <- SmallCommands
  Deletable <- AStore
  Unready <- AStore
  MaxGeneration = 1
INVARIANTS ImagesUploaded RelocatedBeforeSaved
SYMMETRY Symmetry
