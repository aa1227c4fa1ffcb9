SPECIFICATION FairSpec
CONSTANTS
  p1 = p1
  p2 = p2
  r1 = r1
  r2 = r2
  i1 = i1
  i2 = i2
  NoValue = NoValue
  Elsewhere = Elsewhere
  Procs = {p1, p2}
  Terminals = {p1}
  Repos = {r1}
  Sources <- MCSources
  Settings = {s1}
  MaxVersion = 3
INVARIANTS TypeOK NamesUploaded LineIsClear
PROPERTIES UndoesNothing PatchEnds
