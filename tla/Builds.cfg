SPECIFICATION FairSpec
CONSTANTS
  p1 = p1
  NoShown = NoShown
  Procs = {p1}
  Asked <- MCAsked
  Gaps = {1}
  HistoryLimit = 1
  MaxBuilds = 3
  x = x
  y = y
  Namespaces = {"ns", ""}
  Names = {"n"}
  NoNamespace = ""
  Fields = {"source", "serviceAccountName"}
  V1Fields = {"source", "serviceAccount"}
  Values = {x, y}
  V1Name <- MCV1Name
  NoObject = NoObject
  Refused = Refused
INVARIANTS StatusIsCoherent ShownAsAsked
PROPERTIES TriggerIsAnswered
