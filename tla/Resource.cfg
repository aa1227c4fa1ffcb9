\* The system stops when no command may start any more: MaxGeneration is reached.
CHECK_DEADLOCK FALSE
SPECIFICATION Spec
CONSTANTS
  p1 = p1
  p2 = p2
  NoValue = NoValue
  DefaultAccount = DefaultAccount
  KpackNamespace = "kpack"
  Procs = {p1, p2}
  Kinds = {"stack", "lifecycle", "clusterbuildpack", "buildpack", "builder", "clusterbuilder", "image", "kpconfig"}
  Lines <- MCLines
  Configs <- MCConfigs
  MaxGeneration <- MCMaxGeneration
  StackIdOf <- MCStackIdOf
  LifecycleImages = {"lifecycle1", "lifecycle2"}
  OrderFiles <- MCOrderFiles
  OrderLabels <- MCOrderLabels
  RegistryOf <- MCRegistryOf
  RepoOf <- MCRepoOf
SYMMETRY Symmetry
INVARIANTS ImagesUploaded KeysAgree SuccessIsOfThisWriteElsewhere
PROPERTIES NoDefaultsForPatches TakesEffect StaysWhole
