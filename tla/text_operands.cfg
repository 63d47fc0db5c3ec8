SPECIFICATION HostSpec
CONSTANTS
  RegCount = 2
  Half = 32
  StackSize = 1
  HeapSize = 1
  TensorSize = 1
  MetaSize = 1
  GcInterval = 2
  WeightsBase = 10
  MaxTrace = 4
  IntMax = 20
  Programs <- KnownPrograms
  Reloadable <- KnownPrograms
  HostWrites <- EmbedderWrites
  HostSeeds <- EmbedderSeeds
  Files <- HostFiles
  EmbedderFiles <- FewFiles
  Budgets <- MaxSteps
INVARIANTS
  TextFollowsGrammar
CHECK_DEADLOCK FALSE
