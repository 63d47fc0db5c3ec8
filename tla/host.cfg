SPECIFICATION ReplaySpec
CONSTANTS
  RegCount = 2
  Half = 32
  StackSize = 3
  HeapSize = 2
  TensorSize = 1
  MetaSize = 1
  GcInterval = 2
  WeightsBase = 10
  MaxTrace = 4
  Programs <- HostPrograms
  Reloadable <- HostReloads
  HostWrites <- HonestWrites
  HostSeeds <- UnsoundSeeds
INVARIANTS
  PayloadMatchesTrace
  LogFollowsTrace
  PolicyDecides
  GcFollowsTrace
  HandlesResolve
  ReplaysAgree
PROPERTIES
  ImplementsControl
CHECK_DEADLOCK FALSE
