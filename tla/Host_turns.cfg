SPECIFICATION HostSpec
CONSTANTS
  headNode = headNode
  workerNode = workerNode
  c1 = c1
  c2 = c2
  Route <- BothNodes
  Collectors = {c1, c2}
  ProbeTtl = 1
  IdleAfter = 1
  StaleAfter = 1
  Breakable = {workerNode}
  MaxTime = 6
  CallTime = 1
  CacheTtl = 2
  MinDrafts = 1
  Loads <- SomeLoads
  Models <- TwoModels
  Block <- BlockOfFive
  NextN <- ThreeOfVision
  Lanes = {"021", "025"}
  Requested = {0, 7}
  MaxWorlds = 3
  MaxRestarts = 1
  Tokens = {0, 2, 4}
  BlockSize = 3
  NextLayers = {0, 2}
  Lengths = {1, 2}
  TpSize = 2
  Parts = {"prompts"}
  WithImages = FALSE
INVARIANTS
  TurnIsRendered
CHECK_DEADLOCK FALSE
