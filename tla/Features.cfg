SPECIFICATION FeatureSpec
CONSTANTS
  a = a
  b = b
  h1 = h1
  h2 = h2
  Requests <- R
  PromptLen <- MCPromptLen
  BlockSize = 2
  MaxNumSeqs = 2
  Features <- MCImages
  HashLen <- MCHashLen
  NumPromptTokens <- MCImagePrompt
  Priority <- MCPriority
  Policy = "fcfs"
  PrefixHits = {0, 2}
  CacheSize = 3
  ComputeBudget = 3
  MaxBatchedTokens = 4
  Shift = 1
  DisableChunked = FALSE
  MaxNoRoom = 2
  Settings <- MCSettings
  Parts = {"images", "blocked"}
INVARIANTS
  GatherFinds
  AccountsAgree
  OnePlaceEach
  LoadsKeepBlocks
  StartsFromLoaded
  SleepsOnlyForClients
PROPERTIES
  EveryImageServed
  BlockedGetOn
CHECK_DEADLOCK FALSE
