SPECIFICATION MCSpec
CONSTANTS
  a = a
  b = b
  c = c
  Requests = {a, b, c}
  PromptLen <- MCPromptLen
  MaxTokens <- MCMaxTokens
  MaxModelLen = 7
  BlockSize = 2
  NumBlocks = 4
  MaxNumSeqs = 2
  MaxBatchedTokens = 3
  NumSpecTokens = 2
  LongPrefillThreshold = 0
  ReserveFullIsl = FALSE
  PrefixCaching = TRUE
  DraftLengths = {0, 1}
  Abortable = {b}
  PauseStates = {}
  ResetModes = {"drained", "undrafted"}
  Engines = {"plain", "reserving"}
INVARIANTS
  TokenAccounting
  QueueAgreement
  KvSafety
  DraftsOnlyOnDecode
  LengthLimits
PROPERTIES
  NoWastedStep
  ServiceSpec
  EveryRequestFinishes
  FinishedReachesWorker
CHECK_DEADLOCK FALSE
