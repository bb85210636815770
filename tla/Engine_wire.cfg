SPECIFICATION EngineSpec
CONSTANTS
  a = a
  b = b
  Requests = {a, b}
  PromptLen <- MCPromptLen
  MaxTokens <- MCMaxTokens
  MaxModelLen = 9
  BlockSize = 2
  NumBlocks = 4
  MaxNumSeqs = 2
  MaxBatchedTokens = 4
  NumSpecTokens = 2
  LongPrefillThreshold = 0
  ReserveFullIsl = FALSE
  PrefixCaching = TRUE
  DraftLengths = {0, 2}
  Abortable = {b}
  PauseStates = {"PAUSED_ALL", "UNPAUSED"}
  ResetModes = {}
  DrafterMaxLen = 8
  ForgetsRemoved = TRUE
INVARIANTS
  InputsRight
  AheadIsCorrected
  HandoverComplete
PROPERTIES
  SchedulerSpec
CHECK_DEADLOCK FALSE
