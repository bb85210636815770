SPECIFICATION MCSpec
CONSTANTS
  a = a
  b = b
  c = c
  Requests = {a, b, c}
  PromptLen <- MCPromptLen
  MaxTokens <- MCMaxTokens
  MaxModelLen = 7
  BlockSize = 2
  NumBlocks = 5
  MaxNumSeqs = 2
  MaxBatchedTokens = 4
  NumSpecTokens = 2
  LongPrefillThreshold = 0
  ReserveFullIsl = FALSE
  PrefixCaching = TRUE
  DraftLengths = {0, 1}
  Abortable = {b}
  PauseStates = {}
  ResetModes = {"mid_step"}
  Engines = {"plain"}
PROPERTIES
  StaleFramesDiscarded
CHECK_DEADLOCK FALSE
