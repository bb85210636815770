SPECIFICATION WorkerSpec
CONSTANTS
  r1 = r1
  r2 = r2
  r3 = r3
  Requests = {r1, r2, r3}
  MaxBatch = 2
  Window = 2
  NumSpecTokens = 1
  MaxRows = 3
  MaxPos = 5
  DrafterMaxLen = 6
  PromptLen = 3
  Hits = {0, 1}
  PartialBatches = FALSE
  Parts = {"streams"}
  MaxSteps = 3
  MaxUnread = 2
  DrafterFits = {TRUE, FALSE}
  Structured = {"p", "q"}
  NumSpec = 2
  MaxChunks = 2
  MaxTokens = 3
  Preemptions = TRUE
  ShortDrafts = FALSE
  QueryLen = 2
  MaxNumSeqs = 3
  MaxNumTokens = 8
  CaptureSizes = {2, 6, 8}
  Modes = {"NONE", "PIECEWISE", "FULL_DECODE_ONLY", "FULL_AND_PIECEWISE"}
  Lengths = {1, 2, 3}
  Rates = {0, 2, 3}
  Most = 5
  Layers = {"x", "y", "z"}
  NumBlocks = 3
  PageSizes = {4}
  BlockSizes = {2, 4}
  KernelSizes = {2, 4}
  Ratios = {1, 2}
  EntryBytes = {1, 2}
  NumHiddenLayers = 4
  StartLayer = 0
  MaxForwards = 2
INVARIANTS
  ReadsOfTheirStep
CHECK_DEADLOCK FALSE
