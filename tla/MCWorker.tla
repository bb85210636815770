------------------------------ MODULE MCWorker ------------------------------
(***************************************************************************)
(* Instances for TLC of parts that share no state: a behaviour is one of   *)
(* the part that its initial state chooses.  The prefix planner and the    *)
(* weights take as many of x1, ..., x5 as they need and leave the rest at  *)
(* 0; the other parts keep their own variables.                            *)
(***************************************************************************)
EXTENDS DraftSlots, CopyStreams, KvCacheLayout, TargetCapture, GrammarDecode,
        GraphReplay, TLC

CONSTANTS r1, r2, r3,
  Parts,         \* the parts of this run
  Rates, Most    \* rates and token counts of the profiled tables

VARIABLES part, x1, x2, x3, x4, x5

bank == <<x1, x2, x3, x4, x5>>
slotVars == <<known, active, slotOf, freeSlots, ring, prefilled, phase, batch, row, kept>>
workerVars == <<part, slotVars, streamVars, layoutVars, captureVars,
                grammarVars, graphVars, bank>>

Rest5 == x5 = 0
Same5 == UNCHANGED x5
Rest1 == x1 = 0 /\ x2 = 0 /\ x3 = 0 /\ x4 = 0 /\ Rest5
Same1 == UNCHANGED bank

Symmetry == Permutations(Requests)

Choice(scheduler, threshold, forced, earlyStop) ==
  [scheduler |-> scheduler, threshold |-> threshold,
   forced |-> forced, earlyStop |-> earlyStop]

\* Every way through _schedule_from_confidence.
Ways == {Choice("off", 1, -1, TRUE), Choice("threshold", 0, -1, TRUE),
         Choice("threshold", 1, -1, TRUE), Choice("hardware", 0, -1, TRUE),
         Choice("hardware", 0, -1, FALSE), Choice("hardware", 1, 1, TRUE)}

\* Every table that profiles some of the token counts from 2 on.
Tables == UNION {[T -> Rates] : T \in SUBSET (2..Most)}

-----------------------------------------------------------------------------
Prefix == INSTANCE PrefixSchedule WITH
  NumRequests <- 2, NumSpecTokens <- 2, Scale <- 2, Settings <- Ways,
  Curves <- Tables, rows <- x1, curve <- x2, setting <- x3, schedule <- x4

Weights == INSTANCE WeightLoading WITH
  NumHiddenLayers <- 2, NumHashLayers <- 1, NumTargetLayerIds <- 2,
  NumStages <- 2, NumExperts <- 2, TpSize <- 2, rank <- x1, kind <- x2,
  left <- x3, pass <- x4, wrote <- x5

ASSUME PartsAssumption == Prefix!PrefixScheduleAssumption

-----------------------------------------------------------------------------
\* These are left here when a behaviour is not one of theirs.
LayoutOff ==
  /\ spec = Unset /\ sharedWith = Unset /\ encoderOnly = {}
  /\ stage = "start" /\ profiling = FALSE
  /\ groups = {} /\ kernelSize = Unset /\ batchSizes = {}
  /\ tensorOf = Unset /\ view = Unset /\ caches = Unset

CaptureOff ==
  /\ ids = <<>> /\ defer = FALSE /\ exact = FALSE /\ forwards = 0
  /\ layer = NumHiddenLayers /\ residual = NoResidual /\ hidden = NoResidual
  /\ buffer = <<>>

GrammarOff ==
  /\ chunks = <<>> /\ specLen = <<>> /\ made = <<>> /\ grammar = <<>>
  /\ rejected = {} /\ flight = <<>> /\ deferred = NoStep /\ drafts = <<>>

GraphOff ==
  /\ boot = "off" /\ mode = "NONE" /\ profiled = FALSE /\ seen = NotRun
  /\ keys = {} /\ draftKeys = {} /\ graphs = {} /\ draftGraphs = {} /\ todo = {}
  /\ slotMap = <<>> /\ tables = <<>> /\ lens = <<>> /\ starts = <<>> /\ draftRows = <<>>

WorkerInit ==
  /\ part \in Parts
  /\ Init
  /\ StreamsInit
  /\ IF part = "layout" THEN LayoutInit ELSE LayoutOff
  /\ IF part = "capture" THEN CaptureInit ELSE CaptureOff
  /\ IF part = "grammar" THEN GrammarInit ELSE GrammarOff
  /\ IF part = "graphs" THEN GraphInit ELSE GraphOff
  /\ \/ part \in {"slots", "streams", "layout", "capture", "grammar", "graphs"} /\ Rest1
     \/ part = "prefix" /\ Prefix!Init /\ Rest5
     \/ part = "weights" /\ Weights!WeightInit

WorkerNext ==
  /\ UNCHANGED part
  /\ \/ /\ part = "slots" /\ Next /\ Same1
        /\ UNCHANGED <<streamVars, layoutVars, captureVars, grammarVars, graphVars>>
     \/ /\ part = "streams" /\ StreamsNext /\ Same1
        /\ UNCHANGED <<slotVars, layoutVars, captureVars, grammarVars, graphVars>>
     \/ /\ part = "layout" /\ LayoutNext /\ Same1
        /\ UNCHANGED <<slotVars, streamVars, captureVars, grammarVars, graphVars>>
     \/ /\ part = "capture" /\ CaptureNext /\ Same1
        /\ UNCHANGED <<slotVars, streamVars, layoutVars, grammarVars, graphVars>>
     \/ /\ part = "grammar" /\ GrammarNext /\ Same1
        /\ UNCHANGED <<slotVars, streamVars, layoutVars, captureVars, graphVars>>
     \/ /\ part = "graphs" /\ GraphNext /\ Same1
        /\ UNCHANGED <<slotVars, streamVars, layoutVars, captureVars, grammarVars>>
     \/ /\ UNCHANGED <<slotVars, streamVars, layoutVars, captureVars, grammarVars, graphVars>>
        /\ \/ part = "prefix" /\ Prefix!Next /\ Same5
           \/ part = "weights" /\ Weights!WeightNext

WorkerSpec == WorkerInit /\ [][WorkerNext]_workerVars

-----------------------------------------------------------------------------
(***************************************************************************)
(* PrefixSchedule: the greedy path followed to its end finds the best      *)
(* schedule on any profile; stopped early, on a smooth one.  What is       *)
(* verified of a request depends on no later confidence of that request,   *)
(* and the planner's running totals are the score of what it returns.      *)
(***************************************************************************)
ScheduleRight ==
  part = "prefix" =>
    /\ Prefix!TypeOK /\ Prefix!ScoresAgree
    /\ Prefix!ExhaustiveIsBest /\ Prefix!EarlyStopIsBest
    /\ Prefix!NonAnticipating

(***************************************************************************)
(* WeightLoading!EveryWeightArrives: every slot of every parameter is      *)
(* written, once, with the tensor it is for.                               *)
(***************************************************************************)
EveryWeightArrives == part = "weights" => Weights!EveryWeightArrives
=============================================================================
