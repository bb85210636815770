---------------------------- MODULE GraphReplay ----------------------------
(***************************************************************************)
(* CUDA graphs of the model runner and of the drafter                      *)
(* (docker/overlay/vllm/v1/worker/gpu_model_runner.py, v1/spec_decode/     *)
(* dspark_proposer.py).  At start graphs are captured for some numbers of  *)
(* tokens; later a batch is padded to the next of them and the graph is    *)
(* replayed.  A graph reads buffers that are allocated once: the rows a    *)
(* batch does not fill still hold what an earlier, larger batch left.      *)
(*                                                                         *)
(* A buffer entry is Own (of the batch at hand), Stale (of one before) or  *)
(* Inert, the value that means nothing.  CUDAGraphDispatcher and           *)
(* CUDAGraphWrapper are vLLM's: the wrapper captures a graph it does not   *)
(* have, which raises once capturing is disabled.                          *)
(***************************************************************************)
EXTENDS Integers, Sequences, FiniteSets, FiniteSetsExt, Functions

CONSTANTS
  QueryLen,       \* uniform_decode_query_len, 1 + num_speculative_tokens
  MaxNumSeqs,     \* rows, for the runner and for the drafter
  MaxNumTokens,   \* max_num_batched_tokens
  CaptureSizes,   \* cudagraph_capture_sizes
  Modes,          \* what cudagraph_mode may resolve to
  Lengths         \* bound: tokens of a request in a batch

ASSUME GraphAssumption ==
  /\ {QueryLen, MaxNumSeqs} \subseteq Nat \ {0} /\ MaxNumTokens \in Nat
  /\ CaptureSizes \subseteq Nat \ {0} /\ Lengths \subseteq Nat \ {0}
  /\ Modes \subseteq {"NONE", "PIECEWISE", "FULL_DECODE_ONLY", "FULL_AND_PIECEWISE"}

VARIABLES
  boot,           \* "start", "profiling", "ready to start", "capturing", "serving"
  mode,           \* the resolved cudagraph_mode
  keys,           \* descriptors the dispatcher may return
  draftKeys,      \* the same of the drafter's dispatcher
  graphs,         \* graphs the runner's wrappers hold, and when captured
  draftGraphs,    \* those of the drafter's wrapper
  todo,           \* descriptors still to capture
  profiled,       \* profile_cudagraph_memory has run
  slotMap, tables, lens, starts,  \* slot_mapping, block table, seq_lens, query_start_loc
  draftRows,      \* the drafter's buffers
  seen            \* what the last run replayed and saw

graphVars == <<boot, mode, keys, draftKeys, graphs, draftGraphs, todo,
               profiled, slotMap, tables, lens, starts, draftRows, seen>>
graphBuffers == <<slotMap, tables, lens, starts, draftRows>>

Own == "own"
Stale == "stale"
Inert == "pad"

\* decode_mode() and mixed_mode() of a cudagraph_mode.
DecodeMode(m) == IF m \in {"FULL_DECODE_ONLY", "FULL_AND_PIECEWISE"} THEN "FULL"
                 ELSE m
MixedMode(m) == CASE m = "FULL_AND_PIECEWISE" -> "PIECEWISE"
                  [] m = "FULL_DECODE_ONLY" -> "NONE"
                  [] OTHER -> m

Descriptor(m, n, uniform) ==
  [mode |-> m, tokens |-> n, uniform |-> uniform,
   reqs |-> IF uniform THEN n \div QueryLen ELSE 0]

\* CUDAGraphDispatcher.initialize_cudagraph_keys().
FullSizes == {n \in CaptureSizes : n % QueryLen = 0 /\ n \div QueryLen \in 1..MaxNumSeqs}
KeysOf(m) ==
  (IF DecodeMode(m) = "FULL" THEN {Descriptor("FULL", n, TRUE) : n \in FullSizes} ELSE {})
    \cup (IF MixedMode(m) = "PIECEWISE"
          THEN {Descriptor("PIECEWISE", n, FALSE) : n \in CaptureSizes} ELSE {})

\* CUDAGraphDispatcher.dispatch(): the smallest graph that fits, or none.
Dispatch(k, n, uniform) ==
  LET Fitting(m) == {d \in k : d.mode = m /\ d.tokens >= n}
      Next(ds) == CHOOSE d \in ds : \A e \in ds : d.tokens <= e.tokens
  IN IF uniform /\ Fitting("FULL") # {} THEN Next(Fitting("FULL"))
     ELSE IF Fitting("PIECEWISE") # {} THEN Next(Fitting("PIECEWISE"))
     ELSE Descriptor("NONE", n, FALSE)

NotRun == [mode |-> "NONE", graph |-> {}, dummy |-> TRUE, tokens |-> 0, reqs |-> 0,
           slotMap |-> <<>>, tables |-> <<>>, lens |-> <<>>, starts |-> <<>>,
           draftMode |-> "NONE", draftGraph |-> {}, draftRows |-> <<>>]

GraphInit ==
  /\ boot = "start" /\ mode \in Modes
  /\ keys = {} /\ draftKeys = {} /\ graphs = {} /\ draftGraphs = {}
  /\ todo = {} /\ profiled = FALSE
  /\ slotMap = [i \in 1..MaxNumTokens |-> Inert]
  /\ tables = [i \in 1..MaxNumSeqs |-> Inert]
  /\ lens = [i \in 1..MaxNumSeqs |-> Inert]
  /\ starts = [i \in 1..(MaxNumSeqs + 1) |-> 0]
  /\ draftRows = [i \in 1..MaxNumSeqs |-> Inert]
  /\ seen = NotRun

-----------------------------------------------------------------------------
(***************************************************************************)
(* _check_and_update_cudagraph_mode(), from initialize_kv_cache(): keys of *)
(* both dispatchers, and a new wrapper for the drafter.  The drafter has   *)
(* piecewise graphs if mixed batches have any.                             *)
(***************************************************************************)
DraftMode(m) == IF MixedMode(m) \in {"PIECEWISE", "FULL"} THEN "PIECEWISE" ELSE "NONE"

InitKeys ==
  /\ keys' = keys \cup KeysOf(mode)
  /\ draftKeys' = draftKeys \cup KeysOf(DraftMode(mode))
  /\ draftGraphs' = {}

StartProfiling ==
  /\ boot = "start" /\ ~profiled
  /\ InitKeys
  /\ boot' = "profiling" /\ profiled' = TRUE
  /\ LET Largest(m) == {d \in keys' : d.mode = m /\
                          Cardinality({e \in keys' : e.mode = m /\ e.tokens > d.tokens}) < 2}
     IN todo' = Largest("PIECEWISE") \cup Largest("FULL")
  /\ UNCHANGED <<mode, graphs, graphBuffers, seen>>

(***************************************************************************)
(* The end of profile_cudagraph_memory(): every graph is dropped, with the *)
(* small KV cache it was captured with, and so are the runner's keys.      *)
(***************************************************************************)
DropGraphs == {}

EndProfiling ==
  /\ boot = "profiling" /\ todo = {}
  /\ boot' = "start"
  /\ graphs' = DropGraphs /\ draftGraphs' = {} /\ keys' = {}
  /\ UNCHANGED <<mode, draftKeys, todo, profiled, graphBuffers, seen>>

\* capture_model(), after the KV cache has its size.
StartCapturing ==
  /\ boot = "start"
  /\ InitKeys
  /\ boot' = "capturing"
  /\ todo' = keys'
  /\ UNCHANGED <<mode, graphs, profiled, graphBuffers, seen>>

EndCapturing ==
  /\ boot = "capturing" /\ todo = {}
  /\ boot' = "serving"
  /\ UNCHANGED <<mode, keys, draftKeys, graphs, draftGraphs, todo, profiled,
                 graphBuffers, seen>>

-----------------------------------------------------------------------------
Aged(v) == IF v = Own THEN Stale ELSE v

\* Fill a buffer: entries up to n, Inert up to limit, the rest is left alone.
Filled(buffer, n, limit) ==
  [i \in DOMAIN buffer |-> CASE i <= n -> Own
                             [] i > n /\ i <= limit -> Inert
                             [] OTHER -> Aged(buffer[i])]

\* A slice buffer[:n]: not longer than the buffer.
Slice(buffer, n) == [i \in 1..Min({n, Cardinality(DOMAIN buffer)}) |-> buffer[i]]

(***************************************************************************)
(* _dummy_run(), while graphs are captured, of the next largest            *)
(* descriptor; and the drafter's dummy_run(), which captures only beside a *)
(* piecewise graph of the runner, for at most MaxNumSeqs rows.  Every slot *)
(* is -1: a dummy run must not write KV.                                   *)
(***************************************************************************)
DraftDummyBatch(d) == Max({1, Min({d.tokens, MaxNumSeqs})})
DraftCaptures(d) == d.mode = "PIECEWISE"

CaptureGraph(d) ==
  /\ d \in todo
  /\ \A e \in todo : e.mode = d.mode => e.tokens <= d.tokens
  /\ d.mode = "FULL" => \A e \in todo : e.mode = "FULL"
  /\ todo' = todo \ {d}
  /\ graphs' = graphs \cup {<<d, boot>>}
  /\ LET g == Dispatch(draftKeys, DraftDummyBatch(d), FALSE)
     IN /\ draftGraphs' = IF DraftCaptures(d) /\ g.mode # "NONE"
                          THEN draftGraphs \cup {<<g, boot>>} ELSE draftGraphs
        /\ draftRows' = Filled(draftRows, DraftDummyBatch(d),
                               IF DraftCaptures(d) THEN g.tokens ELSE DraftDummyBatch(d))
  /\ slotMap' = [i \in DOMAIN slotMap |-> IF i <= d.tokens THEN Inert ELSE slotMap[i]]
  /\ IF d.mode = "FULL"
     THEN /\ lens' = Filled(lens, d.reqs, MaxNumSeqs)
          /\ starts' = [i \in DOMAIN starts |->
                          IF i \in 2..(d.reqs + 1) THEN (i - 1) * QueryLen ELSE starts[i]]
     ELSE UNCHANGED <<lens, starts>>
  /\ seen' = [NotRun EXCEPT !.mode = d.mode, !.graph = {boot},
                            !.slotMap = Slice(slotMap', d.tokens),
                            !.lens = Slice(lens', d.reqs),
                            !.starts = Slice(starts', d.reqs + 1)]
  /\ UNCHANGED <<boot, mode, keys, draftKeys, profiled, tables>>

Profile == boot = "profiling" /\ \E d \in todo : CaptureGraph(d)
CaptureModel == boot = "capturing" /\ \E d \in todo : CaptureGraph(d)

-----------------------------------------------------------------------------
GraphBatches ==
  {b \in UNION {[1..n -> Lengths] : n \in 1..MaxNumSeqs} : SumFunction(b) <= MaxNumTokens}

\* _is_uniform_decode(): a chunk of a prompt of that length counts, too.
IsUniformDecode(b) == \A i \in DOMAIN b : b[i] = QueryLen

\* _prepare_inputs(): the rows of the batch; query_start_loc never decreases.
QueryStartLoc(b) ==
  [i \in DOMAIN starts |-> SumFunctionOnSet(b, {k \in DOMAIN b : k < i})]

\* Fault: the slots of the padding are left as they are.
SlotsUnpadded(n, padded) == Filled(slotMap, n, n)

(***************************************************************************)
(* _get_slot_mappings() and _get_block_table() pad what a graph that       *)
(* contains the attention will read; without one, attention sees exactly   *)
(* the batch.                                                              *)
(***************************************************************************)
PaddedTokens(d, n) == IF d.mode = "FULL" THEN d.tokens ELSE n
PaddedReqs(d, n) == IF d.mode = "FULL" THEN d.reqs ELSE n
SlotMapping(n, padded) == Filled(slotMap, n, padded)
BlockTable(n, padded) == Filled(tables, n, padded)
SeqLens(n) == Filled(lens, n, MaxNumSeqs)

(***************************************************************************)
(* _prepare_draft_buffers() and the run of the drafter: pads the rows the  *)
(* graph has beyond the batch, as far as there are buffers.                *)
(***************************************************************************)
DraftBuffers(n, padded) == Filled(draftRows, n, padded)

CapturedAt(held, d) == {at \in {"profiling", "capturing"} : <<d, at>> \in held}

(***************************************************************************)
(* execute_model() and propose() on one batch, as far as graphs see them.  *)
(***************************************************************************)
RunBatch(b) ==
  LET n == Len(b)
      d == Dispatch(keys, SumFunction(b), IsUniformDecode(b))
      g == Dispatch(draftKeys, n, FALSE)
      tokens == PaddedTokens(d, SumFunction(b))
      reqs == PaddedReqs(d, n)
  IN /\ boot = "serving"
     /\ slotMap' = SlotMapping(SumFunction(b), tokens)
     /\ tables' = BlockTable(n, reqs)
     /\ lens' = SeqLens(n)
     /\ starts' = QueryStartLoc(b)
     /\ draftRows' = DraftBuffers(n, g.tokens)
     /\ seen' = [mode |-> d.mode, graph |-> CapturedAt(graphs, d), dummy |-> FALSE,
                 tokens |-> SumFunction(b), reqs |-> n,
                 slotMap |-> Slice(slotMap', tokens), tables |-> Slice(tables', reqs),
                 lens |-> Slice(lens', reqs), starts |-> Slice(starts', reqs + 1),
                 draftMode |-> g.mode, draftGraph |-> CapturedAt(draftGraphs, g),
                 draftRows |-> Slice(draftRows', g.tokens)]
     /\ UNCHANGED <<boot, mode, keys, draftKeys, graphs, draftGraphs, todo, profiled>>

GraphNext ==
  \/ StartProfiling
  \/ Profile
  \/ EndProfiling
  \/ StartCapturing
  \/ CaptureModel
  \/ EndCapturing
  \/ \E b \in GraphBatches : RunBatch(b)

GraphSpec == GraphInit /\ [][GraphNext]_graphVars

-----------------------------------------------------------------------------
(***************************************************************************)
(* No request ever needs a graph that was not captured, by capture_model() *)
(* and with the KV cache in use: neither a batch of the model nor one of   *)
(* the drafter, whose graphs are captured on the side.                     *)
(***************************************************************************)
ReplaysCaptured ==
  ~seen.dummy =>
    /\ seen.mode # "NONE" => seen.graph = {"capturing"}
    /\ seen.draftMode # "NONE" => seen.draftGraph = {"capturing"}

(***************************************************************************)
(* What a graph reads beyond its batch means nothing: it stores KV in no   *)
(* slot, reads no block and no length of an earlier batch, and begins each *)
(* query where the one before ends.  A dummy run stores no KV at all.  The *)
(* drafter gets a row for every request, and no stale row.                 *)
(***************************************************************************)
PaddingIsInert ==
  /\ \A i \in DOMAIN seen.slotMap :
       seen.slotMap[i] = IF ~seen.dummy /\ i <= seen.tokens THEN Own ELSE Inert
  /\ \A i \in DOMAIN seen.starts \ {1} : seen.starts[i - 1] <= seen.starts[i]
  /\ ~seen.dummy =>
       /\ \A i \in DOMAIN seen.tables :
            seen.tables[i] = IF i <= seen.reqs THEN Own ELSE Inert
       /\ \A i \in DOMAIN seen.lens : seen.lens[i] = IF i <= seen.reqs THEN Own ELSE Inert
       /\ seen.starts[Len(seen.starts)] = seen.tokens
       /\ Len(seen.draftRows) >= seen.reqs
       /\ \A i \in DOMAIN seen.draftRows :
            seen.draftRows[i] = IF i <= seen.reqs THEN Own ELSE Inert

(***************************************************************************)
(* Only graphs captured for this cache are replayed, and what a graph      *)
(* reads beyond its batch means nothing.                                   *)
(***************************************************************************)
ReplayedRight == ReplaysCaptured /\ PaddingIsInert
=============================================================================
