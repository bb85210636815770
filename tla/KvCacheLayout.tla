--------------------------- MODULE KvCacheLayout ---------------------------
(***************************************************************************)
(* initialize_kv_cache() of docker/overlay/vllm/v1/worker/                 *)
(* gpu_model_runner.py: how the model runner lays the KV caches of the     *)
(* layers out in memory.                                                   *)
(*                                                                         *)
(* The scheduler hands out blocks by number, each to one group of layers.  *)
(* Layers of different groups share one tensor: block b of the one and     *)
(* block b of the other are the same page, which at any time only one of   *)
(* them owns.  So a layer may touch block b nowhere but in page b.  What   *)
(* makes that hard is that pages are padded, that a compressed cache keeps *)
(* fewer entries than a block has tokens, and that a kernel may know only  *)
(* smaller blocks.                                                         *)
(***************************************************************************)
EXTENDS Integers, FiniteSets

CONSTANTS
  Layers,       \* attention layers
  NumBlocks,    \* pages of a tensor
  PageSizes,    \* page_size_bytes
  BlockSizes,   \* block_size of a group, tokens
  KernelSizes,  \* kernel block sizes a backend may support
  Ratios,       \* tokens per entry of a compressed cache; 1: not compressed
  EntryBytes    \* bytes per entry

ASSUME LayoutAssumption ==
  /\ NumBlocks \in Nat
  /\ PageSizes \union BlockSizes \union KernelSizes \union Ratios \union EntryBytes
       \subseteq Nat \ {0}

VARIABLES
  spec,         \* the cache spec of each layer that has a cache of its own
  sharedWith,   \* self.shared_kv_cache_layers
  encoderOnly,  \* layers that attend within a prompt and keep nothing
  stage,        \* how far initialize_kv_cache() is
  profiling,    \* is_profiling
  groups,       \* self.attn_groups: layers, in groups
  kernelSize,   \* self._kernel_block_sizes, by layer
  batchSizes,   \* block sizes self.input_batch was created with
  tensorOf,     \* the tensor of each layer: the layers it is shared_by
  view,         \* the view of its tensor a layer has: stride and entries
  caches        \* layers bound to their view, and self.kv_caches

layoutVars == <<spec, sharedWith, encoderOnly, stage, profiling, groups,
                kernelSize, batchSizes, tensorOf, view, caches>>

Unset == <<>>

\* get_kv_cache_spec() of a layer.  A page has room for the block's entries.
Entries(s) == s.block \div s.ratio
Padded(s) == Entries(s) * s.entry < s.page
Specs ==
  {s \in [page : PageSizes, block : BlockSizes, ratio : Ratios, entry : EntryBytes] :
     s.block % s.ratio = 0 /\ Entries(s) * s.entry <= s.page}

\* The layers of one tensor have pages of one size: vLLM unifies them.
LayoutInit ==
  /\ encoderOnly \in SUBSET Layers
  /\ \E own \in SUBSET (Layers \ encoderOnly) :
       /\ own # {}
       /\ sharedWith \in [Layers \ (encoderOnly \cup own) -> own]
       /\ spec \in [own -> Specs]
  /\ \A l, m \in DOMAIN spec : spec[l].page = spec[m].page
  /\ Cardinality(encoderOnly) + Cardinality(DOMAIN sharedWith) <= 1
  /\ stage = "start" /\ profiling \in BOOLEAN
  /\ groups = {} /\ kernelSize = Unset /\ batchSizes = {}
  /\ tensorOf = Unset /\ view = Unset /\ caches = Unset

-----------------------------------------------------------------------------
(***************************************************************************)
(* Encoder-only layers get a group without tensors, layers that share a    *)
(* cache join the group of their target, and layers of one backend and one *)
(* spec form an attention group: initialize_attn_backend() insists that    *)
(* there is none yet.                                                      *)
(***************************************************************************)
GroupOf(s) == {l \in DOMAIN spec : spec[l] = s}
           \cup {l \in DOMAIN sharedWith : spec[sharedWith[l]] = s}

InitializeAttnBackend ==
  /\ stage = "start"
  /\ IF groups # {} THEN stage' = "assertion failed" /\ UNCHANGED groups
     ELSE /\ stage' = "grouped"
          /\ groups' = {GroupOf(spec[l]) : l \in DOMAIN spec}
                         \cup (IF encoderOnly = {} THEN {} ELSE {encoderOnly})
  /\ UNCHANGED <<spec, sharedWith, encoderOnly, profiling, kernelSize,
                 batchSizes, tensorOf, view, caches>>

(***************************************************************************)
(* prepare_kernel_block_sizes(), which is vLLM's: a size the backend of    *)
(* the group supports and its block can be split into.  Then               *)
(* may_reinitialize_input_batch(), with the sizes of both.                 *)
(***************************************************************************)
KernelSizesFor(s) == {k \in KernelSizes : s.block % k = 0}

PrepareBlockSizes ==
  /\ stage = "grouped"
  /\ kernelSize' \in
       {f \in [DOMAIN spec -> KernelSizes] :
          \A l, m \in DOMAIN spec :
            /\ f[l] \in KernelSizesFor(spec[l])
            /\ spec[l] = spec[m] => f[l] = f[m]}
  /\ batchSizes' = {<<spec[l].block, kernelSize'[l]>> : l \in DOMAIN spec}
  /\ stage' = "sized"
  /\ UNCHANGED <<spec, sharedWith, encoderOnly, profiling, groups, tensorOf, view, caches>>

(***************************************************************************)
(* _allocate_kv_cache_tensors(): a tensor is shared by at most one layer   *)
(* of each group, and every layer that keeps something gets one.           *)
(***************************************************************************)
Allocate ==
  /\ stage = "sized"
  /\ tensorOf' \in
       {f \in [DOMAIN spec -> SUBSET DOMAIN spec] :
          \A l \in DOMAIN spec :
            /\ l \in f[l]
            /\ \A m \in f[l] : f[m] = f[l] /\ (m # l => spec[m] # spec[l])}
  /\ stage' = "allocated"
  /\ UNCHANGED <<spec, sharedWith, encoderOnly, profiling, groups, kernelSize,
                 batchSizes, view, caches>>

(***************************************************************************)
(* _reshape_kv_cache_tensors(): a view of kernel blocks.  A compressed     *)
(* cache keeps storage_block_size entries in each; padded pages need a     *)
(* strided view, others are contiguous.  A view that does not fit its      *)
(* tensor raises.                                                          *)
(***************************************************************************)
KernelBlocks(l) == NumBlocks * (spec[l].block \div kernelSize[l])
ShapeBlock(l) == IF spec[l].ratio > 1 THEN Entries(spec[l]) ELSE kernelSize[l]

\* Fault: padded pages are viewed contiguously.
ContiguousStride(l) == ShapeBlock(l) * spec[l].entry

Stride(l) == IF Padded(spec[l]) THEN spec[l].page ELSE ShapeBlock(l) * spec[l].entry

Fits(l) ==
  LET bytes == NumBlocks * spec[l].page
  IN IF Padded(spec[l])
     THEN (KernelBlocks(l) - 1) * Stride(l) + ShapeBlock(l) * spec[l].entry <= bytes
     ELSE KernelBlocks(l) * Stride(l) = bytes

Reshape ==
  /\ stage = "allocated"
  /\ IF \A l \in DOMAIN spec : Fits(l)
     THEN /\ stage' = "viewed"
          /\ view' = [l \in DOMAIN spec |->
                        [stride |-> Stride(l), entries |-> ShapeBlock(l),
                         perBlock |-> spec[l].block \div kernelSize[l]]]
     ELSE stage' = "raised" /\ UNCHANGED view
  /\ UNCHANGED <<spec, sharedWith, encoderOnly, profiling, groups, kernelSize,
                 batchSizes, tensorOf, caches>>

\* A layer that shares gets the view of its target; bind_kv_cache() binds all.
Bind ==
  /\ stage = "viewed"
  /\ caches' = [l \in DOMAIN spec \cup DOMAIN sharedWith |->
                  IF l \in DOMAIN spec THEN l ELSE sharedWith[l]]
  /\ stage' = "ready"
  /\ UNCHANGED <<spec, sharedWith, encoderOnly, profiling, groups, kernelSize,
                 batchSizes, tensorOf, view>>

(***************************************************************************)
(* _cleanup_profiling_kv_cache(), after graphs were captured with a small  *)
(* cache; the cache is then initialized again.                             *)
(***************************************************************************)
GroupsLeft == {}

CleanUpProfiling ==
  /\ stage = "ready" /\ profiling
  /\ profiling' = FALSE
  /\ stage' = "start"
  /\ groups' = GroupsLeft
  /\ caches' = Unset /\ view' = Unset /\ tensorOf' = Unset /\ kernelSize' = Unset
  /\ UNCHANGED <<spec, sharedWith, encoderOnly, batchSizes>>

LayoutNext ==
  \/ InitializeAttnBackend
  \/ PrepareBlockSizes
  \/ Allocate
  \/ Reshape
  \/ Bind
  \/ CleanUpProfiling

LayoutSpec == LayoutInit /\ [][LayoutNext]_layoutVars

-----------------------------------------------------------------------------
\* Bytes of kernel block k of a layer, and those of block b: its kernel blocks.
KernelBytes(l, k) ==
  (k * view[l].stride)..(k * view[l].stride + view[l].entries * spec[l].entry - 1)
Bytes(l, b) ==
  UNION {KernelBytes(l, k) : k \in (b * view[l].perBlock)..((b + 1) * view[l].perBlock - 1)}

(***************************************************************************)
(* Once it is up, after profiling or without, no layer writing to one      *)
(* block touches a page of another: not its own other blocks, and not the  *)
(* blocks that layers of other groups keep in the same tensor.  Each entry *)
(* of a block has its own bytes, and initialization never meets what       *)
(* profiling left.                                                         *)
(***************************************************************************)
BlocksStayApart ==
  /\ stage # "assertion failed"
  /\ stage = "ready" =>
       \A l \in DOMAIN caches : \A b \in 0..(NumBlocks - 1) :
         LET owner == caches[l]
             page == spec[owner].page
         IN /\ Bytes(owner, b) \subseteq (b * page)..((b + 1) * page - 1)
            /\ Cardinality(Bytes(owner, b)) >= Entries(spec[owner]) * spec[owner].entry

=============================================================================
