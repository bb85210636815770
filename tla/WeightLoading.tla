---------------------------- MODULE WeightLoading ----------------------------
(***************************************************************************)
(* From the tensors of a checkpoint to the parameters of the target and of *)
(* the DSpark draft on one rank: load_weights() of nvidia/model.py and of  *)
(* nvidia/dspark.py, the names and the experts they map, and the patch of  *)
(* the text-only lane, skip_vision_tensors.py.                             *)
(*                                                                         *)
(* A name is a record: its space ("layers", "mtp", ...), the number in it, *)
(* the path below that, and the expert, if any.  A parameter is written in *)
(* slots: the outputs of a merged projection, the local experts of a fused *)
(* one, this rank's heads.  One path of each kind stands for its kind.     *)
(* Tensors are read in one order: no route depends on it.                  *)
(***************************************************************************)
EXTENDS Integers, SequencesExt

CONSTANTS
  NumHiddenLayers,   \* layers of the target
  NumHashLayers,     \* the first of them route by token id
  NumTargetLayerIds, \* length of dspark_target_layer_ids
  NumStages,         \* mtp.N of the checkpoint
  NumExperts,        \* n_routed_experts
  TpSize             \* ranks

VARIABLES
  rank,    \* this rank
  kind,    \* the checkpoint and its experts
  left,    \* tensors of the pass not yet read
  pass,    \* "target", "draft", "loaded", "reloading" or "failed"
  wrote    \* what was written: [slot, tensor, raw]

weightVars == <<rank, kind, left, pass, wrote>>

-----------------------------------------------------------------------------
(* The checkpoint.                                                         *)

Name(space, n, path) == [space |-> space, n |-> n, path |-> path, expert |-> -1]
Linear(path) == {path \o <<"weight">>, path \o <<"scale">>}

BlockPaths ==
  UNION {Linear(<<"attn", w>>) : w \in {"wq_a", "wkv", "wq_b"}}
  \cup UNION {Linear(<<"ffn", "shared_experts", w>>) : w \in {"w1", "w2", "w3"}}
  \cup {<<"attn", "attn_sink">>, <<"attn_norm", "weight">>, <<"ffn", "gate", "weight">>}

RoutedTensors(space, n) ==
  {[Name(space, n, <<"ffn", "experts", w, t>>) EXCEPT !.expert = e] :
     w \in {"w1", "w2", "w3"}, t \in {"weight", "scale"}, e \in 0..(NumExperts - 1)}

Names(space, n, paths) == {Name(space, n, p) : p \in paths}

LayerTensors(n) ==
  RoutedTensors("layers", n) \cup
  Names("layers", n,
    BlockPaths
    \cup {<<"attn", "compressor", w, "weight">> : w \in {"wkv", "wgate"}}
    \cup (IF n < NumHashLayers THEN {<<"ffn", "gate", "tid2eid">>} ELSE {})
    \cup (IF n >= NumHashLayers \/ kind.vision THEN {<<"ffn", "gate", "bias">>} ELSE {})
    \cup (IF kind.vision THEN {<<"ffn", "gate", "bias_vl">>} ELSE {}))

HeadPaths ==
  {<<"norm", "weight">>, <<"markov_head", "markov_w1", "weight">>,
   <<"markov_head", "markov_w2", "weight">>, <<"confidence_head", "proj", "weight">>,
   <<"hc_head_fn">>}

StageTensors(n) ==
  RoutedTensors("mtp", n) \cup
  Names("mtp", n,
    BlockPaths \cup {<<"ffn", "gate", "bias">>}
    \cup (IF n = 0 THEN Linear(<<"main_proj">>) \cup {<<"main_norm", "weight">>} ELSE {})
    \cup (IF n = NumStages - 1 THEN HeadPaths ELSE {}))

Checkpoint ==
  UNION {LayerTensors(n) : n \in 0..(NumHiddenLayers - 1)}
  \cup UNION {StageTensors(n) : n \in 0..(NumStages - 1)}
  \cup Names("top", 0, {<<"embed", "weight">>, <<"norm", "weight">>, <<"head", "weight">>,
                        <<"hc_head_fn">>})
  \cup (IF kind.vision THEN Names("vision", 0, {<<"blocks", "weight">>})
                            \cup Names("aligner", 0, {<<"weight">>}) ELSE {})

-----------------------------------------------------------------------------
(* The parameters.                                                         *)

\* hf_config_override(): a draft stage for every captured target layer.
NumDraftLayers == Max({1, NumTargetLayerIds})

\* DeepSeekV4DSparkModel: where the numbers of the draft's layers start; the
\* captured layers are among the hidden ones.
MtpStartLayer == NumHiddenLayers

Slot(model, n, path, part) == [model |-> model, n |-> n, path |-> path, part |-> part]
Whole == <<"whole", 0>>
Scaled(path, suffix) == {path \o <<"weight">>, path \o <<suffix>>}
Inv == "weight_scale_inv"
ExpertSuffix == IF kind.fp4 THEN "weight_scale" ELSE Inv

\* The experts of this rank, as it numbers them.
NumLocal == IF kind.mega THEN NumExperts \div TpSize ELSE NumExperts
ExpertsStart == IF kind.mega THEN rank * NumLocal ELSE 0

\* DeepseekV4MoE.
MoeSlots(model, n) ==
  {Slot(model, n, p, <<"shard", s>>) :
     p \in Scaled(<<"ffn", "shared_experts", "gate_up_proj">>, Inv), s \in {0, 1}}
  \cup {Slot(model, n, p, Whole) :
     p \in Scaled(<<"ffn", "shared_experts", "down_proj">>, Inv)
           \cup {<<"ffn", "gate", "weight">>,
                 <<"ffn", "gate", IF n < NumHashLayers THEN "tid2eid"
                                  ELSE "e_score_correction_bias">>}}
  \cup {Slot(model, n, p, <<w, e>>) :
     p \in Scaled(<<"ffn", "experts", "w13">>, ExpertSuffix), w \in {"w1", "w3"},
     e \in 0..(NumLocal - 1)}
  \cup {Slot(model, n, p, <<"w2", e>>) :
     p \in Scaled(<<"ffn", "experts", "w2">>, ExpertSuffix), e \in 0..(NumLocal - 1)}

\* DeepseekV4Attention and DeepSeekV4DSparkAttention.
AttentionSlots(model, n) ==
  {Slot(model, n, p, <<"shard", s>>) :
     p \in Scaled(<<"attn", "fused_wqa_wkv">>, Inv), s \in {0, 1}}
  \cup {Slot(model, n, p, Whole) : p \in Scaled(<<"attn", "wq_b">>, Inv) \cup {<<"attn_norm", "weight">>}}
  \cup {Slot(model, n, <<"attn", "attn_sink">>, <<"heads", rank>>)}

\* DeepseekV4Model.
TargetSlots ==
  UNION {MoeSlots("target", n) \cup AttentionSlots("target", n) \cup
         {Slot("target", n, <<"attn", "mla_attn", "compressor", "fused_wkv_wgate", "weight">>,
               <<"shard", s>>) : s \in {0, 1}} :
         n \in 0..(NumHiddenLayers - 1)}
  \cup {Slot("target", -1, p, Whole) :
         p \in {<<"embed_tokens", "weight">>, <<"norm", "weight">>, <<"lm_head", "weight">>,
                <<"hc_head_fn">>}}

\* DeepSeekV4DSparkModel: its embedding and head are the target's.
DraftSlotsOf(stage) ==
  LET n == MtpStartLayer + stage
  IN MoeSlots("draft", n) \cup AttentionSlots("draft", n) \cup
     {Slot("draft", n, p, Whole) :
        p \in (IF stage = 0 THEN Scaled(<<"main_proj">>, Inv) \cup {<<"main_norm", "weight">>} ELSE {})
              \cup (IF stage = NumDraftLayers - 1 THEN HeadPaths ELSE {})}

DraftParams == UNION {DraftSlotsOf(s) : s \in 0..(NumDraftLayers - 1)}
Params == TargetSlots \cup (IF kind.vision THEN {} ELSE DraftParams)

-----------------------------------------------------------------------------
(* The ways a name takes.                                                  *)

\* str.replace() of one run of segments by another.
Renamed(path, from, to) ==
  LET at == {k \in 1..(Len(path) - Len(from) + 1) : SubSeq(path, k, k + Len(from) - 1) = from}
  IN IF at = {} THEN path
     ELSE LET k == Min(at)
          IN SubSeq(path, 1, k - 1) \o to \o SubSeq(path, k + Len(from), Len(path))

ScaleRenamed(name) ==
  IF Last(name.path) # "scale" THEN name.path
  ELSE Front(name.path) \o <<IF name.expert >= 0 THEN ExpertSuffix ELSE Inv>>

Row(from, to, shard) == [from |-> from, to |-> to, shard |-> shard]

\* The rows of load_weights() of the target ...
TargetStacked ==
  {Row(<<"w1">>, <<"gate_up_proj">>, 0), Row(<<"w3">>, <<"gate_up_proj">>, 1),
   Row(<<"attn", "wq_a">>, <<"attn", "fused_wqa_wkv">>, 0),
   Row(<<"attn", "wkv">>, <<"attn", "fused_wqa_wkv">>, 1),
   Row(<<"compressor", "wkv">>, <<"compressor", "fused_wkv_wgate">>, 0),
   Row(<<"compressor", "wgate">>, <<"compressor", "fused_wkv_wgate">>, 1)}

\* Fault, one the comment there tells of: the rows of the shared experts lost.
DraftStackedNarrow ==
  {Row(<<"attn", "wq_a">>, <<"attn", "fused_wqa_wkv">>, 0),
   Row(<<"attn", "wkv">>, <<"attn", "fused_wqa_wkv">>, 1)}

\* ... and of map_dspark_stacked_param_name().
DraftStacked ==
  {Row(<<"attn", "wq_a">>, <<"attn", "fused_wqa_wkv">>, 0),
   Row(<<"attn", "wkv">>, <<"attn", "fused_wqa_wkv">>, 1),
   Row(<<"shared_experts", "w1">>, <<"shared_experts", "gate_up_proj">>, 0),
   Row(<<"shared_experts", "w3">>, <<"shared_experts", "gate_up_proj">>, 1)}

Rows(table, path) == {row \in table : Renamed(path, row.from, row.to) # path}

\* make_deepseek_v4_expert_params_mapping().
Fused(path) == Renamed(Renamed(Renamed(path, <<"experts", "w1">>, <<"experts", "w13">>),
                               <<"experts", "w3">>, <<"experts", "w13">>),
                       <<"experts", "w2">>, <<"experts", "w2">>)

\* The slots a tensor is for, once its name is the module's: of a merged
\* projection, of an expert if this rank has it, of this rank's heads.
Routed(model, n, name, path, table) ==
  LET local == name.expert - ExpertsStart
  IN IF name.expert >= 0
     THEN IF local \in 0..(NumLocal - 1)
          THEN {Slot(model, n, Fused(path), <<name.path[3], local>>)} ELSE {}
     ELSE IF Rows(table, path) # {}
     THEN {Slot(model, n, Renamed(path, row.from, row.to), <<"shard", row.shard>>) :
             row \in Rows(table, path)}
     ELSE {Slot(model, n, path, IF Last(path) = "attn_sink" THEN <<"heads", rank>> ELSE Whole)}

\* E8M0 scales keep their bits if the loader sees that they are scales.
KeepsBits(name, path) == name.expert >= 0 /\ Last(path) \in {"weight_scale", Inv}

\* WeightsMapper of the target.
Mapped(name) ==
  LET path == Renamed(Renamed(Renamed(ScaleRenamed(name),
                 <<"attn", "compressor">>, <<"attn", "mla_attn", "compressor">>),
                 <<"shared_experts", "w2">>, <<"shared_experts", "down_proj">>),
                 <<"ffn", "gate", "bias">>, <<"ffn", "gate", "e_score_correction_bias">>)
  IN IF name.space = "top"
     THEN Renamed(Renamed(path, <<"head", "weight">>, <<"lm_head", "weight">>),
                  <<"embed", "weight">>, <<"embed_tokens", "weight">>)
     ELSE path

\* AutoWeightsLoader(skip_substrs): the names it skips; the text-only lane has
\* more, matched after the mapper renamed the biases it names.
Skipped(name) ==
  \/ name.space = "mtp"
  \/ kind.vision /\ (name.space \in {"vision", "aligner"} \/ Last(Mapped(name)) = "bias_vl")

\* The text-only lane: hash layers have no correction bias.
Tolerated(name) ==
  kind.vision /\ name.space = "layers" /\ Last(Mapped(name)) = "e_score_correction_bias"
  /\ name.n < NumHashLayers

TargetRoute(name) ==
  IF Skipped(name) \/ Tolerated(name) THEN {}
  ELSE Routed("target", IF name.space = "layers" THEN name.n ELSE -1, name, Mapped(name),
              TargetStacked)

DraftMapped(name) ==
  Renamed(Renamed(ScaleRenamed(name),
     <<"shared_experts", "w2">>, <<"shared_experts", "down_proj">>),
     <<"ffn", "gate", "bias">>, <<"ffn", "gate", "e_score_correction_bias">>)

\* "Skipping unknown DSpark weight": only names that are looked up plainly.
Unknown(name, slots) ==
  /\ name.expert < 0 /\ Rows(DraftStacked, DraftMapped(name)) = {}
  /\ slots \cap DraftParams = {}

DraftRoute(name) ==
  LET slots == Routed("draft", MtpStartLayer + name.n, name, DraftMapped(name), DraftStacked)
  IN IF name.space # "mtp" \/ name.n >= NumDraftLayers \/ Unknown(name, slots)
     THEN {} ELSE slots

-----------------------------------------------------------------------------
\* TpSize ranks, and the checkpoints: the 0731 one with either kind of experts
\* and either backend, the vision one on the text-only lane, which has no DSpark.
WeightInit ==
  /\ rank \in 0..(TpSize - 1)
  /\ kind \in [vision : BOOLEAN, fp4 : BOOLEAN, mega : BOOLEAN]
  /\ kind.mega => kind.fp4 /\ ~kind.vision
  /\ pass = "target"
  /\ left = Checkpoint
  /\ wrote = {}

\* One turn of a loader: a slot that is not a parameter is a KeyError.
Load(model, slots, name, path) ==
  LET params == IF model = "target" THEN TargetSlots ELSE DraftParams
  IN IF slots \subseteq params
     THEN /\ wrote' = wrote \cup {[slot |-> s, tensor |-> name, raw |-> KeepsBits(name, path)] : s \in slots}
          /\ left' = left \ {name}
          /\ pass' = pass
     ELSE pass' = "failed" /\ UNCHANGED <<left, wrote>>

\* DeepseekV4ForCausalLM.load_weights().
LoadTarget ==
  /\ pass \in {"target", "reloading"} /\ left # {}
  /\ LET name == CHOOSE t \in left : TRUE
     IN Load("target", TargetRoute(name), name, Mapped(name))
  /\ UNCHANGED <<rank, kind>>

\* load_model(): the drafter's model after the target's.
LoadDrafter ==
  /\ pass = "target" /\ left = {} /\ ~kind.vision
  /\ pass' = "draft" /\ left' = Checkpoint
  /\ UNCHANGED <<rank, kind, wrote>>

\* DeepSeekV4DSpark.load_weights().
LoadDraft ==
  /\ pass = "draft" /\ left # {}
  /\ LET name == CHOOSE t \in left : TRUE
     IN Load("draft", DraftRoute(name), name, DraftMapped(name))
  /\ UNCHANGED <<rank, kind>>

Loaded ==
  /\ pass \in {"draft", "reloading"} \/ (pass = "target" /\ kind.vision)
  /\ left = {}
  /\ pass' = "loaded"
  /\ UNCHANGED <<rank, kind, left, wrote>>

\* reload_weights(): the target again, and only the target.
ReloadWeights ==
  /\ pass = "loaded"
  /\ pass' = "reloading" /\ left' = Checkpoint
  /\ wrote' = {w \in wrote : w.slot.model = "draft"}
  /\ UNCHANGED <<rank, kind>>

WeightNext == LoadTarget \/ LoadDrafter \/ LoadDraft \/ Loaded \/ ReloadWeights

WeightSpec == WeightInit /\ [][WeightNext]_weightVars

-----------------------------------------------------------------------------
\* A tensor is where it belongs: the expert, the half of a merged projection in
\* the order its constructor gives, the layer or stage, the model.
FirstOf == {"wq_a", "w1"}
Belongs(w) ==
  /\ w.tensor.expert >= 0 =>
       /\ w.slot.part[2] + ExpertsStart = w.tensor.expert
       /\ w.raw <=> Last(w.tensor.path) = "scale"
  /\ w.slot.part[1] = "shard" =>
       LET is == w.tensor.path[Len(w.tensor.path) - 1]
       IN w.slot.part[2] = 0 <=> is \in FirstOf \/ (is = "wkv" /\ w.tensor.path[2] = "compressor")
  /\ w.slot.n = CASE w.tensor.space = "layers" -> w.tensor.n
                  [] w.tensor.space = "mtp" -> MtpStartLayer + w.tensor.n
                  [] OTHER -> -1
  /\ (w.tensor.space = "mtp") <=> (w.slot.model = "draft")

(***************************************************************************)
(* A rank that has loaded has every slot of every parameter of its target  *)
(* and its draft written by exactly one tensor, of its own layer, stage,   *)
(* expert and half, with scales kept bit for bit.  The draft's loader      *)
(* passes over names it does not know (dspark.py:1181-1184): what it loses *)
(* so shows only as fewer accepted drafts.                                 *)
(***************************************************************************)
EveryWeightArrives ==
  /\ pass # "failed"
  /\ pass = "loaded" =>
       /\ \A s \in Params : Cardinality({w \in wrote : w.slot = s}) = 1
       /\ \A w \in wrote : Belongs(w)
=============================================================================
