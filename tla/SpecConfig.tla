------------------------------ MODULE SpecConfig ------------------------------
(***************************************************************************)
(* From what --speculative-config says to a drafter and its first call:    *)
(* config/speculative.py resolves and verifies, GPUModelRunner.__init__()  *)
(* makes the proposer, sample_tokens() and propose_draft_token_ids() call  *)
(* it.  Three places each pick a branch by the method, from predicates     *)
(* that overlap: use_eagle() is true of "mtp", "dflash" and "dspark" too.  *)
(*                                                                         *)
(* A draft model is known by what the code asks of it: its name (does it   *)
(* contain "eagle3", ...), the kind of its config, its length.             *)
(***************************************************************************)
EXTENDS Integers, SequencesExt

CONSTANTS
  Tokens,      \* num_speculative_tokens as given, 0 for none
  BlockSize,   \* dspark_block_size
  NextLayers,  \* num_nextn_predict_layers of a config, 0 for none
  Lengths,     \* max_model_len of the draft, of the target and as given
  TpSize       \* tensor_parallel_size of the target

ASSUME ConfigAssumption ==
  /\ BlockSize \in Nat \ {0} /\ TpSize \in Nat \ {0}
  /\ Tokens \subseteq Nat /\ NextLayers \subseteq Nat /\ Lengths \subseteq Nat \ {0}

VARIABLES
  given,    \* the arguments and the models they name
  phase,    \* "given", "resolved", "accepted", "made", "proposing", "refused"
  method, tokens, predict, length, draftTp,  \* SpeculativeConfig
  drafter,  \* class of the proposer
  call      \* what propose_draft_token_ids() passes on

configVars == <<given, phase, method, tokens, predict, length, draftTp, drafter, call>>

-----------------------------------------------------------------------------
(* hf_config_override().                                                   *)

MTPModelTypes == {"mtp", "deepseek_mtp", "glm4_moe_mtp", "longcat_flash_mtp", "gemma4_mtp"}

\* Families of draft configs: DSpark, DeepSeek V4 without it, others that count
\* their nextn layers, those that default to one, Gemma 4, and the rest.
HfKinds == {"v4_dspark", "v4", "glm4_moe", "longcat_flash", "gemma4_assistant",
            "medusa", "mlp_speculator", "llama"}

Counting == {"v4", "glm4_moe"}

HfConfigOverride(hf, nextn) ==
  CASE hf = "v4_dspark" -> [type |-> "deepseek_v4_dspark", predict |-> BlockSize]
    [] hf = "v4" -> [type |-> "deepseek_mtp", predict |-> nextn]
    [] hf = "glm4_moe" -> [type |-> "glm4_moe_mtp", predict |-> nextn]
    [] hf = "longcat_flash" -> [type |-> "longcat_flash_mtp", predict |-> Max({1, nextn})]
    [] hf = "gemma4_assistant" -> [type |-> "gemma4_mtp", predict |-> 1]
    [] OTHER -> [type |-> hf, predict |-> 0]

-----------------------------------------------------------------------------
(* __post_init__().                                                        *)

\* SpeculativeMethod, "deepseek_mtp" for the deprecated names.
Methods == {"none", "ngram", "ngram_gpu", "medusa", "mlp_speculator", "draft_model",
            "suffix", "custom_class", "eagle", "eagle3", "extract_hidden_states",
            "mtp", "deepseek_mtp", "dflash", "dspark"}

\* "foreign" has another vocabulary than the target.
ModelNames == {"none", "ngram", "pkg.Proposer", "x-eagle-", "x-eagle3", "x-dflash", "x-dspark",
           "x", "foreign"}

Named(model) ==
  CASE model = "x-eagle-" -> "eagle" [] model = "x-eagle3" -> "eagle3"
    [] model = "x-dflash" -> "dflash" [] model = "x-dspark" -> "dspark" [] OTHER -> "none"

\* The method before a model is looked at.
InferredMethod ==
  IF given.model = "pkg.Proposer" THEN "custom_class"
  ELSE IF given.method = "none"
       THEN IF given.model = "ngram" THEN "ngram" ELSE "draft_model"
  ELSE IF given.method \in MTPModelTypes THEN "mtp" ELSE given.method

\* Methods whose model is the target or that have none.
Modelless == {"ngram", "ngram_gpu", "suffix", "custom_class", "extract_hidden_states"}
OwnModel == {"mtp", "dspark"}

Hf == HfConfigOverride(given.hf, given.nextn)

\* The method the draft model decides; "none" where the code raises.
DetectedMethod(m, model) ==
  IF m \in {"eagle", "eagle3", "dflash", "dspark"} THEN m
  ELSE IF Named(model) # "none" THEN Named(model)
  ELSE IF Hf.type \in {"medusa", "mlp_speculator"} THEN Hf.type
  ELSE IF Hf.type \in MTPModelTypes THEN (IF given.tokens = 0 THEN "none" ELSE "mtp")
  ELSE IF m = "draft_model" THEN m ELSE "none"

\* An EAGLE config replaces the draft's.
Predict(m) == IF m \in {"eagle", "eagle3", "dflash"} THEN 0 ELSE Hf.predict

Divides(k, n) == n = 0 \/ k <= n \/ k % n = 0

\* _maybe_override_draft_max_model_len().
DraftMaxModelLen ==
  IF given.maxLen # 0 THEN given.maxLen ELSE Min({given.draftLen, given.targetLen})
LengthRefused == given.maxLen > Min({given.draftLen, given.targetLen})

\* _verify_and_get_draft_tp().
DraftTp(type) ==
  IF given.tp # 0 THEN given.tp ELSE IF type = "mlp_speculator" THEN 1 ELSE TpSize
TpRefused == given.tp \notin {0, 1, TpSize}

ConfigInit ==
  /\ given \in [method : Methods, model : ModelNames, tokens : Tokens, padded : BOOLEAN,
                hf : HfKinds, nextn : NextLayers, tp : {0, 1, TpSize + 1}, draftLen : Lengths,
                targetLen : Lengths, maxLen : {0} \cup Lengths]
  /\ given.tp # 0 => given.maxLen = 0   \* two refusals that do not meet
  /\ given.nextn # 0 => given.hf \in Counting
  /\ given.hf \in {"medusa", "mlp_speculator", "llama"} => given.tp = 0
  \* Only a draft model has a vocabulary of its own.
  /\ given.model = "foreign" => given.hf = "llama"
  \* extract_hidden_states asserts that it is padded (5072).
  /\ given.method = "extract_hidden_states" => given.padded
  /\ phase = "given"
  /\ method = "none" /\ drafter = "none" /\ call = <<>>
  /\ tokens = 0 /\ predict = 0 /\ length = 0 /\ draftTp = 0

Refuse == phase' = "refused"
          /\ UNCHANGED <<given, method, tokens, predict, length, draftTp, drafter, call>>

\* Proposers without a model of their own keep the target's config.
PostInitModelless ==
  /\ phase = "given" /\ InferredMethod \in Modelless
  /\ IF InferredMethod = "custom_class" /\ given.model = "none" THEN Refuse
     ELSE /\ method' = InferredMethod
          /\ tokens' = IF InferredMethod = "suffix" /\ given.tokens = 0 THEN 1
                       ELSE given.tokens
          /\ length' = given.targetLen /\ draftTp' = TpSize /\ predict' = 0
          /\ phase' = "resolved"
          /\ UNCHANGED <<given, drafter, call>>

\* A model, or the target's own for "mtp" and "dspark".
PostInitModel ==
  /\ phase = "given" /\ InferredMethod \notin Modelless
  /\ LET model == IF given.model # "none" THEN given.model
                  ELSE IF given.hf = "v4_dspark" THEN "x-dspark" ELSE "x"
         found == DetectedMethod(InferredMethod, model)
         n == Predict(found)
         k == IF given.tokens = 0 THEN n ELSE given.tokens
     IN IF \/ given.model = "none" /\ (given.tokens = 0 \/ InferredMethod \notin OwnModel)
           \/ found = "none" \/ k = 0 \/ ~Divides(k, n) \/ TpRefused \/ LengthRefused
        THEN Refuse
        ELSE /\ method' = found /\ tokens' = k /\ predict' = n
             /\ length' = DraftMaxModelLen /\ draftTp' = DraftTp(Hf.type)
             /\ phase' = "resolved"
             /\ UNCHANGED <<given, drafter, call>>

\* _verify_args().
VerifyArgs ==
  /\ phase = "resolved"
  /\ IF tokens = 0 \/ (method = "draft_model" /\ given.model = "foreign") THEN Refuse
     ELSE /\ phase' = "accepted"
          /\ UNCHANGED <<given, method, tokens, predict, length, draftTp, drafter, call>>

-----------------------------------------------------------------------------
(* The worker.                                                             *)

UseEagle(m) == m \in {"eagle", "eagle3", "mtp", "dflash", "dspark"}
UseGemma4(m) == m = "mtp" /\ Hf.type = "gemma4_mtp"

\* Fault: use_eagle() is asked before use_dflash() and use_dspark().
DrafterEagleFirst(m) ==
  CASE m = "custom_class" -> "custom" [] m = "ngram" -> "NgramProposer"
    [] m = "draft_model" -> "DraftModelProposer" [] m = "ngram_gpu" -> "NgramProposerGPU"
    [] UseGemma4(m) -> "Gemma4Proposer" [] m = "suffix" -> "SuffixDecodingProposer"
    [] UseEagle(m) /\ ~UseGemma4(m) -> "EagleProposer"
    [] m = "medusa" -> "MedusaProposer"
    [] m = "extract_hidden_states" -> "ExtractHiddenStatesProposer"
    [] OTHER -> "none"

\* GPUModelRunner.__init__(): the first branch that is true.
Drafter(m) ==
  CASE m = "custom_class" -> "custom" [] m = "ngram" -> "NgramProposer"
    [] m = "draft_model" -> "DraftModelProposer" [] m = "ngram_gpu" -> "NgramProposerGPU"
    [] UseGemma4(m) -> "Gemma4Proposer" [] m = "dflash" -> "DFlashProposer"
    [] m = "dspark" -> "DSparkProposer" [] m = "suffix" -> "SuffixDecodingProposer"
    [] UseEagle(m) /\ ~UseGemma4(m) /\ m \notin {"dflash", "dspark"} -> "EagleProposer"
    [] m = "medusa" -> "MedusaProposer"
    [] m = "extract_hidden_states" -> "ExtractHiddenStatesProposer"
    [] OTHER -> "none"

\* DSparkProposer reads fields only a DSpark config has.
Makes(m) == Drafter(m) # "none" /\ (Drafter(m) = "DSparkProposer" => Hf.type = "deepseek_v4_dspark")

MakeDrafter ==
  /\ phase = "accepted"
  /\ IF ~Makes(method) THEN Refuse
     ELSE /\ drafter' = Drafter(method) /\ phase' = "made"
          /\ UNCHANGED <<given, method, tokens, predict, length, draftTp, call>>

\* sample_tokens(): who gets the tokens on the GPU, before bookkeeping.
UseGpuToks(m) ==
  given.padded /\ (UseEagle(m) \/ m \in {"draft_model", "extract_hidden_states", "ngram_gpu"})

\* propose_draft_token_ids(): the classes its branch takes.
Classes(m) ==
  CASE m = "ngram" -> {"NgramProposer"} [] m = "custom_class" -> {"custom"}
    [] m = "ngram_gpu" -> {"NgramProposerGPU"} [] m = "suffix" -> {"SuffixDecodingProposer"}
    [] m = "medusa" -> {"MedusaProposer"}
    [] m = "extract_hidden_states" -> {"ExtractHiddenStatesProposer"}
    [] UseEagle(m) \/ m = "draft_model" ->
         {"EagleProposer", "DFlashProposer", "DSparkProposer", "DraftModelProposer",
          "Gemma4Proposer"}

\* How wide the drafts are that come back.
Width(class) == IF class = "DSparkProposer" THEN Min({BlockSize, tokens}) ELSE tokens

Propose ==
  /\ phase = "made"
  /\ phase' = "proposing"
  /\ call' = [form |-> IF UseGpuToks(method) THEN "tensor" ELSE "list",
              reqIds |-> method = "dspark",
              hidden |-> IF method = "dspark" THEN "dspark" ELSE "mtp",
              width |-> Width(drafter)]
  /\ UNCHANGED <<given, method, tokens, predict, length, draftTp, drafter>>

ConfigNext == PostInitModelless \/ PostInitModel \/ VerifyArgs \/ MakeDrafter \/ Propose
ConfigSpec == ConfigInit /\ [][ConfigNext]_configVars

-----------------------------------------------------------------------------
(***************************************************************************)
(* As long as no depth on offer is a larger multiple of the block          *)
(* (WithinBlock of Host_proofs, which Tokens and BlockSize of the run      *)
(* satisfy): what was asked for is refused before it serves, or the        *)
(* proposer is one its branch takes, gets the tokens in the form it works  *)
(* on, the hidden states and the request ids if it is DSpark's and only    *)
(* then, drafts as many tokens as the scheduler and the copies count on,   *)
(* and never for a sequence longer than the target or the draft can hold.  *)
(***************************************************************************)
ServedByItsOwn ==
  phase = "proposing" =>
    /\ drafter \in Classes(method)
    /\ call.reqIds <=> drafter = "DSparkProposer"
    /\ call.hidden = "dspark" <=> drafter = "DSparkProposer"
    /\ drafter \in {"NgramProposer", "custom", "SuffixDecodingProposer", "MedusaProposer"}
         => call.form = "list"
    /\ drafter = "ExtractHiddenStatesProposer" => call.form = "tensor"
    /\ call.width = tokens
    /\ length <= given.targetLen
    /\ method \notin Modelless => length <= given.draftLen
=============================================================================
