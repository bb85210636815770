---------------------------- MODULE TargetCapture ----------------------------
(***************************************************************************)
(* The features the draft reads: the hidden states of some layers of the   *)
(* target, captured into one buffer while the target runs                  *)
(* (nvidia/model.py, DeepseekV4Model and DeepseekV4DecoderLayer).          *)
(*                                                                         *)
(* A layer leaves its output unmixed: the mixing (hc_post) is fused into   *)
(* the next layer, which then holds the captured state only between two    *)
(* kernels.  Capture happens at once, with a mixing of its own, or is      *)
(* deferred to the next layer, exact or out of the fused kernel.           *)
(*                                                                         *)
(* A state of the stream is a number: 0 is the embedding, 2k + 1 what the  *)
(* attention of layer k leaves, 2k + 2 what the layer leaves.              *)
(***************************************************************************)
EXTENDS Integers, SequencesExt

CONSTANTS
  NumHiddenLayers,
  StartLayer,       \* first layer of the last pipeline rank, where the buffer is
  MaxForwards

ASSUME CaptureAssumption == NumHiddenLayers \in Nat /\ StartLayer \in 0..NumHiddenLayers

VARIABLES
  ids,       \* dspark_target_layer_ids, increasing
  defer,     \* VLLM_DSV4_DSPARK_DEFER_TARGET_CAPTURE
  exact,     \* ..._EXACT
  forwards,  \* forwards begun
  layer,     \* the next layer
  residual,  \* the state mixed last, or NoResidual: the stream is mixed
  hidden,    \* the state of the stream
  buffer     \* per captured layer: the state in it and its forward

captureVars == <<ids, defer, exact, forwards, layer, residual, hidden, buffer>>

RankLayers == StartLayer..(NumHiddenLayers - 1)
NoResidual == -1
NoLayer == -1
After(k) == 2 * k + 2

\* Fault: a layer captures its own id.
PrevCaptureOwn(k) == IF defer /\ k \in ToSet(ids) THEN k ELSE NoLayer

\* _setup_dspark_deferred_target_capture(): the id a layer captures for the one
\* before it; the last layer has no next one.
PrevCapture(k) == IF defer /\ k - 1 \in ToSet(ids) THEN k - 1 ELSE NoLayer

Deferred == {id \in ToSet(ids) : \E k \in RankLayers : PrevCapture(k) = id}

\* buffer[:, start:end] of an id.
Captured(buf, id, state) ==
  [k \in DOMAIN buf |-> IF ids[k] = id THEN [state |-> state, forward |-> forwards] ELSE buf[k]]

CaptureInit ==
  /\ ids \in UNION {[1..n -> 0..(NumHiddenLayers - 1)] : n \in 1..NumHiddenLayers}
  /\ \A j, k \in DOMAIN ids : j < k => ids[j] < ids[k]
  /\ defer \in BOOLEAN /\ exact \in BOOLEAN
  /\ forwards = 0
  /\ layer = NumHiddenLayers
  /\ residual = NoResidual /\ hidden = After(NumHiddenLayers - 1)
  /\ buffer = [k \in DOMAIN ids |-> [state |-> NoResidual, forward |-> 0]]

\* forward(): the embedding, or what the rank before sent, mixed.
Begin ==
  /\ layer = NumHiddenLayers /\ residual = NoResidual
  /\ forwards < MaxForwards
  /\ forwards' = forwards + 1
  /\ layer' = StartLayer
  /\ hidden' = After(StartLayer - 1)
  /\ UNCHANGED <<ids, defer, exact, residual, buffer>>

\* _maybe_capture_dspark_previous_layer_exact() mixes for itself what
\* _maybe_capture_dspark_previous_layer() takes from the fused kernel.
CapturePrevious(mixed) ==
  IF PrevCapture(layer) = NoLayer THEN buffer
  ELSE Captured(buffer, PrevCapture(layer), IF exact THEN residual + 1 ELSE mixed)

\* One layer, and the capture after it if that is not deferred.
RunLayer ==
  LET mixed == IF residual = NoResidual THEN hidden ELSE residual + 1
      before == IF residual = NoResidual THEN buffer ELSE CapturePrevious(mixed)
      here == layer \in ToSet(ids) \ Deferred
  IN /\ layer \in RankLayers
     /\ hidden' = mixed + 2
     /\ residual' = IF here THEN NoResidual ELSE mixed + 1
     /\ buffer' = IF here THEN Captured(before, layer, mixed + 2) ELSE before
     /\ layer' = layer + 1
     /\ UNCHANGED <<ids, defer, exact, forwards>>

\* The last mixing.
Finish ==
  /\ layer = NumHiddenLayers /\ residual # NoResidual
  /\ hidden' = residual + 1 /\ residual' = NoResidual
  /\ UNCHANGED <<ids, defer, exact, forwards, layer, buffer>>

CaptureNext == Begin \/ RunLayer \/ Finish
CaptureSpec == CaptureInit /\ [][CaptureNext]_captureVars

-----------------------------------------------------------------------------
(***************************************************************************)
(* When a forward ends, the buffer the draft is given                      *)
(* (get_dspark_target_hidden_states()) holds for every captured layer what *)
(* that layer left in this forward, mixed: not the layer before, not what  *)
(* an earlier step left there, whichever way it was captured.              *)
(***************************************************************************)
FeaturesOfThisForward ==
  forwards > 0 /\ layer = NumHiddenLayers /\ residual = NoResidual =>
    \A k \in DOMAIN ids : buffer[k] = [state |-> After(ids[k]), forward |-> forwards]
=============================================================================
