---------------------------- MODULE ModelRunner ----------------------------
(***************************************************************************)
(* The worker side of the engine: GPUModelRunner of                        *)
(* docker/overlay/vllm/v1/worker/gpu_model_runner.py with asynchronous     *)
(* scheduling and DSpark drafts.  A SchedulerOutput is worked off by       *)
(* execute_model() and then sample_tokens().                               *)
(*                                                                         *)
(* With two steps in flight the runner prepares step n+1 before anybody on *)
(* the CPU knows what step n accepted.  It takes num_computed_tokens from  *)
(* the scheduler, who assumes every draft accepted, corrects it on the GPU *)
(* from the counts the previous step left there, and again on the CPU      *)
(* after the forward; the tokens themselves are copied on the GPU from     *)
(* rows of the previous batch, whose order is another one.                 *)
(*                                                                         *)
(* A token is named by its request and position, <<r, p>>.                 *)
(***************************************************************************)
EXTENDS Integers, FiniteSets, Functions, SequencesExt

CONSTANTS
  Requests,        \* request ids
  PromptLen,       \* prompt tokens of each request
  NumSpecTokens,   \* num_speculative_tokens
  DraftLengths,    \* draft lengths the proposer may choose; {} if it does not
  DrafterMaxLen,   \* effective_drafter_max_model_len
  ForgetsRemoved   \* whether InputBatch.remove_request, which is vLLM's,
                   \* drops the request from prev_req_id_to_index

VARIABLES
  inbox,           \* SchedulerOutputs not yet executed, oldest first
  outbox,          \* ModelRunnerOutputs the engine has not yet read
  requests,        \* self.requests: cached state of each known request
  rows,            \* input_batch.req_ids, by batch row
  prevIndex,       \* input_batch.prev_req_id_to_index
  sampled,         \* prev_sampled_token_ids and the counts next to it
  gpuComputed,     \* self.num_computed_tokens on the GPU, by batch row
  drafts,          \* self._draft_token_ids, by row of the last sampled batch
  prefilled,       \* DSparkProposer._prefilled
  execState,       \* self.execute_model_state
  known,           \* history: tokens of a request that are determined
  kvLen            \* history: positions whose KV was computed from them

runnerVars == <<inbox, outbox, requests, rows, prevIndex, sampled,
                gpuComputed, drafts, prefilled, execState, known, kvLen>>

None == <<>>
Placeholder == <<"-1">>   \* the token id -1
Stale == <<"stale">>      \* what an earlier step left in the buffer
Zero == <<"0">>           \* a zeroed draft

RunnerInit ==
  /\ inbox = <<>>
  /\ outbox = <<>>
  /\ requests = <<>>
  /\ rows = <<>>
  /\ prevIndex = <<>>
  /\ sampled = None
  /\ gpuComputed = <<>>
  /\ drafts = None
  /\ prefilled = FALSE
  /\ execState = None
  /\ known = [r \in Requests |-> 0]
  /\ kvLen = [r \in Requests |-> 0]

Lesser(a, b) == IF a <= b THEN a ELSE b
\* The sum of all values of f.
Total(f) == FoldFunction(+, 0, f)

-----------------------------------------------------------------------------
(* _update_states: the cached states and the persistent batch.             *)

InStep(m) == {r \in Requests : m.n[r] > 0}

\* Cached requests of the step that keep their row: the finished and the
\* unscheduled have lost it, and so have the resumed.
KeepRow(m) == (ToSet(rows) \ m.finished) \intersect (InStep(m) \ m.resumed)

\* prev_req_id_to_index once the rows are removed.
PrevIndex(m) ==
  [r \in IF ForgetsRemoved THEN DOMAIN prevIndex \ (ToSet(rows) \ KeepRow(m))
         ELSE DOMAIN prevIndex |-> prevIndex[r]]

\* Drafts of the last step, all assumed accepted for now.
Assumed(m, r) == IF r \in KeepRow(m) THEN requests[r].prevDraft ELSE 0

\* Output token ids that all_token_ids[-num_output_tokens:] gives back.
Restored(m, r) == IF m.outputs[r] = m.out[r] THEN m.out[r] ELSE 0

\* outs output ids are cached; those after the first `real' are -1.
NewState(m, r) ==
  [computed |-> m.computed[r], outs |-> 0, real |-> 0, prevDraft |-> m.spec[r]]

CachedState(m, r) ==
  LET outs == Lesser(requests[r].outs + Assumed(m, r), m.outputs[r])
  IN  IF r \in KeepRow(m) \/ m.outputs[r] = 0
      THEN [computed |-> m.computed[r], outs |-> outs,
            real |-> Lesser(requests[r].real, outs), prevDraft |-> m.spec[r]]
      ELSE [computed |-> m.computed[r], outs |-> m.outputs[r],
            real |-> Restored(m, r), prevDraft |-> m.spec[r]]

UpdatedRequests(m) ==
  [r \in (DOMAIN requests \ m.finished) \union m.new |->
     CASE r \in m.new             -> NewState(m, r)
       [] r \in InStep(m) \ m.new -> CachedState(m, r)
       [] OTHER                   -> requests[r]]

\* Rows after add_request, condense and _may_reorder_batch.
RowOrders(S) == {b \in [1..Cardinality(S) -> S] : IsInjective(b)}

\* deferred_spec_decode_corrections
Deferred(m) ==
  {r \in InStep(m) \ m.new : Assumed(m, r) > 0}

-----------------------------------------------------------------------------
(* _prepare_inputs: positions and token ids of the flattened batch.        *)

\* Fault: the row of this batch is taken for the row of the last one.
SamePosition(m, batch, i) ==
  IF batch[i] \in DOMAIN PrevIndex(m) /\ i \in DOMAIN sampled.next THEN i ELSE 0

\* prev_positions: the row of the previous batch, 0 for none.
PrevPosition(m, batch, i) ==
  IF batch[i] \in DOMAIN PrevIndex(m) THEN prevIndex[batch[i]] ELSE 0

\* update_num_computed_tokens_for_batch_change, on the GPU: a row that had
\* drafts goes on from where the previous step really ended.
StartOf(m, batch, i) ==
  LET p == PrevPosition(m, batch, i)
  IN  IF sampled # None /\ p > 0 /\ batch[i] \in Deferred(m)
      THEN gpuComputed[p] + sampled.count[p]
      ELSE m.computed[batch[i]]

\* Fault: rows that end with the last token of their request, too.
DiscardedAtEnd(m, states, batch) ==
  {i \in DOMAIN batch :
     m.computed[batch[i]] + m.n[batch[i]]
       <= PromptLen[batch[i]] + states[batch[i]].outs}

\* discard_request_mask: rows that end before the tokens of their request.
Discarded(m, states, batch) ==
  {i \in DOMAIN batch :
     m.computed[batch[i]] + m.n[batch[i]]
       < PromptLen[batch[i]] + states[batch[i]].outs}

\* cu_num_tokens: the last flat index of row i.
CuNumTokens(m, batch, i) == Total([j \in 1..i |-> m.n[batch[j]]])
TotalTokens(m, batch) == CuNumTokens(m, batch, Len(batch))

\* input_ids as read from token_ids_cpu.
CpuIds(m, states, batch) ==
  [k \in 1..TotalTokens(m, batch) |->
     LET i == CHOOSE j \in DOMAIN batch : /\ CuNumTokens(m, batch, j - 1) < k
                                          /\ k <= CuNumTokens(m, batch, j)
         r == batch[i]
         p == m.computed[r] + (k - CuNumTokens(m, batch, i - 1) - 1)
     IN  IF p < PromptLen[r] + states[r].real THEN <<r, p>> ELSE Placeholder]

Common(m, batch) == {i \in DOMAIN batch : PrevPosition(m, batch, i) > 0}

\* sample_flattened_indices: where the token sampled last goes.
SampleIndex(m, batch, i) == CuNumTokens(m, batch, i) - m.spec[batch[i]]

\* What the GPU holds before the scatters: the CPU ids, unless every row
\* without drafts is a decode of the previous batch.
BaseIds(m, states, batch) ==
  LET withoutSpec == TotalTokens(m, batch) - Total([i \in Common(m, batch) |->
                                                   m.spec[batch[i]]])
  IN  IF Cardinality(Common(m, batch)) < withoutSpec
      THEN CpuIds(m, states, batch)
      ELSE [k \in 1..TotalTokens(m, batch) |-> Stale]

\* The batch is unchanged: one slice is copied.
SliceSuffices(m, batch) ==
  \A i \in Common(m, batch) :
    /\ CuNumTokens(m, batch, i) = PrevPosition(m, batch, i)
    /\ CuNumTokens(m, batch, i) <= Cardinality(Common(m, batch))

\* Both scatters: sampled tokens, then the drafts that follow them.
Scattered(m, states, batch) ==
  [k \in 1..TotalTokens(m, batch) |->
     LET hit == {i \in Common(m, batch) : SampleIndex(m, batch, i) <= k
                                       /\ k <= CuNumTokens(m, batch, i)}
     IN  IF hit = {} THEN BaseIds(m, states, batch)[k]
         ELSE LET i == CHOOSE j \in hit : TRUE
                  p == PrevPosition(m, batch, i)
                  j == k - SampleIndex(m, batch, i)
              IN  IF j = 0 THEN sampled.next[p]
                  ELSE IF drafts = None THEN BaseIds(m, states, batch)[k]
                  ELSE drafts[p][j]]

InputIds(m, states, batch) ==
  IF sampled = None \/ Common(m, batch) = {} THEN CpuIds(m, states, batch)
  ELSE IF SliceSuffices(m, batch)
  THEN [k \in 1..TotalTokens(m, batch) |->
          IF k <= Cardinality(Common(m, batch)) THEN sampled.next[k]
          ELSE BaseIds(m, states, batch)[k]]
  ELSE Scattered(m, states, batch)

-----------------------------------------------------------------------------
(* _calc_spec_decode_metadata: indices of the verification.                *)

\* logits_indices, by row: the flat indices logits are computed for.
LogitsIndices(m, batch, i) ==
  LET num == m.spec[batch[i]] + 1
  IN  [j \in 1..num |-> CuNumTokens(m, batch, i) - num + j]

\* draft_token_ids: the ids verified by the logits before them.
VerifiedIds(m, ids, batch, i) ==
  [j \in 1..m.spec[batch[i]] |-> ids[LogitsIndices(m, batch, i)[j + 1]]]

-----------------------------------------------------------------------------
\* Fault: the CPU correction forgets the bonus token.
CorrectionWithBonus(r) == requests[r].prevDraft - sampled.count[prevIndex[r]]

Correction(r) == requests[r].prevDraft - (sampled.count[prevIndex[r]] - 1)

\* correct_spec_decode_token_counts, after the forward has been launched.
CorrectedRequests(m, states) ==
  [r \in DOMAIN states |->
     IF sampled # None /\ r \in Deferred(m) \intersect DOMAIN PrevIndex(m)
     THEN [states[r] EXCEPT !.computed = @ - Correction(r)]
     ELSE states[r]]

\* max_seq_len of the batch, drafts of the last step assumed accepted.
FitsDrafter(m, batch) ==
  \A i \in DOMAIN batch :
    m.computed[batch[i]] + m.n[batch[i]] + NumSpecTokens <= DrafterMaxLen

EmptyOutput == [generated |-> <<>>, lengths |-> None]

\* A request that is new or resumed starts from its cached prefix.
FromPrefix(m) == m.new \union m.resumed

ExecuteModel ==
  /\ execState = None
  /\ inbox # <<>>
  /\ inbox' = Tail(inbox)
  /\ LET m == Head(inbox)
         states == UpdatedRequests(m)
     IN  \E batch \in RowOrders(InStep(m)) :
           /\ rows' = batch
           /\ prevIndex' = PrevIndex(m)
           /\ IF batch = <<>>
              THEN /\ requests' = states
                   /\ outbox' = Append(outbox, EmptyOutput)
                   /\ UNCHANGED <<gpuComputed, execState, known, kvLen>>
              ELSE /\ requests' = CorrectedRequests(m, states)
                   /\ gpuComputed' = [i \in DOMAIN batch |->
                                        StartOf(m, batch, i)]
                   /\ execState' =
                        [m |-> m, discarded |-> Discarded(m, states, batch),
                         common |-> Common(m, batch),
                         ids |-> InputIds(m, states, batch),
                         fits |-> FitsDrafter(m, batch)]
                   /\ known' = [r \in Requests |->
                                  IF r \in m.new THEN PromptLen[r] ELSE known[r]]
                   /\ kvLen' = [r \in Requests |->
                                  IF r \in FromPrefix(m) THEN m.computed[r]
                                  ELSE kvLen[r]]
                   /\ UNCHANGED outbox
  /\ UNCHANGED <<sampled, drafts, prefilled>>

-----------------------------------------------------------------------------
(* sample_tokens: verify, draft, and take down what was sampled.           *)

\* Tokens the rejection sampler may emit for row i: one, and its drafts.
SampledCounts(m, i) ==
  IF i \in execState.discarded THEN {0} ELSE 1..(m.spec[rows[i]] + 1)

\* Position of the last token sampled for row i.
LastSampled(m, count, i) ==
  gpuComputed[i] + m.n[rows[i]] - m.spec[rows[i]] - 1 + count[i]

\* prepare_next_token_ids_padded
NextTokens(m, count) ==
  [i \in DOMAIN rows |->
     IF count[i] = 0 THEN Placeholder
     ELSE <<rows[i], LastSampled(m, count, i)>>]

ProposedDrafts(m, count) ==
  [i \in DOMAIN rows |-> [j \in 1..NumSpecTokens |->
     IF count[i] = 0 THEN Zero ELSE <<rows[i], LastSampled(m, count, i) + j>>]]

ZeroDrafts == [i \in DOMAIN rows |-> [j \in 1..NumSpecTokens |-> Zero]]

\* propose(): nothing near the end of the context, and nothing in its very
\* first call, whose rings are empty.
Propose(m, count) ==
  /\ drafts' = IF execState.fits /\ prefilled THEN ProposedDrafts(m, count)
               ELSE ZeroDrafts
  /\ prefilled' = (prefilled \/ execState.fits)

\* draft_token_lengths of the output, if the proposer chose any.
ReportedLengths ==
  IF execState.fits /\ prefilled /\ DraftLengths # {}
  THEN [ToSet(rows) -> DraftLengths] ELSE {None}

RowOf(r) == CHOOSE i \in DOMAIN rows : rows[i] = r

\* _bookkeeping_sync: rows whose token the next step may take from the GPU.
SampledRows ==
  [r \in {rows[i] : i \in DOMAIN rows \ execState.discarded} |->
     RowOf(r)]

SampleTokens ==
  /\ execState # None
  /\ LET m == execState.m
     IN  \E count \in [DOMAIN rows -> 0..(NumSpecTokens + 1)] :
           /\ \A i \in DOMAIN rows : count[i] \in SampledCounts(m, i)
           /\ sampled' = [next |-> NextTokens(m, count), count |-> count]
           /\ Propose(m, count)
           /\ prevIndex' = SampledRows
           /\ requests' = [r \in DOMAIN requests |->
                             IF r \in DOMAIN SampledRows
                             THEN [requests[r] EXCEPT !.outs = @ + 1]
                             ELSE requests[r]]
           /\ \E lengths \in ReportedLengths :
                outbox' = Append(outbox,
                  [generated |-> [r \in ToSet(rows) |-> count[RowOf(r)]],
                   lengths |-> lengths])
           /\ known' = [r \in Requests |->
                          IF r \in ToSet(rows)
                          THEN known[r] + count[RowOf(r)] ELSE known[r]]
           /\ kvLen' = [r \in Requests |->
                          IF r \notin ToSet(rows) THEN kvLen[r]
                          ELSE IF count[RowOf(r)] = 0 THEN kvLen[r] + m.n[r]
                          ELSE kvLen[r] + m.n[r] - m.spec[r] - 1
                               + count[RowOf(r)]]
  /\ execState' = None
  /\ UNCHANGED <<inbox, rows, gpuComputed>>

RunnerStep == ExecuteModel \/ SampleTokens
=============================================================================
