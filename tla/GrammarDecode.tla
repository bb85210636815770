---------------------------- MODULE GrammarDecode ----------------------------
(***************************************************************************)
(* Structured output with drafts and two steps in flight: scheduler.py,    *)
(* get_grammar_bitmask(), update_draft_token_ids_in_output() and the       *)
(* grammar's turn in update_from_output(); gpu_model_runner.py,            *)
(* take_draft_token_ids() and the mask in sample_tokens().                 *)
(*                                                                         *)
(* The worker verifies the drafts it has on the GPU.  The scheduler has    *)
(* scheduled placeholders for them; the mask of a row follows the grammar  *)
(* through the drafts before it.  A step that carries a structured request *)
(* still owed a token is executed, but sampled only when the step before   *)
(* it is received: then its tokens are known, and its drafts are fetched.  *)
(*                                                                         *)
(* The grammar is the smallest with a state: after "open" only "close".    *)
(***************************************************************************)
EXTENDS Integers, SequencesExt

CONSTANTS
  Structured,   \* requests with structured output
  NumSpec,      \* num_spec_tokens
  MaxChunks,    \* chunks of a prompt
  MaxTokens,    \* tokens of an answer
  ShortDrafts,  \* BOOLEAN: the proposer may report fewer drafts than NumSpec
  Preemptions   \* BOOLEAN: requests are preempted

ASSUME GrammarAssumption ==
  /\ NumSpec \in Nat /\ MaxChunks \in Nat \ {0} /\ MaxTokens \in Nat
  /\ ShortDrafts \in BOOLEAN /\ Preemptions \in BOOLEAN

VARIABLES
  chunks,    \* chunks of its prompt a request has yet to schedule
  specLen,   \* length of request.spec_token_ids
  made,      \* the tokens the scheduler received
  grammar,   \* the state of a request's grammar
  rejected,  \* requests whose tokens the grammar rejected
  flight,    \* sampled steps on their way, oldest first
  deferred,  \* the step that is executed and not sampled, if there is one
  drafts     \* _draft_token_ids and _draft_token_lengths_cpu, by request

grammarVars == <<chunks, specLen, made, grammar, rejected, flight, deferred, drafts>>

Tokens == {"open", "close", "word"}
Pad == "pad"
Allowed(state) == IF state = "opened" THEN {"close"} ELSE {"open", "word"}
Advance(state, token) == IF token = "open" THEN "opened" ELSE "free"
State(state, ids) == FoldLeft(Advance, state, ids)

Done(r) == made[r] = MaxTokens \/ r \in rejected
InFlight(r) == \E k \in DOMAIN flight : r \in DOMAIN flight[k].sampled

\* A step: the drafts scheduled per request, and which rows yield a token.
NoStep == [placed |-> <<>>, yields |-> {}]

GrammarInit ==
  /\ chunks \in [Structured -> 1..MaxChunks]
  /\ specLen = [r \in Structured |-> 0]
  /\ made = [r \in Structured |-> 0]
  /\ grammar = [r \in Structured |-> "free"]
  /\ rejected = {}
  /\ flight = <<>> /\ deferred = NoStep /\ drafts = <<>>

-----------------------------------------------------------------------------
(* The mask.                                                               *)

\* Fault: only rows with drafts are masked.
MaskedDecodes(step) == {r \in step.yields : step.placed[r] # <<>>}

\* get_grammar_bitmask(): the requests that get rows.
MaskedRequests(step) == step.yields

\* grammar_bitmask(): what row k lets through; nothing is known after padding.
Mask(step, r, state, k) ==
  LET before == SubSeq(step.placed[r], 1, k - 1)
  IN IF r \notin MaskedRequests(step) \/ Contains(before, Pad) THEN Tokens
     ELSE Allowed(State(state, before))

\* accept_tokens(): the grammar takes them one after the other.
Accepts(state, ids) ==
  \A k \in 1..Len(ids) : ids[k] \in Allowed(State(state, SubSeq(ids, 1, k - 1)))

\* validate_tokens(): the longest prefix the grammar accepts.
Validated(state, ids) ==
  SubSeq(ids, 1, Max({n \in 0..Len(ids) : Accepts(state, SubSeq(ids, 1, n))}))

\* The drafts that take n places: trimmed, filtered, and padded again.
Filtered(r, n) ==
  LET ids == SubSeq(drafts[r].ids, 1, Min({n, drafts[r].length}))
      kept == Validated(grammar[r], ids)
  IN [k \in 1..n |-> IF k <= Len(kept) THEN kept[k] ELSE Pad]

UpdateDraftsInOutput(step) ==
  [placed |-> [r \in DOMAIN step.placed |->
                 IF r \in DOMAIN drafts /\ ~Done(r) THEN Filtered(r, Len(step.placed[r]))
                 ELSE step.placed[r]],
   yields |-> step.yields]

-----------------------------------------------------------------------------
(* The worker.                                                             *)

\* What the rejection sampler may return for a request: drafts the target
\* agrees with, then a token of its own.
Sampled(step, r) ==
  LET ids == IF r \in DOMAIN drafts THEN drafts[r].ids ELSE <<>>
      n == Len(step.placed[r])
  IN {o \in UNION {{Append(SubSeq(ids, 1, k), t) : t \in Tokens} : k \in 0..n} :
        /\ Len(o) <= n => o[Len(o)] # ids[Len(o)]
        /\ \A i \in 1..Len(o) : o[i] \in Mask(step, r, grammar[r], i)}

\* sample_tokens() and propose_draft_token_ids(): drafts for every row.
SampleMasked(step, queue) ==
  /\ \E outcome \in [step.yields -> UNION {Sampled(step, r) : r \in step.yields}],
        ids \in [DOMAIN step.placed -> [1..NumSpec -> Tokens \ {"word"}]],
        length \in [DOMAIN step.placed -> IF ShortDrafts THEN 0..NumSpec ELSE {NumSpec}] :
       /\ \A r \in step.yields : outcome[r] \in Sampled(step, r)
       /\ drafts' = [r \in DOMAIN ids |-> [ids |-> ids[r], length |-> length[r]]]
       /\ flight' = Append(queue, [sampled |-> outcome, lengths |-> length])

-----------------------------------------------------------------------------
(* The engine: step_with_batch_queue().                                    *)

\* schedule(): every request that is not done; one resumed waits for its frames.
Scheduled ==
  {r \in Structured : ~Done(r) /\ (chunks[r] > 0 => ~InFlight(r))}

\* Some structured request of the step is still owed a token.
Pending(step) == \E r \in DOMAIN step.placed : InFlight(r)

\* What is scheduled: a place per draft, and the prompts that end yield.
ScheduledStep ==
  [placed |-> [r \in Scheduled |-> [k \in 1..specLen[r] |-> Pad]],
   yields |-> {r \in Scheduled : chunks[r] <= 1}]

Schedule ==
  /\ Len(flight) < 2 /\ deferred = NoStep /\ Scheduled # {}
  /\ chunks' = [r \in Structured |->
                  IF r \in Scheduled THEN Max({0, chunks[r] - 1}) ELSE chunks[r]]
  /\ specLen' = [r \in Structured |->
                   IF r \in ScheduledStep.yields THEN NumSpec ELSE specLen[r]]
  /\ \/ /\ Pending(ScheduledStep)
        /\ deferred' = ScheduledStep
        /\ UNCHANGED <<flight, drafts>>
     \/ /\ ~Pending(ScheduledStep)
        /\ SampleMasked(ScheduledStep, flight)
        /\ UNCHANGED deferred
  /\ UNCHANGED <<made, grammar, rejected>>

\* update_from_output().
Live(frame) == {r \in DOMAIN frame.sampled : ~Done(r)}
Kept(frame, r) ==
  SubSeq(frame.sampled[r], 1, Min({Len(frame.sampled[r]), MaxTokens - made[r]}))
Legal(frame, r) == Accepts(grammar[r], Kept(frame, r))

Receive ==
  /\ flight # <<>>
  /\ deferred # NoStep \/ Len(flight) = 2 \/ Scheduled = {}
  /\ flight' = Tail(flight)
  /\ LET f == Head(flight)
     IN /\ made' = [r \in Structured |->
                      made[r] + IF r \in Live(f) THEN Len(Kept(f, r)) ELSE 0]
        /\ grammar' = [r \in Structured |->
                         IF r \in Live(f) /\ Legal(f, r)
                         THEN State(grammar[r], Kept(f, r)) ELSE grammar[r]]
        /\ rejected' = rejected \cup {r \in Live(f) : ~Legal(f, r)}
        /\ specLen' = [r \in Structured |->
                         IF r \in Live(f) /\ chunks[r] = 0
                         THEN Min({f.lengths[r], NumSpec}) ELSE specLen[r]]
  /\ UNCHANGED <<chunks, deferred, drafts>>

\* The step before it is received.
SampleDeferred ==
  /\ deferred # NoStep /\ flight = <<>>
  /\ SampleMasked(UpdateDraftsInOutput(deferred), flight)
  /\ deferred' = NoStep
  /\ UNCHANGED <<chunks, specLen, made, grammar, rejected>>

\* _preempt_request(), and the prompt is computed again.
Preempt(r) ==
  /\ Preemptions /\ deferred = NoStep /\ chunks[r] = 0 /\ ~Done(r)
  /\ chunks' = [chunks EXCEPT ![r] = 1]
  /\ specLen' = [specLen EXCEPT ![r] = 0]
  /\ UNCHANGED <<made, grammar, rejected, flight, deferred, drafts>>

GrammarNext ==
  Schedule \/ Receive \/ SampleDeferred \/ \E r \in Structured : Preempt(r)

GrammarSpec == GrammarInit /\ [][GrammarNext]_grammarVars

-----------------------------------------------------------------------------
(***************************************************************************)
(* Whatever the drafts and however far the steps run ahead, the grammar    *)
(* takes every token that is received: rejecting one is "Unexpected" to    *)
(* update_from_output() (1421-1427), which ends the request.               *)
(***************************************************************************)
GrammarHolds == rejected = {}
=============================================================================
