----------------------------- MODULE Scheduler -----------------------------
(***************************************************************************)
(* The engine-side scheduler of the overlay                                *)
(* (docker/overlay/vllm/v1/core/sched/scheduler.py), driven by vLLM's      *)
(* asynchronous engine loop with a batch queue of depth two.               *)
(*                                                                         *)
(* A schedule() call and an update_from_output() call are each a sequence  *)
(* of steps, one per iteration of the loops in the code; `phase' says      *)
(* which loop is running.  Every other operation happens between two       *)
(* calls, when phase = "idle": the engine core is a single thread.         *)
(*                                                                         *)
(* Tokens are counted, never named.  FCFS policy, one KV cache group, no   *)
(* encoder inputs, no KV connector and no streaming sessions.              *)
(***************************************************************************)
EXTENDS Integers, FiniteSets, Functions, SequencesExt

CONSTANTS
  Requests,              \* request ids a client may submit
  PromptLen,             \* number of prompt tokens of each request
  MaxTokens,             \* sampling limit max_tokens of each request
  MaxModelLen,           \* --max-model-len
  BlockSize,             \* tokens per KV block (--block-size)
  NumBlocks,             \* KV blocks in the pool
  MaxNumSeqs,            \* --max-num-seqs
  MaxBatchedTokens,      \* --max-num-batched-tokens
  NumSpecTokens,         \* num_speculative_tokens of DSpark
  LongPrefillThreshold,  \* long_prefill_token_threshold, 0 for none
  ReserveFullIsl,        \* scheduler_reserve_full_isl
  PrefixCaching,         \* --enable-prefix-caching
  DraftLengths,          \* draft lengths the worker may report
  Abortable,             \* requests whose client may disconnect
  PauseStates,           \* pause states an operator may set
  ResetModes             \* when reset_prefix_cache may be called

ASSUME SchedulerAssumption ==
  /\ IsFiniteSet(Requests)
  /\ PromptLen \in [Requests -> Nat \ {0}]
  /\ MaxTokens \in [Requests -> Nat \ {0}]
  /\ MaxModelLen \in Nat
  /\ \A r \in Requests : PromptLen[r] < MaxModelLen
  /\ BlockSize \in Nat \ {0}
  /\ NumBlocks \in Nat
  /\ MaxNumSeqs \in Nat \ {0}
  /\ MaxBatchedTokens \in Nat \ {0}
  /\ NumSpecTokens \in Nat
  /\ LongPrefillThreshold \in Nat
  /\ ReserveFullIsl \in BOOLEAN
  /\ PrefixCaching \in BOOLEAN
  /\ DraftLengths \subseteq 0..NumSpecTokens
  /\ Abortable \subseteq Requests
  /\ PauseStates \subseteq {"UNPAUSED", "PAUSED_NEW", "PAUSED_ALL"}
  /\ ResetModes \subseteq {"drained", "undrafted", "mid_step"}

VARIABLES
  req,             \* self.requests: the record of each request
  waiting,         \* self.waiting, head first
  running,         \* self.running
  blocks,          \* KV blocks held by each request
  freeBlocks,      \* KV blocks in the free pool
  finishedReqIds,  \* self.finished_req_ids, not yet told to the worker
  pauseState,      \* self._pause_state
  frames,          \* the batch queue: scheduled, not yet updated, oldest first
  phase,           \* the loop the engine thread is in
  cursor,          \* req_index of the RUNNING loop
  budget,          \* token_budget
  sched,           \* num_scheduled_tokens of the step in progress
  schedSpec,       \* lengths of scheduled_spec_decode_tokens
  preempted,       \* preempted_reqs of the step in progress
  todo             \* requests update_from_output has yet to visit

queueVars == <<waiting, running>>
kvVars    == <<blocks, freeBlocks>>
stepVars  == <<cursor, budget, sched, schedSpec, preempted>>
vars == <<req, queueVars, kvVars, finishedReqIds, pauseState, frames,
          phase, stepVars, todo>>

Statuses == {"NEW", "WAITING", "RUNNING", "PREEMPTED", "FINISHED"}
Unfinished == {"WAITING", "RUNNING", "PREEMPTED"}

(***************************************************************************)
(* ph is num_output_placeholders: output tokens that frames in flight may  *)
(* still deliver.  spec is the length of spec_token_ids, chunk is          *)
(* is_prefill_chunk.  NEW stands for an id no client has submitted yet.    *)
(***************************************************************************)
RequestRecord ==
  [status : Statuses, computed : Nat, out : Nat, ph : Nat,
   spec : 0..NumSpecTokens, chunk : BOOLEAN]

(***************************************************************************)
(* A SchedulerOutput in the batch queue: tokens and draft tokens per       *)
(* request, the requests it samples a token for, and those whose output    *)
(* is stale because reset_prefix_cache preempted them meanwhile.           *)
(***************************************************************************)
Frame ==
  [n : [Requests -> Nat], spec : [Requests -> 0..NumSpecTokens],
   emits : SUBSET Requests, stale : SUBSET Requests]

Least(a, b) == IF a <= b THEN a ELSE b
NumTokens(r) == PromptLen[r] + req[r].out
Nothing == [r \in Requests |-> 0]

-----------------------------------------------------------------------------
(* The KV block pool (vLLM's KVCacheManager, seen through its callers).    *)

BlocksFor(n) == (n + BlockSize - 1) \div BlockSize

\* Blocks allocate_slots must take from the pool so that r covers n tokens.
Missing(r, n) ==
  LET want == BlocksFor(Least(n, MaxModelLen))
  IN  IF want > blocks[r] THEN want - blocks[r] ELSE 0

Allocate(r, n) ==
  /\ blocks' = [blocks EXCEPT ![r] = @ + Missing(r, n)]
  /\ freeBlocks' = freeBlocks - Missing(r, n)

Free(r) ==
  /\ blocks' = [blocks EXCEPT ![r] = 0]
  /\ freeBlocks' = freeBlocks + blocks[r]

\* get_computed_blocks: whole blocks, and never the last token.
CachedPrefixes(r) ==
  IF PrefixCaching
  THEN {h \in 0..(NumTokens(r) - 1) : h % BlockSize = 0}
  ELSE {0}

-----------------------------------------------------------------------------
Init ==
  /\ req = [r \in Requests |->
              [status |-> "NEW", computed |-> 0, out |-> 0, ph |-> 0,
               spec |-> 0, chunk |-> FALSE]]
  /\ waiting = <<>>
  /\ running = <<>>
  /\ blocks = Nothing
  /\ freeBlocks = NumBlocks
  /\ finishedReqIds = {}
  /\ pauseState = "UNPAUSED"
  /\ frames = <<>>
  /\ phase = "idle"
  /\ cursor = 1
  /\ budget = 0
  /\ sched = Nothing
  /\ schedSpec = Nothing
  /\ preempted = {}
  /\ todo = {}

-----------------------------------------------------------------------------
(* Requests arrive and leave.                                              *)

AddRequest(r) ==
  /\ phase = "idle"
  /\ req[r].status = "NEW"
  /\ req' = [req EXCEPT ![r].status = "WAITING"]
  /\ waiting' = Append(waiting, r)
  /\ UNCHANGED <<running, kvVars, finishedReqIds, pauseState, frames, phase,
                 stepVars, todo>>

\* The record of a finished request is dropped; out remains as its history.
Finished(record) ==
  [status |-> "FINISHED", computed |-> 0, out |-> record.out, ph |-> 0,
   spec |-> 0, chunk |-> FALSE]

\* Fault: a request that stops while preempted stays in the waiting queue.
LeaveRunningOnly(r) ==
  /\ running' = RemoveFirst(running, r)
  /\ UNCHANGED waiting
  /\ Free(r)
  /\ finishedReqIds' = finishedReqIds \union {r}

\* Take r out of the queue its status names, free its blocks, note its id.
LeaveEngine(r) ==
  /\ IF req[r].status = "RUNNING"
     THEN running' = RemoveFirst(running, r) /\ UNCHANGED waiting
     ELSE waiting' = RemoveFirst(waiting, r) /\ UNCHANGED running
  /\ Free(r)
  /\ finishedReqIds' = finishedReqIds \union {r}

\* finish_requests: the client disconnected.
Abort(r) ==
  /\ phase = "idle"
  /\ r \in Abortable
  /\ req[r].status \in Unfinished
  /\ req' = [req EXCEPT ![r] = Finished(@)]
  /\ LeaveEngine(r)
  /\ UNCHANGED <<pauseState, frames, phase, stepVars, todo>>

SetPauseState(p) ==
  /\ phase = "idle"
  /\ p # pauseState
  /\ pauseState' = p
  /\ UNCHANGED <<req, queueVars, kvVars, finishedReqIds, frames, phase,
                 stepVars, todo>>

\* The rows of f whose request is running now are stale once it is preempted.
StaleFrame(f) ==
  [f EXCEPT !.stale = @ \union {r \in f.emits : req[r].status = "RUNNING"}]

Preempted(record) ==
  [status |-> "PREEMPTED", computed |-> 0, out |-> record.out,
   ph |-> record.ph, spec |-> 0, chunk |-> record.chunk]

\* When a reset comes: with nothing in flight, with steps in flight that carry
\* no drafts, or with any.
ResetMode ==
  IF frames = <<>> THEN "drained"
  ELSE IF \A i \in DOMAIN frames : \A r \in frames[i].emits : frames[i].spec[r] = 0
       THEN "undrafted"
       ELSE "mid_step"

\* reset_prefix_cache(reset_running_requests=True): preempt everything, last
\* running request first, and mark what is in flight for them as stale.
ResetPrefixCache ==
  /\ phase = "idle"
  /\ ResetMode \in ResetModes
  /\ running # <<>>
  /\ req' = [r \in Requests |->
               IF req[r].status = "RUNNING"
               THEN [Preempted(req[r]) EXCEPT !.ph = 0]
               ELSE req[r]]
  /\ waiting' = running \o waiting
  /\ running' = <<>>
  /\ blocks' = Nothing
  /\ freeBlocks' = NumBlocks
  /\ frames' = [i \in DOMAIN frames |-> StaleFrame(frames[i])]
  /\ UNCHANGED <<finishedReqIds, pauseState, phase, stepVars, todo>>

-----------------------------------------------------------------------------
(* The engine loop (vLLM's step_with_batch_queue).                         *)

NumUnfinished ==
  CASE pauseState = "PAUSED_ALL" -> 0
    [] pauseState = "PAUSED_NEW" -> Len(running)
    [] OTHER                     -> Len(waiting) + Len(running)

\* Fault: finished ids wait for the next request.
HasUnfinished == NumUnfinished > 0

HasRequests == NumUnfinished > 0 \/ finishedReqIds # {}

\* Two batches at most, and a batch without tokens is waited for at once.
BatchQueueOpen ==
  /\ Len(frames) < 2
  /\ frames # <<>> => \E r \in Requests : Last(frames).n[r] > 0

-----------------------------------------------------------------------------
(* schedule(): first the RUNNING requests, in order.                       *)

BeginSchedule ==
  /\ phase = "idle"
  /\ HasRequests
  /\ BatchQueueOpen
  /\ phase' = "running"
  /\ cursor' = 1
  /\ budget' = IF pauseState = "PAUSED_ALL" THEN 0 ELSE MaxBatchedTokens
  /\ sched' = Nothing
  /\ schedSpec' = Nothing
  /\ preempted' = {}
  /\ UNCHANGED <<req, queueVars, kvVars, finishedReqIds, pauseState, frames,
                 todo>>

InRunningLoop == phase = "running" /\ cursor <= Len(running) /\ budget > 0

\* Fault: the request is skipped although nothing is in flight for it.
OutputAssumed(r) ==
  req[r].computed + 2 - req[r].ph >= PromptLen[r] + MaxTokens[r]

\* Fault: the last verified token counts twice.
OutputLate(r) ==
  /\ req[r].ph > 0
  /\ req[r].computed + 1 - req[r].ph >= PromptLen[r] + MaxTokens[r]

\* Even if all drafts in flight are rejected, r reaches max_tokens with them.
OutputCertain(r) ==
  /\ req[r].ph > 0
  /\ req[r].computed + 2 - req[r].ph >= PromptLen[r] + MaxTokens[r]

Capped(n) ==
  IF 0 < LongPrefillThreshold /\ LongPrefillThreshold < n
  THEN LongPrefillThreshold ELSE n

\* Fault: drafts may run past the end of the context.
NumNewTokensUncapped(r) ==
  LET behind == NumTokens(r) + req[r].spec + req[r].ph - req[r].computed
  IN  Least(Capped(behind), budget)

\* num_new_tokens of a RUNNING request.
NumNewTokens(r) ==
  LET behind == NumTokens(r) + req[r].spec + req[r].ph - req[r].computed
  IN  Least(Least(Capped(behind), budget), MaxModelLen - 1 - req[r].computed)

\* Fault: room for the drafts, none for the tokens of this step.
LookAheadOnly(r) == req[r].computed + NumSpecTokens

\* allocate_slots reserves room for the drafts of the next step too.
LookAhead(r) == req[r].computed + NumNewTokens(r) + NumSpecTokens

SkipRunning ==
  /\ InRunningLoop
  /\ LET r == running[cursor] IN OutputCertain(r) \/ NumNewTokens(r) = 0
  /\ cursor' = cursor + 1
  /\ UNCHANGED <<req, queueVars, kvVars, finishedReqIds, pauseState, frames,
                 phase, budget, sched, schedSpec, preempted, todo>>

\* Draft tokens among the n tokens scheduled for r.
NumScheduledSpec(r, n) ==
  LET drafts == n + req[r].computed - NumTokens(r) - req[r].ph
  IN  IF drafts > 0 THEN Least(req[r].spec, drafts) ELSE 0

ScheduleRunning ==
  /\ InRunningLoop
  /\ LET r == running[cursor]
         n == NumNewTokens(r)
     IN  /\ ~OutputCertain(r)
         /\ n # 0
         /\ Missing(r, LookAhead(r)) <= freeBlocks
         /\ Allocate(r, LookAhead(r))
         /\ sched' = [sched EXCEPT ![r] = n]
         /\ schedSpec' = [schedSpec EXCEPT ![r] = NumScheduledSpec(r, n)]
         /\ req' = [req EXCEPT ![r].spec = 0]
         /\ budget' = budget - n
  /\ cursor' = cursor + 1
  /\ UNCHANGED <<queueVars, finishedReqIds, pauseState, frames, phase,
                 preempted, todo>>

\* Fault: a preempted request goes to the end of the line.
RequeuedLast(r) == Append(waiting, r)

\* waiting.prepend_request
Requeued(r) == <<r>> \o waiting

\* No room: the request admitted last loses its blocks and goes to the head
\* of the waiting queue.  It may be the very request being scheduled.
PreemptLast ==
  /\ InRunningLoop
  /\ LET r == running[cursor]
         victim == Last(running)
     IN  /\ ~OutputCertain(r)
         /\ NumNewTokens(r) # 0
         /\ Missing(r, LookAhead(r)) > freeBlocks
         /\ running' = Front(running)
         /\ waiting' = Requeued(victim)
         /\ req' = [req EXCEPT ![victim] = Preempted(@)]
         /\ Free(victim)
         /\ preempted' = preempted \union {victim}
  /\ UNCHANGED <<finishedReqIds, pauseState, frames, phase, cursor, budget,
                 sched, schedSpec, todo>>

EndRunning ==
  /\ phase = "running"
  /\ ~InRunningLoop
  /\ phase' = "waiting"
  /\ UNCHANGED <<req, queueVars, kvVars, finishedReqIds, pauseState, frames,
                 stepVars, todo>>

-----------------------------------------------------------------------------
(* Then the waiting requests, unless this step preempted one.              *)

InWaitingLoop ==
  /\ phase = "waiting"
  /\ preempted = {}
  /\ pauseState = "UNPAUSED"
  /\ waiting # <<>>
  /\ budget > 0
  /\ Len(running) # MaxNumSeqs

\* num_new_tokens of a WAITING or PREEMPTED request with a cached prefix.
NumPrefillTokens(r, hit) == Least(Capped(NumTokens(r) - hit), budget)

Fits(r, hit) ==
  /\ Missing(r, hit + NumPrefillTokens(r, hit)) <= freeBlocks
  /\ ReserveFullIsl => Missing(r, NumTokens(r)) <= freeBlocks

Admit ==
  /\ InWaitingLoop
  /\ LET r == Head(waiting)
     IN  \E hit \in CachedPrefixes(r) :
           LET n == NumPrefillTokens(r, hit)
           IN  /\ Fits(r, hit)
               /\ Allocate(r, hit + n)
               /\ running' = Append(running, r)
               /\ waiting' = Tail(waiting)
               /\ sched' = [sched EXCEPT ![r] = n]
               /\ req' = [req EXCEPT ![r].status = "RUNNING",
                                     ![r].computed = hit]
               /\ budget' = budget - n
  /\ UNCHANGED <<finishedReqIds, pauseState, frames, phase, cursor, schedSpec,
                 preempted, todo>>

\* The loop ends by its condition or at a request that does not fit.
WaitingLoopOver ==
  /\ phase = "waiting"
  /\ InWaitingLoop =>
       \E hit \in CachedPrefixes(Head(waiting)) : ~Fits(Head(waiting), hit)

\* _update_after_schedule, and its override in vLLM's AsyncScheduler: a
\* request past its prefill gets placeholders for one token and its drafts.
Advanced(r) ==
  LET computed == req[r].computed + sched[r]
      chunk    == computed < NumTokens(r) + req[r].ph
  IN  [status   |-> req[r].status,
       computed |-> computed,
       out      |-> req[r].out,
       ph       |-> IF chunk THEN req[r].ph ELSE req[r].ph + 1 + schedSpec[r],
       spec     |-> IF chunk THEN req[r].spec ELSE NumSpecTokens,
       chunk    |-> chunk]

Scheduled == {r \in Requests : sched[r] > 0}

\* The worker samples for the rows that reach the end of their tokens.
SampledRows == {r \in Scheduled : ~Advanced(r).chunk}

EndSchedule ==
  /\ WaitingLoopOver
  /\ req' = [r \in Requests |->
               IF r \in Scheduled THEN Advanced(r) ELSE req[r]]
  /\ frames' = Append(frames, [n |-> sched, spec |-> schedSpec,
                               emits |-> SampledRows, stale |-> {}])
  /\ finishedReqIds' = {}
  /\ phase' = "idle"
  /\ cursor' = 1
  /\ budget' = 0
  /\ sched' = Nothing
  /\ schedSpec' = Nothing
  /\ preempted' = {}
  /\ UNCHANGED <<queueVars, kvVars, pauseState, todo>>

-----------------------------------------------------------------------------
(* update_from_output() of the oldest frame, one request at a time.        *)

BeginUpdate ==
  /\ phase = "idle"
  /\ frames # <<>>
  /\ phase' = "update"
  /\ todo' = {r \in Requests : Head(frames).n[r] > 0}
  /\ UNCHANGED <<req, queueVars, kvVars, finishedReqIds, pauseState, frames,
                 stepVars>>

Visit(r) == phase = "update" /\ r \in todo /\ todo' = todo \ {r}

\* The request was aborted while it was in flight.
SkipFinished(r) ==
  /\ Visit(r)
  /\ req[r].status = "FINISHED"
  /\ UNCHANGED <<req, queueVars, kvVars, finishedReqIds, pauseState, frames,
                 phase, stepVars>>

\* Fault: the draft length resizes the placeholders of every row.
ResizedUnguarded(record, tokens, d) == [record EXCEPT !.spec = d]

\* "Patch 3": the draft length d the worker reports resizes the placeholders
\* of a request that decodes, and of no other.
Resized(record, tokens, d) ==
  IF tokens > 0 /\ ~record.chunk /\ record.status = "RUNNING"
  THEN [record EXCEPT !.spec = d]
  ELSE record

\* The lengths a report may hold; the record's own if there is no report.
Reported(record) == DraftLengths \union {record.spec}

\* The row of a prompt chunk: nothing was sampled.
EmptyRow(r) ==
  /\ Visit(r)
  /\ req[r].status # "FINISHED"
  /\ r \notin Head(frames).emits
  /\ \E d \in Reported(req[r]) :
       req' = [req EXCEPT ![r] = Resized(@, 0, d)]
  /\ UNCHANGED <<queueVars, kvVars, finishedReqIds, pauseState, frames, phase,
                 stepVars>>

\* Fault: the bonus token counts as an accepted draft.
NumRejectedOffByOne(r, generated) ==
  LET drafts == Head(frames).spec[r]
  IN  IF drafts > 0 THEN drafts - generated ELSE 0

\* Drafts of r in the oldest frame that the verifier turned down.
NumRejected(r, generated) ==
  LET drafts == Head(frames).spec[r]
  IN  IF drafts > 0 THEN drafts - (generated - 1) ELSE 0

\* num_computed_tokens and num_output_placeholders without the rejected ones.
Corrected(r, generated) ==
  LET rejected == NumRejected(r, generated)
  IN  [req[r] EXCEPT !.computed = IF @ > 0 THEN @ - rejected ELSE @,
                     !.ph       = IF @ > 0 THEN @ - rejected ELSE @]

Room(r) == Least(PromptLen[r] + MaxTokens[r], MaxModelLen) - NumTokens(r)

\* check_stop token by token: the first stop trims the rest.  A stop token
\* may come anywhere; the length limits always stop.
StopsAfter(r, generated, kept, stopped) ==
  /\ kept <= Room(r)
  /\ kept < generated => stopped
  /\ kept = Room(r) => stopped

AcceptTokens(r) ==
  /\ Visit(r)
  /\ req[r].status # "FINISHED"
  /\ r \in Head(frames).emits \ Head(frames).stale
  /\ \E generated \in 1..(Head(frames).spec[r] + 1) :
     \E kept \in 1..generated :
       LET record == [Corrected(r, generated) EXCEPT
                        !.out = @ + kept, !.ph = @ - kept]
       IN  \/ /\ StopsAfter(r, generated, kept, TRUE)
              /\ req' = [req EXCEPT ![r] = Finished(record)]
              /\ LeaveEngine(r)
           \/ /\ StopsAfter(r, generated, kept, FALSE)
              /\ \E d \in Reported(record) :
                   req' = [req EXCEPT ![r] = Resized(record, kept, d)]
              /\ UNCHANGED <<queueVars, kvVars, finishedReqIds>>
  /\ UNCHANGED <<pauseState, frames, phase, stepVars>>

\* A frame reset_prefix_cache made stale: its tokens are dropped, but its
\* rejections are counted before anything looks at async_tokens_to_discard.
DiscardTokens(r) ==
  /\ Visit(r)
  /\ req[r].status # "FINISHED"
  /\ r \in Head(frames).stale
  /\ \E generated \in 1..(Head(frames).spec[r] + 1) :
     LET record == Corrected(r, generated)
     IN  \E d \in Reported(record) :
           req' = [req EXCEPT ![r] = Resized(record, 0, d)]
  /\ UNCHANGED <<queueVars, kvVars, finishedReqIds, pauseState, frames, phase,
                 stepVars>>

EndUpdate ==
  /\ phase = "update"
  /\ todo = {}
  /\ frames' = Tail(frames)
  /\ phase' = "idle"
  /\ UNCHANGED <<req, queueVars, kvVars, finishedReqIds, pauseState, stepVars,
                 todo>>

-----------------------------------------------------------------------------
ScheduleStep ==
  \/ BeginSchedule
  \/ SkipRunning
  \/ ScheduleRunning
  \/ PreemptLast
  \/ EndRunning
  \/ Admit
  \/ EndSchedule

UpdateStep ==
  \/ BeginUpdate
  \/ \E r \in Requests :
       \/ SkipFinished(r)
       \/ EmptyRow(r)
       \/ AcceptTokens(r)
       \/ DiscardTokens(r)
  \/ EndUpdate

EngineStep == ScheduleStep \/ UpdateStep

ClientStep == \E r \in Requests : AddRequest(r) \/ Abort(r)

OperatorStep == (\E p \in PauseStates : SetPauseState(p)) \/ ResetPrefixCache

Next == EngineStep \/ ClientStep \/ OperatorStep

\* The engine thread loops as long as it has work; clients and operators
\* promise nothing.
Spec == Init /\ [][Next]_vars /\ WF_vars(EngineStep)

-----------------------------------------------------------------------------
(* Properties.                                                             *)

\* Every variable has its type: in particular no count of blocks, tokens or
\* placeholders ever goes below zero, and no more than two steps are in flight.
TypeOK ==
  /\ req \in [Requests -> RequestRecord]
  /\ waiting \in Seq(Requests)
  /\ running \in Seq(Requests)
  /\ blocks \in [Requests -> Nat]
  /\ freeBlocks \in Nat
  /\ finishedReqIds \in SUBSET Requests
  /\ pauseState \in {"UNPAUSED", "PAUSED_NEW", "PAUSED_ALL"}
  /\ frames \in Seq(Frame)
  /\ Len(frames) <= 2
  /\ phase \in {"idle", "running", "waiting", "update"}
  /\ cursor \in Nat \ {0}
  /\ budget \in Nat
  /\ sched \in [Requests -> Nat]
  /\ schedSpec \in [Requests -> 0..NumSpecTokens]
  /\ preempted \in SUBSET Requests
  /\ todo \in SUBSET Requests

\* Output tokens, drafts included, frame f may still deliver for r.
Owed(f, r) == IF r \in f.emits \ f.stale THEN 1 + f.spec[r] ELSE 0

\* The same for all frames in flight; the oldest no longer owes anything to
\* the requests update_from_output has visited.
InFlight(r) ==
  (IF Len(frames) >= 1 /\ (phase = "update" => r \in todo)
   THEN Owed(frames[1], r) ELSE 0)
  + (IF Len(frames) >= 2 THEN Owed(frames[2], r) ELSE 0)

(***************************************************************************)
(* num_output_placeholders is exactly what the frames in flight owe, and   *)
(* num_computed_tokens of a decoding request is one behind its tokens,     *)
(* placeholders included, whatever was drafted, rejected, preempted and    *)
(* resumed in between.  A wrong count feeds the model wrong positions.     *)
(***************************************************************************)
TokenAccounting ==
  \A r \in Requests :
    /\ req[r].status \in Unfinished => req[r].ph = InFlight(r)
    /\ req[r].status = "RUNNING" =>
         IF req[r].chunk \/ (r \in Scheduled /\ req[r].ph = 0)
         THEN req[r].ph = 0 /\ req[r].computed < NumTokens(r)
         ELSE req[r].computed = NumTokens(r) - 1 + req[r].ph
    /\ req[r].status = "PREEMPTED" => req[r].computed = 0

(***************************************************************************)
(* A request is in the queue its status names, once, and in no other, in   *)
(* the middle of any call: nothing is lost or served twice when preempted, *)
(* stopped while preempted, or aborted while in flight.                    *)
(***************************************************************************)
QueueAgreement ==
  /\ IsInjective(running)
  /\ IsInjective(waiting)
  /\ ToSet(running) = {r \in Requests : req[r].status = "RUNNING"}
  /\ ToSet(waiting) =
       {r \in Requests : req[r].status \in {"WAITING", "PREEMPTED"}}

(***************************************************************************)
(* The pool neither leaks nor double-frees a block, only running requests  *)
(* hold blocks, and a running request holds a slot for every token it has  *)
(* computed or is about to.                                                *)
(***************************************************************************)
KvSafety ==
  /\ freeBlocks + FoldFunction(+, 0, blocks) = NumBlocks
  /\ \A r \in Requests :
       IF req[r].status = "RUNNING"
       THEN req[r].computed + sched[r] <= blocks[r] * BlockSize
       ELSE blocks[r] = 0

(***************************************************************************)
(* The assertions at the end of schedule() and in its waiting loop: the    *)
(* token and sequence budgets hold, nothing is admitted without tokens,    *)
(* and a request this step preempted is not also scheduled by it.          *)
(***************************************************************************)
StepWellFormed ==
  /\ FoldFunction(+, 0, sched) <= MaxBatchedTokens
  /\ Len(running) <= MaxNumSeqs
  /\ Scheduled \subseteq ToSet(running)
  /\ \A r \in Requests :
       req[r].status = "RUNNING" /\ req[r].computed = 0 => sched[r] > 0

(***************************************************************************)
(* Draft tokens ride only on a decode step: never on a prompt chunk (the   *)
(* corruption the guards of "Patch 3" exclude), and each with its slot.    *)
(***************************************************************************)
DraftsOnlyOnDecode ==
  \A r \in Requests :
    schedSpec[r] > 0 =>
      /\ req[r].computed = NumTokens(r) - 1 + req[r].ph
      /\ sched[r] = 1 + schedSpec[r]

(***************************************************************************)
(* No input position reaches max_model_len - 1 or beyond and no request    *)
(* grows past its limits, even with drafts near the end of the context.    *)
(***************************************************************************)
LengthLimits ==
  \A r \in Requests :
    /\ req[r].computed + sched[r] <= MaxModelLen - 1
    /\ NumTokens(r) <= MaxModelLen
    /\ req[r].out <= MaxTokens[r]

(***************************************************************************)
(* schedule() starts no step for a request that the frames in flight are   *)
(* certain to finish.                                                      *)
(***************************************************************************)
NoWastedStep ==
  [][\A r \in Requests :
       sched[r] = 0 /\ sched'[r] > 0 /\ InFlight(r) > 0
         => req[r].out + 1 < MaxTokens[r]]_vars

(***************************************************************************)
(* A preempted request is resumed only when no frame in flight still       *)
(* carries tokens for it: those would land on top of its second prefill.   *)
(***************************************************************************)
ResumeDrained ==
  [][\A r \in Requests :
       req[r].status = "PREEMPTED" /\ req'[r].status = "RUNNING"
         => InFlight(r) = 0]_vars

(***************************************************************************)
(* The promise in reset_prefix_cache: output frames in flight when their   *)
(* request is preempted are stale and are discarded when they return, so   *)
(* they leave no trace in the request.                                     *)
(***************************************************************************)
StaleFramesDiscarded ==
  [][\A r \in todo \ todo' :
       frames # <<>> /\ r \in Head(frames).stale
         => req'[r] = req[r]]_vars

(***************************************************************************)
(* The engine serves its clients first come, first served, and preemption  *)
(* is invisible to them.                                                   *)
(***************************************************************************)
Service == INSTANCE FcfsService WITH
  Seats    <- MaxNumSeqs,
  line     <- running \o waiting,
  seated   <- Len(running),
  received <- [r \in Requests |-> req[r].out],
  gone     <- {r \in Requests : req[r].status = "FINISHED"}

ServiceSpec == Service!Spec

\* Unless an operator leaves the scheduler paused, or resets its cache for
\* ever, every request finishes: no preemption cycle, no skipped request, no
\* step that waits for itself.
EveryRequestFinishes ==
  \/ []<><<ResetPrefixCache>>_vars
  \/ \A r \in Requests :
       req[r].status \in Unfinished
         ~> (req[r].status = "FINISHED" \/ pauseState # "UNPAUSED")

\* The worker is told of every finished request, even if none is left to run.
FinishedReachesWorker ==
  \A r \in Requests : r \in finishedReqIds ~> r \notin finishedReqIds
=============================================================================
