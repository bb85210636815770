# Verification of ventus-dspark

ventus-dspark serves DeepSeek-V4-Flash on two nodes.  A bash launcher starts
one container per node; inside runs vLLM with a pure-Python overlay that adds
the DSpark draft model, confidence-scheduled verification and the scheduler
changes they need.  A small dashboard watches the fleet.  This directory holds
TLA+ models of the parts that keep state, the TLC configurations that check
them on small instances, and proofs that TLAPS checks for every instance.

    tlc -workers 2 -config Scheduler.cfg MCScheduler
    tlapm Scheduler_proofs.tla

`PROJECT.json` is the index: components, runs, for every definition the source
lines it stands for, for every property a fault that violates it, the hazards,
the disagreements between code and documentation, and the theorems.

Paths below are relative to the repository; `sched`, `worker`, `proposer`,
`dspark.py` and `model` abbreviate

| short | file |
|---|---|
| sched | `docker/overlay/vllm/v1/core/sched/scheduler.py` |
| worker | `docker/overlay/vllm/v1/worker/gpu_model_runner.py` |
| proposer | `docker/overlay/vllm/v1/spec_decode/dspark_proposer.py` |
| dspark.py | `docker/overlay/vllm/v1/spec_decode/dspark.py` |
| model | `docker/overlay/vllm/models/deepseek_v4/nvidia/dspark.py` |
| target | `docker/overlay/vllm/models/deepseek_v4/nvidia/model.py` |
| config | `docker/overlay/vllm/config/speculative.py` |
| encoding | `docker/overlay-025-vision/encoding_dsv4.py` |
| vision | `docker/overlay-025-vision/patches/vision_exp/` |

## Inventory

### Engine scheduler (sched)

*State.* The request table with, per request, `num_computed_tokens`,
`num_output_placeholders`, `spec_token_ids` and status; the `waiting`,
`skipped_waiting` and `running` queues; the KV block pool and the encoder
cache; `finished_req_ids`; the pause state.  With asynchronous scheduling the
engine core keeps a queue of up to two batches that were scheduled and have
not come back.

*Operations.* `add_request`, `schedule`, `update_from_output`,
`finish_requests`, `reset_prefix_cache`, `set_pause_state`, preemption inside
`schedule`; for other deployments KV-connector updates and streaming sessions.

*Interaction.* The engine core calls `schedule` to fill the batch queue and
`update_from_output` with the oldest result.  The `SchedulerOutput` goes to the
worker; tokens, and since "Patch 3" draft lengths, come back.

*Hard.* Counters are advanced when a step is scheduled, before its result
exists: step n's rejections are subtracted from counters that step n+1 has
advanced, after the request may have been preempted, resumed, aborted, or
moved out by a cache reset.  The draft length a step reports resizes the
placeholders of a later one.

*Correct if* placeholders are exactly what is in flight; a request is in one
queue; blocks are neither lost nor given twice; no position passes
`max_model_len - 1`; drafts ride only on decode steps; clients are served in
order of arrival; every request finishes; the worker hears of every finish.
Images: a worker finds every embedding it gathers, and the scheduler's accounts
of the cache are those of the worker.  Blocked requests (a KV load, a grammar,
the client of a session): each stands in one place, its blocks stay with it
while somebody else writes to them, and nothing is computed from KV that did
not arrive.  Structured output: every token that is received is one the
grammar takes.

### Model runner (worker)

*State.* The persistent `InputBatch` (rows, condensation), CPU and GPU copies
of `num_computed_tokens`, `prev_req_id_to_index`, `_draft_token_lengths_cpu`;
pinned host buffers with the events that guard them; captured graphs and the
buffers they read; the KV tensors.

*Operations.* At start `initialize_kv_cache`, memory profiling and
`capture_model`; then `execute_model` (`_update_states`, the inputs of the
step) and `sample_tokens` (sampling, the draft, the copies back), while the
GPU works off what was queued before.

*Hard.* Per-row data of the previous step is paired by position with a batch
that has been condensed and reordered since; lengths of an earlier step must
not survive a step that does not draft.  Host buffers are written again while
copies out of them are queued.  A graph reads the rows its batch does not fill.
Layers of several groups share the pages of one tensor.

*Correct if* every row is fed the tokens, drafts and positions of its own
request, and the worker's count of computed tokens agrees with the scheduler's;
whatever is read on either side of a copy is of the step it is read for; a
graph sees nothing that an earlier batch left; a block is written in its own
page only.

### DSpark proposer and draft model (proposer, model)

*State.* The map from requests to slots, the free slots, one ring of
main-model KV per slot, the one-shot results (lengths, confidences).

*Operations.* `propose`: reclaim and assign slots (`_row_to_slot`), trim
rejected rows, store the kept rows (`store_main_kv`), draft, choose lengths.

*Hard.* The proposer never hears of a finish or a preemption: it infers them
from a request's absence in a batch.  Slots change hands with their old
contents.  A batch with a request near the end of the context skips `propose`
for everybody.

*Correct if* slots are shared out exactly, never run out, and a draft attends
to the KV of its own request at its own positions.

### Prefix scheduling (dspark.py)

Pure algorithms: survival of a draft prefix from the confidences, a threshold
rule, and a hardware-aware planner that maximises expected tokens per second
against a profiled step rate.  *Hard:* the profile is a step function, so the
objective is not concave; the greedy order must never admit a position before
its predecessor; the planner may not look at later confidences of a request
than the ones that decide its length.  *Correct if* the plan is optimal where
it claims to be, and the length of a request does not depend on what follows.

### Launcher (`ventus-dspark`, `scripts/checkpoint_k.py`)

*State.* The generated environment file, the containers of both ranks.
*Operations.* `up` (probe, geometry, environment, worker rank, head rank, wait),
`down`, `status`, `dashboard`.  *Hard:* the worker rank starts before the head
and is not stopped when the head fails; a rank from an earlier world must not
be reused.  *Correct if* both ranks of a serving fleet come from one launch.

### Node telemetry and dashboard (`ventus-dspark`, `dashboard/server.py`)

*State.* node_probe's cache file per node, the collector process, the sample
files, the time of the last view; in the dashboard the answer cache `_cache`
and the previous counters `_prev`, shared by all threads of the server.
*Operations.* `status`, `dashboard`, `dashboard --stop`, `down`, the collector
loop, `GET /`, `/api/status`, `/api/idle`.  *Hard:* commands meet collectors in
any stage of sleep; a node stops answering; the fleet restarts and its counters
begin again; two viewers poll at once.  *Correct if* there is one collector at
most, none after a stop, none without a dashboard; old data is called old;
rates and acceptance are figures the engine can have had.

### Target and weights (target, model, `skip_vision_tensors.py`)

*State.* The buffer of captured hidden states; the parameters.  *Operations.*
a forward with captures, at once or deferred to the next layer; loading and
reloading the checkpoint.  *Hard:* the state a draft is trained on exists only
between two fused kernels of the following layer; a name that maps to nothing
is passed over with a debug line.  *Correct if* the draft gets what the layers
left in this very forward, and every slot of every parameter is written once,
by the tensor that belongs there.

### Configuration (config)

*State.* none after start.  *Operations.* `SpeculativeConfig` resolves and
verifies, the runner makes a proposer, every step calls it.  *Hard:* each of the
three branches on the method by predicates that overlap.  *Correct if* what is
accepted is drafted by a proposer that is called as it expects.

### Prompt encoding (encoding)

*State.* a conversation and what of it is already encoded.  *Operations.*
`encode_messages`, `parse_message_from_completion_text`.  *Hard:* tool messages
are merged and sorted, reasoning of earlier turns is dropped, images move with
their tool results.  *Correct if* encoding turn by turn gives the prompt of the
whole conversation, and image records match their placeholders.

### Images in prompts (vision)

*State.* a prompt being expanded, image by image.  *Operations.*
`_call_hf_processor` (resize, lay out, batch), `embed_multimodal` (merge).
*Hard:* the tokens of an image depend on the size the resize loop settles on and
on where in the expanded prompt the image starts, and three functions compute
parts of that count anew.  *Correct if* a block always fits, never shares a
compressed position between cells and text, and holds each output of the tower
at its place.

### The rest

The Anthropic protocol (stateless validation), the patches an image build
applies once, kernels and attention back ends (tensor numerics), `envs.py` and
the registries (tables), decoding of images, benchmarks, downloads and builds
keep no state a run of the fleet depends on and are not modelled;
`PROJECT.json` gives the reason for each.

## Modules

| module | what it is |
|---|---|
| `Scheduler` | the engine scheduler under the asynchronous engine loop |
| `FcfsService` | what the scheduler promises its clients, refined by `Scheduler` |
| `MCScheduler` | two instances of `Scheduler`, a behaviour is of one |
| `DataLemmas` | lemmas about queues (sequences without repetition), sums and folds |
| `Scheduler_proofs` | shape of the state, agreement of the queues, the KV pool, that `Scheduler` implements `FcfsService`, and the accounting of tokens with type correctness, proved |
| `ModelRunner` | the worker side: batch, inputs, corrections, drafts |
| `Engine`, `MCEngine` | `Scheduler` and `ModelRunner` exchanging their messages |
| `Engine_proofs` | the engine implements `Scheduler`, and the hand-over suffices, proved |
| `EnginePositions` | scheduler, GPU and KV agree on where each request is, and each row is fed its own tokens, proved |
| `Queues`, `Clients` | removal from queues, and the constants the next two share |
| `EncoderCache` | images between scheduler and worker |
| `EncoderCache_proofs` | what is gathered is there and what is counted is held, proved |
| `BlockedWaiting` | requests that wait for KV, a grammar, or a client |
| `BlockedWaiting_proofs` | whoever waits keeps its place, its blocks and its KV, proved |
| `GrammarDecode` | grammar masks with drafts and two steps in flight |
| `MCFeatures` | instances of `EncoderCache` and `BlockedWaiting` |
| `DraftSlots` | the proposer's slots and the draft model's rings |
| `PrefixSchedule` | the choice of draft lengths |
| `CopyStreams` | the runner, its GPU streams, and the host buffers between |
| `GraphReplay` | capture and replay of graphs, of the runner and the drafter |
| `KvCacheLayout` | where the blocks of each layer lie in memory |
| `WeightLoading` | from the tensors of a checkpoint to parameters |
| `TargetCapture` | the hidden states the draft is given |
| `Worker_proofs` | slots and rings, streams, KV pages, captures, grammar masks and graphs: what each promises, proved |
| `MCWorker` | the parts of the worker: `GrammarDecode`, `DraftSlots` and the six models above |
| `Telemetry` | collector, its commands, staleness of samples |
| `Dashboard` | rates and acceptance as the dashboard derives them |
| `Launcher` | `up` and `down` of the two ranks |
| `PromptEncoding` | conversation to prompt and completion to message |
| `ImageBlocks` | from the images of a prompt to embeddings in their place |
| `SpecConfig` | from `--speculative-config` to a proposer and its call |
| `Host_proofs` | collectors, figures, what `up` serves and who drafts, proved |
| `MCHost` | instances of the six models above |

`MCFeatures`, `MCWorker` and `MCHost` hold parts that share no state.  Each
chooses its part in the initial state and keeps it, so a run explores the union
of their state spaces, and an invariant `part = "..." => ...` is that of the
part's module.  The parts there are theorems about are extended, so that run and
theorem speak of one definition (`MCFeatures`: both; `MCWorker`:
`DraftSlots`, `CopyStreams`, `KvCacheLayout`, `TargetCapture`,
`GrammarDecode`, `GraphReplay`; `MCHost`: `Telemetry`, `Dashboard`, `Launcher`,
`SpecConfig`); the variables of the others are with those of a bank `x1, x2, ...`.

A definition headed "Fault" changes the definition after it in the way a bug
would; the specifications do not use it.  `PROJECT.json` pairs each with the
property that must find it.

### Scheduler

Variables carry the names of the fields they stand for.  Tokens are counted,
not named: `out` is the number of output tokens, `ph` is
`num_output_placeholders`, `spec` the length of `spec_token_ids`.

`schedule()` and `update_from_output()` are loops, and each iteration is an
action: `BeginSchedule`, then per running request `SkipRunning`,
`ScheduleRunning` or `PreemptLast`, `EndRunning`, then `Admit` per waiting
request, and `EndSchedule`, which advances the counters as
`_update_after_schedule` does and puts the frame in the batch queue; likewise
`BeginUpdate`, one of `SkipFinished`, `EmptyRow`, `AcceptTokens`,
`DiscardTokens` per request, `EndUpdate`.  Invariants therefore hold in the
middle of the loops too.  Client and operator calls come only while
`phase = "idle"`, since the engine core is one thread.

The asynchronous parts of the counters, `check_stop`, the block pool and the
engine loop belong to vLLM and are modelled from the way sched uses them:
blocks are counted per request; a prefix-cache hit may be any whole number of
blocks below the last token; a stop token may appear anywhere, a length limit
always stops.  Shared prefix blocks are counted for every holder, so the pool
of the model is at least as tight as the real one.

A stale frame is modelled as the code has it: the rejection counters run
before the discard, which is the finding below.

### FcfsService

Requests stand in one line; the first `seated` are served; tokens arrive; a
request leaves for good.  Under the refinement mapping in `Scheduler`
(`line <- running \o waiting`) preemption is a lost seat that costs neither a
place nor a token, in whatever order several victims go back.

### ModelRunner and Engine

A token is named by its request and position, so that feeding the wrong one
shows.  `ExecuteModel` and `SampleTokens` are the two calls; `_update_states`,
`_prepare_input_ids` with its flattened indices, `_calc_spec_decode_metadata`
and the two corrections of `num_computed_tokens` (GPU before, CPU after the
forward) are operators they use.  `RowOrders` leaves the order of the new batch
open, as attention back ends may reorder it.  `known` and `kvLen` are history:
what the request's tokens really are and how far its KV really goes.  What
`InputBatch.remove_request` does to `prev_req_id_to_index` is vLLM's, hence the
constant `ForgetsRemoved`.

`Engine` conjoins the scheduler's actions with messages: `Send` makes the
SchedulerOutput of the step just scheduled, `Receive` and `UpdateRow` run
`BeginUpdate`, `AcceptTokens` and the rest on what the runner answered.
`SchedulerSpec` is the refinement: with the real runner at the other end the
scheduler still takes only steps of `Scheduler`, so what is checked and proved
there holds of the engine.  The runner runs between two calls of the scheduler
only, since the two share nothing but messages.

### EncoderCache and BlockedWaiting

Both are cut from the same `schedule()` loops as `Scheduler`, each with what its
own properties need: `EncoderCache` keeps `_try_schedule_encoder_inputs` with
its budget and vLLM's cache accounts, and reduces KV blocks to a choice that is
refused a bounded number of times; `BlockedWaiting` keeps `skipped_waiting`, the
promotion of blocked requests, loads and their failures, sessions and
`_handle_stopped_request`.  The worker of `EncoderCache` executes frames in
order, behind the scheduler; a miss is recorded in `missed`, where the code
asserts (worker 3175).  The connector of `BlockedWaiting` is external: it loads
while the engine runs and may report failed blocks no later than the end of the
load, or after the request was aborted.  How the engine is set up (what may be
loaded, whether a failed load is recomputed, steps in flight) and what its
clients do (sessions, grammars) is the variable `setting`, chosen from `Settings`
in the initial state and never changed.

### GrammarDecode

One state of a grammar: after "open" only "close".  Drafts are free choices;
`Schedule`, `SampleDeferred` and `Receive` follow the engine core, which samples
a step with structured requests only when the step before it is received.  The
mask of a row follows the grammar through the drafts before it; the worker
verifies what it holds.

### CopyStreams

A stream is a queue of operations executed in order (`Gpu`); an event is a
position in a queue; waiting is a guard.  Buffers hold the number of the step
they are of.  `DrafterFits = {TRUE}` keeps every batch within the drafter's length.

### GraphReplay and KvCacheLayout

Buffers are rows that are of this batch, of an earlier one, or padding.  The
dispatcher and the wrapper are vLLM's: a graph that is missing when capturing
is over is an error, which `ReplaysCaptured` excludes.  In `KvCacheLayout` a
view is stride and entries; the property counts bytes.

### WeightLoading, TargetCapture, SpecConfig

A tensor is its space, number, path and expert, one path for each kind of
parameter; a rank loads all of them, and may reload.  What `finalize_mega_moe_weights`
(model.py 471-507) makes of the loaded experts, for the DeepGEMM back end, is
left out.  Captured states are
numbered by what has been added to the residual stream.  `SpecConfig` takes all
combinations of method, kind of model, draft config, depth, lengths and
parallelism from small sets.

### PromptEncoding

Text is a sequence of tokens `<<kind, id>>`.  A chat goes in turns of the
client's messages, an answer of the model, and its parsing.  `TurnsAddUp` has
the premise that no developer's message was dropped together with old reasoning
after it had been answered (`DeveloperLost`): there the code renders one message
too few, which `turn_lost` shows and the disagreements below explain.  Chats in
which that happens are in both runs.

### ImageBlocks

A token of the prompt and a turn of the resize loop are steps.  An image is its
size: what it shows is data, and an output of the tower is the number of its
cell.  A prompt that comes without images goes back as it is (`ReadUnmatched`).
The code computes sizes in floats; the model takes exact numbers and lets
a floor come out one less where the number is whole (`AtMost`), which is where
rounding can matter.  `ImagesPlaced` counts positions from the prompt and the
replacements the engine makes, not from `expanded_len`, and says by a formula of
its own where a cell belongs.  Nothing is cached: `_cached_apply_hf_processor`
sees to that for prompts with images.

### Launcher

Each command of `up` is an action, `Fail` may come between any two, and `Down`
passes over commands that fail.  Ranks are docker's: a head opens a world, a
worker joins the one it was started for and stays in it, docker restarts either.
`up.alone` is history, for the premise of `ComesUp`.

### DraftSlots

The environment is the scheduler: a request joins with a prefix-cache hit,
leaves without notice, comes back from its first position.  `Step` is a step of
the runner up to the assignment of slots, `AssignSlot` one turn of the loop
over the rows, `StoreMainKv` the ring writes, `EndPropose` the end of the
draft.  A ring entry names the request and position whose KV it holds.
Drafts in a prompt are never verified, so `DraftReadsOwnKv` speaks of requests
past their prompt.  `_row_to_slot`'s padding rows are read only and left out;
without a slot index the code uses slots equal to rows, which the runner never
asks for.

### PrefixSchedule

Confidences are multiples of 1/Scale, products are exact: rounding of floats is
left out.  A call is one step from all inputs to the result; the properties
compare the result with definitions that do not share its structure: the best
of all length vectors, the score of the lengths returned, the result on inputs
that agree up to the length chosen.  A token that certainly does not survive is
never a candidate, and optimality is stated over the rest.  The default
`early_stop` leaves at the first point that is no better; behind a cliff of the
profile a better point can hide, so its optimality is stated for smooth curves
and the exhaustive planner's for all.

### Telemetry

Time shows only in ages, which stop growing one past the oldest age the code
tells apart.  A sample is its age; a node answers or not.  Commands are split
where another process may come between: container, kill, spawn; container,
kill, remove.  Two commands at the same time are not modelled.

### Dashboard

One call of `collect` at a time, in steps between which the engine may count or
restart: `Begin`, `Fetch`, the two calls of `_rate` in the order of the
dictionary they stand in, `Acceptance`, `End`.  A rate is kept as the pair of
tokens and time, acceptance as accepted and drafted.  A call may last up to
`CallTime`, the timeouts of `_get`.  `restarted` is history, for the properties
only.  The server is a threading one and `_prev` has no lock, so calls may
overlap in the program: the model does not say what becomes of the figures
then.  The gauge that a future engine may expose is left out.

## Runs

| run | instance | shows |
|---|---|---|
| scheduler | two engines: one whose cache is reset, and one with prompt chunks, full-prompt reservation and pauses; 3 requests, 4 blocks of 2, 2 seats, budget 3 or 4, 2 drafts | token accounting, queues, block pool, drafts on decodes only, length limits, no wasted step, first come first served; every request finishes; every finish reaches the worker |
| scheduler_stale | drafts, resets with steps in flight | **violated**: a stale frame lowers the counters |
| engine | 2 requests, 4 blocks, 2 drafts, aborts, pauses, drafter limit | every row is fed the right tokens; corrections meet; hand-over suffices; refines `Scheduler` |
| features | images; loads recomputed or failing; a session | embeddings are found, accounts agree; one place each, blocks kept, nothing from missing KV; nobody waits for ever |
| session_async | a session with two steps in flight | **violated**: a request is stopped twice |
| worker | the eight parts of `MCWorker` | slots, rings, draft lengths, streams, graphs, KV pages, grammar, weights, captures |
| drafts_partial | batches that leave requests out | **violated**: a request returns to a foreign ring |
| copy_race | a batch beyond the drafter's length | **violated**: old drafts come back over the zeros |
| grammar_short | draft lengths below the maximum | **violated**: a token the grammar rejects |
| host | the six parts of `MCHost` | collectors, figures, both ranks, turns of a chat, blocks of images, drafters |
| images_order | tool results with images | **violated**: records and placeholders differ |
| turn_lost | a developer, answered, then a user | **violated**: a message is not in the prompt |

A run that expects a violation checks one claim the repository makes, quoted
under the disagreements below.

### Bounds

*Scheduler.* Three requests and two seats: one waits while two compete, the
least that lets a request be preempted, be overtaken if that were possible, and
come back.  Prompts of 3, 2 and 1 tokens over blocks of 2 cross a block
boundary; the budget of 3 or 4 splits prompts and cuts drafts short; 4
blocks (5 in scheduler_stale) do not hold all three requests with their look-ahead, so preemption
happens; two drafts let one be accepted and one rejected; `MaxModelLen = 7`
is reached by the longest request with drafts in flight.  Request b may be
aborted.  An id is used once.  The batch queue has the depth of two that vLLM
uses with asynchronous scheduling.

*DraftSlots.* One request more than there are slots, so slots change hands; a
window of 2 wraps around within 5 positions; chunks longer than the window and
verified steps with rejections both occur.  The run worker keeps every running
request in every batch and every
position below the drafter's limit, and prefix hits leave at least a window of
the prompt to compute: EAGLE-style handling drops the last cached block, and a
block (256) is no shorter than the window.

*PrefixSchedule.* All confidences over three levels, all tables with up to five
profiled counts and three rates: enough for ties, cliffs, unprofiled gaps, and
zero survival.

*Engine.* Two requests, one of which may be aborted; four blocks do not hold
both to their end, so preemption and the hand-over after it happen; the batch
may be paused; the drafter's limit of 8 is met before `MaxModelLen = 9`.

*EncoderCache.* Two requests, three images of which two are the same, a cache
that holds one of them, prefix hits that end inside and before an image.

*BlockedWaiting.* Three settings: loads of all and of part of a prompt with one
failing block, recomputed (with a grammar and a request whose blocks are sent
on) or failing their request, with two steps in flight; a session of three
inputs with one step in flight, see session_async.

*CopyStreams.* Three steps with two outputs unread: each buffer is reused.
*GraphReplay.* Three captured sizes, so that padding of tokens and of rows both
happen; batches follow one another without bound.  *KvCacheLayout.* Three
layers with all combinations of block size, kernel size, compression and
padding on three pages.  *GrammarDecode.* Two requests of three tokens, with
preemptions.  *WeightLoading.* Two layers, two stages, two experts, two ranks.
*TargetCapture.* Four layers with every choice of captured ones, two forwards.
*PromptEncoding.* Two turns of two messages.  *ImageBlocks.* Two images among
three tokens of text, so a block starts at every remainder of four; nine sizes
(too small, too wide, too tall, too large, large twice over), patches, cells and
limits scaled down together: 24 tokens for 384.  A limit of 12 or less leaves no
size at all for some images; the shipped one is far from it.  *SpecConfig.* No depth, one
below the block and one beyond it that does not divide; a depth that is a
multiple of the block is left out, see the limits below.  *Launcher.* Three worlds and one restart: an
earlier fleet, a failed `up`, the one that serves.

*Telemetry.* Two collector processes are enough for two at a time; thresholds
of one or two ticks keep every order of the ages.

*Dashboard.* Time is bounded by 6, several polls: two for a window, a third for
an outage or restart between.

`CHECK_DEADLOCK FALSE` stands where the system may stop or the bound ends it:
all requests served (`scheduler`, `engine`, `features`), a schedule computed,
a rank loaded, a step limit reached (`worker`), nobody touching the fleet, time
over, a configuration in use (`host`).

### Fairness

`Scheduler`: weak fairness of `EngineStep`, one of which is enabled as long as
there is work: the engine core's thread loops without waiting for anything but
results, and results come back as long as the worker lives (a dead worker ends
the process).  Clients, operators, stop tokens and accepted drafts are not
fair: the worst draft and the longest output are always possible.
`EveryRequestFinishes` allows for an operator who leaves the scheduler paused,
or never stops resetting its cache under running requests.
`Telemetry`: weak fairness of time, of a collector that is alive, and of the
rest of a command that was started, none of which waits for another process
without a timeout.  Viewers, nodes and operators promise nothing.
`EncoderCache` and `BlockedWaiting`: weak fairness of the engine's steps, as
above, and of the connector's and the grammar compiler's answers, which code
outside src/ owes (a load ends, failed or not).  `Launcher`: weak fairness of
the script's next command and of a rank that can join; restarts by docker are
free, and `ComesUp` speaks only of an `up` they leave alone.

## Proofs

Checked by TLAPS for all values of the constants that satisfy the modules'
assumptions: any number of requests, blocks and seats, any lengths.

**Queues** (`Scheduler_proofs`).  `Shape /\ Queued` is inductive.  `Shape` is
the type of every variable with integer counters, and the relation between the
phase and the batch queue; `Queued` is `QueueAgreement` in terms of `IsQueue`.
This layer needs no accounting, but cannot show that counters are not negative.
Theorem `QueuesAgree`.

**Ledger** (`Scheduler_proofs`, third part).  `IInv == Shape /\ Queued /\ Ledger` is
inductive.  `TokenAccounting` alone is not: that `num_computed_tokens` is
right after an update needs to know what the frame being read booked when it
was scheduled, hence `StepBooked` (a step ends within the known tokens, or
exactly at its drafts) and `StepOrdered` (within the RUNNING loop, nothing from
the cursor on is scheduled).  That a resumed request has nothing in flight
needs `Drained`: only the oldest frame may owe a preempted request anything,
and the step that preempted it admits nobody.  `AtRest` says what a request
carries while it does not run, `Bounded` that an unfinished one still has room.
From it follow `TypeCorrect`, `TokensAccounted`, `LengthsLimited`,
`DraftsOnDecode`, `NoStepWasted`, `ResumesDrained` and `StaleRowsDropped`.
Their premise is `ResetModes \subseteq {"drained", "undrafted"}`, that of the
run scheduler: caches are reset when nothing is in flight, or only steps
without drafts.  `FramesSound` carries it: a row a reset made stale has no
drafts, so the rejections counted before the stale mark is looked at are none.
With drafts in flight the ledger does not hold, which `scheduler_stale` shows
for its cause.

**Service** (`Scheduler_proofs`, second part).  Both results hold in every reset mode, on
top of `Shape` and `Queued` alone.  For the pool, `KvInv` adds that free blocks
and the sum of those held make up the pool (`Pool`), and per request that a
running one holds a slot for every position it has computed or was scheduled,
in whatever order preemption takes blocks away (`Covered`): theorem `KvIsSafe`.
For the clients, `ServiceInv` adds that seats are not exceeded, that a request
has no more tokens than it asked for, and that nothing in the engine names it
before it arrives (`Known`); under it every action maps to a step of `FcfsService` or to a stutter, one lemma per
action: theorem `ServesInOrder`, `Spec => ServiceSpec`.

**Engine** (`Engine_proofs`).  `Scheduler` lets the worker answer what it must:
no token for a prompt chunk, one to drafts + 1 for any other row.  That the
runner does so rests on both sides counting alike without speaking: whether it
discards a row depends on the output ids it has cached, while the scheduler
decided by its own count, which was two steps ahead.  `EInv` adds to the ledger
that every frame in flight is answered, in execution or on its way, in this
order, and says what was sent (`Pipeline`); that the worker's batch holds the
rows of the step in execution and discards those that do not sample (`Worker`);
that each message on its way can be executed when its turn comes (`Deliverable`):
it names requests the worker knows by then, sends all ids of those that lost
their row, and counts on no more ids for the others than the worker will have;
and the same of the message `schedule()` is putting together
(`NextDeliverable`).  Theorems `RefinesScheduler`, one lemma per step, and
`HandoverIsComplete`.  Its premises are those of run engine: no cache resets
(`EngineAssumption`).

**Positions** (`EnginePositions`).  A draft is counted as computed when it is
scheduled and taken back when it is rejected, by each side in its own way and
at its own time: the scheduler when it reads the answer, the GPU from what it
sampled, the CPU of the worker one step later.  `Positions`, on top of `EInv`,
says for every request at every moment how far each is.  `Ahead`: what the
scheduler counts is what the worker has (`Base`) and, for each of the two
frames in flight, the rejected drafts of an answer not yet read, or else all
its tokens (`Lead`).  `Grounded`: `gpuComputed` is where the KV ends that was
computed from accepted tokens (`kvLen`), before a step and after it.  `Placed`:
a message on its way starts a row where the step before it will end, all its
drafts taken for accepted; it takes up a preempted or new request only when no
step before it computes that (`Apart`).  What the scheduler takes for accepted
is then the drafts `Correction` starts from, and what the worker takes back
leaves the CPU where the GPU is: theorem `CorrectionsMeet`, which is
`AheadIsCorrected`; the invariant itself is theorem `PositionsHold`, one lemma
per step of either side for each of its halves (`...Ahead`, `...Grounds`).

**Inputs** (`EnginePositions`, on lemmas of `Engine_proofs`).  `FeedsAreRight` is
`InputsRight`: which token stands at which index of the flattened batch.  It has four
invariants beside `Positions`.  `Tally`: the scheduler has the tokens of the
worker, less those in answers it has not read (`Pending`).  `Reckonings`: a
message on its way counts as many tokens too many of a request as positions, and a
row that samples ends, but for its drafts, with the tokens it counts.  `NewOnce`:
a request is new to the worker once.  `Feeds`: between two steps a row of the
last batch is `Ready`, either its last token is on the GPU, at the position
behind its KV, in the row `prevIndex` names, with its drafts behind it, or
the CPU has all its tokens.  A row that goes on from the GPU is then a decode
(`Continues`), any other reads the CPU at positions it has (`Enters`).  Where the
rows lie is a sum over the rows before them, in an order of the worker's
choice (`Layout`); `InputIdAt` says what each of the three ways to fill the batch (the
CPU's ids, one slice of sampled tokens, the scatters) puts there.  The slice is used
only if row by row the sums equal the positions in the last batch, which then
are 1, 2, 3 and so on (`UptoFirst`); leaving out the copy from the CPU is right
because any row not of the last batch makes the batch longer than the count it
is compared with (`SumExcess`).  The premise `ForgetsRemoved`, that
`remove_request` drops a request from `prev_req_id_to_index`, is vLLM's part;
without it TLC finds `InputsRight` violated.

**Blocked requests** (`BlockedWaiting_proofs`).  None of the four properties is
inductive, for each is at risk in a step long after the one that broke its
reason.  `BInv` says what there is to know meanwhile.  `Standing` is the one
place of a request, for the queues in use and those half emptied by the loop of
`schedule()`.  `Flown` and `Behind` say who may be met in a row that comes back:
one that runs, one that is over, or one that was preempted in the step behind
and still stands in `waiting`, where `_handle_stopped_request` looks for it;
that no session is met otherwise is what one step in flight buys, and
`Counted`, that `num_output_placeholders` is the number of rows on their way.
`Lent` follows a load: its blocks are the request's until it is reported,
though the request be aborted first, and what failed in it stays known until
then.  `Kv` says how far the KV goes: a request that does not run counts, after
the truncation still to come (`Truncated`), no more tokens than were loaded.
The invariant also says that `num_waiting_for_streaming_input` counts the
sessions that wait.  Premise of theorems `OnePlaceHolds`, `LoadsAreSafe`,
`LoadedIsThere` and `SleepIsSafe` is `SessionsInStep`: who opens sessions keeps
one step in flight.  With two the first does not hold, for the reason
`session_async` shows: the session is stopped twice.

**Images** (`EncoderCache_proofs`).  Whether a step finds an image is decided
when its row is tried, up to three steps before it is gathered, by accounts that
run ahead of the worker.  `EncoderInv` follows it on the way.  `GoodCache`: an
entry is referred to by live requests that have the image, the freeable ones are
those nobody refers to, each in line once, and all fit.  `GoodFor`: the turns of
`_try_schedule_encoder_inputs` have looked at every image the row will gather,
so each is in the accounts and referred to, or among those to be encoded, for
which eviction has made room without taking any other entry of a row.
`RowsStand`: of a row that is scheduled every image it gathers or encodes is
counted and referred to, so no eviction takes it before the step goes out;
preemption spares it, since first come, first served, the victim is the last of
`running`, whose turn is still to come.  `Follows`: there are sets, one for
each frame in flight, that the worker will hold one after the other, each with
all its frame gathers; the last of them, less what is to be dropped and with
what the step encodes, is what the accounts count.  Evicting moves an image from
counted to dropped, scheduling one to encoded, and sending the step off makes
the counted set the next in the row.  Theorems `EncodingsAreFound`
(`GatherFinds`) and `EncodingsAreCounted` (`AccountsAgree`).  Their premise is
`Policy = "fcfs"`, the shipped policy: under "priority" a row that is in the
step already can be preempted, and the images it was to encode stay counted
(below, under limits); TLC finds both properties violated then.

**Slots and rings** (`Worker_proofs`).  The invariant is `TypeOK`, `SlotsShared`,
that a batch is made of active requests, no more than there are slots, and that
during a call only active requests hold a slot.  The last is the point:
absent requests are reclaimed before the first row asks, so by cardinality a
slot is left for every row.  Theorems `TypeCorrect`, `SlotsAreShared`,
`EveryRowFindsSlot`.  `RingsFollowRequests` is `DraftReadsOwnKv` for any window
and any number of requests; its premises are those of run worker
(`RingsAssumption`): every running request is in every batch, no position
reaches the drafter's limit, and a prefix hit leaves a window to compute.
`RingInv` says that the ring of a running request holds the whole last window
of its positions from its prefix hit on, less what the call in progress has yet
to store; a step overwrites the positions that leave the window, and no others,
which is an argument about remainders (`DivMod`).

**Streams** (`Worker_proofs`).  What is read when is a matter of the order
of events, so the invariants speak of operations still queued.  `InputsPending`:
input copies not yet executed are of the step the buffers hold, and come no
later than the recorded event.  `CopiesPending`: a queued copy waits for a
position of the default stream at which what it copies is computed
(`CopiesWait`), what a host buffer holds once its stream has run dry is the
step that is wanted (`LastWanted`), and an output not yet computed has its copy
queued, at its event (`OutputsCome`).
`InputsAreUntorn` needs no
premise; `BuffersRight` needs `DrafterFits = {TRUE}`, without which `copy_race` refutes
it.

**KV pages** (`Worker_proofs`).  `PagesStayApart` is `BlocksStayApart`.
`LayoutInv` says what each stage of `initialize_kv_cache()` has left: kernel
sizes that divide their blocks, then views that fit their tensors.  The rest is
arithmetic on one layer.  If its pages are padded, a view of several kernel
blocks to a block would not fit (`PageOfBlock`), so the block is one strided
piece at the start of its page; if not, the kernel blocks of a block tile its
page without gaps (`TilesFillPage`).

**Captures** (`Worker_proofs`).  `FeaturesAreFresh` is `FeaturesOfThisForward`.
`CaptureInv` follows a forward: a captured layer that was passed is in the
buffer, or the next layer is about to capture it, and that one exists
(`Passed`), for the state between two layers is mixed or is what the last one
left (`Stream`).  Its premise `CapturedHere`, that the captured layers are on the
rank that has the buffer, always holds for one pipeline rank (`StartLayer = 0`),
as shipped; the last rank never fills the part of a layer that runs on another.

**Grammars** (`Worker_proofs`).  `GrammarTakesAll` is `GrammarHolds`, for any
requests, drafts, chunks and preemptions.  `GrammarInv` says that the grammar
takes every frame on its way from where it is now (`Taken`), which stays true
when the frame before it is received because no request is in two frames.  That
is so because a step that holds a request still owed a token waits, and what
waits finds its drafts at the worker: `DraftsOwed` (drafts are scheduled only
for a request in flight), `DeferredDrafted` and `FramesTaken` (the drafts at the
worker are those of the last frame).  The step itself is `SampledAccepted`:
what the worker may sample behind drafts that are a prefix the grammar takes,
then padding (`Fitted`), is taken.  The premise `ShortDrafts = FALSE`, drafts
reported in full, holds as shipped; `grammar_short` shows what happens without
it.  The proof never expands `Allowed` or `Advance`: it holds of any grammar.

**Graphs** (`Worker_proofs`).  `GraphsAreReplayed` is `ReplayedRight`.
`GraphsCaptured` says at each stage of the start what is gone and what is there:
profiling leaves no graph behind, and while `capture_model()` runs, what is no longer
to do is captured, with the drafter's graph beside it.  The dummy run
that captures asks the drafter's dispatcher for another number of rows than the batch
will; `DispatchAgain` and `CapturedBeside` show that every graph a batch's drafts are given is found
again by the dummy run of the graph of its own size.  As for padding, a
uniform graph with enough tokens has enough rows (`UniformTokens`, `RowsFit`), and
`query_start_loc`, a sum over the rows before, never decreases and ends at the
number of tokens (`RowsStart`).

**Hosts** (`Host_proofs`).  `CollectorsKeepOrder` is `CollectorsOrderly`: the
invariant adds that nobody is alive from the `pkill` of a start to its spawn, or
from that of a stop on (`NobodyLeft`), and that whoever is alive is alone.
`FiguresAreReal` is `FiguresReal`: `Clock` relates the sample, the call and the
cache, which is why a call has time between itself and the sample it is divided
by (the premise `CacheTtl > 0` is `CACHE_TTL`); `Gains` bounds what was counted
meanwhile by what the engine can make in that time, before and after the fetch;
`Shares` does the same for accepted and drafted tokens of one boot.
`ServesAsAsked` is the action property `ServesWhatWasAsked`: `Prepared` says
which of the files and containers are those of the `up` that runs, and that
nothing it relies on is an earlier one's.
`AcceptedIsServed` is `ServedByItsOwn`: `Resolved` keeps what the checks have
established until the worker starts, and `TablesAgree` goes through the methods
once for all three branches that pick by them.  Its premise `WithinBlock`, that no depth
is a larger multiple of the block, is the limit named below; the launcher holds
to it on the 0.21 engine (`checkpoint_k.py` 33-34).

**Data** (`DataLemmas`).  Lemmas about queues, prefixes of sequences and sums
over functions.
The library's induction theorems take an operator, which the provers cannot
instantiate; where a fold is a sum, the induction is done by hand, as a minimal
counterexample over the finite subsets of the domain (`WFMin`).  For a fold over
a sequence, `FoldByPosition` gives the values from position to position as a
function, whatever the steps; each fold of a model has a lemma of its own from
it (`FreedByPosition`, `TurnsByPosition`, `RowsByPosition`, `FramesLeave`).

**Model-checked only.**  Liveness and fairness (outside the prover's reach); the
planner of `PrefixSchedule` (`ScheduleRight`), a fold over data, whose general
optimality needs an induction over sequences of choices; and every property of
the modules that are not named in this section (`WeightLoading`,
`PromptEncoding`, `ImageBlocks`).  Conversely the type invariants of `Scheduler`
and `DraftSlots` and `ResumeDrained` are proved and no longer checked in a run;
`StepWellFormed` stays in `Scheduler` as documentation of what `schedule()`
asserts itself.

## Disagreements between the code and what it says

1. *Stale frames* (sched 1376-1386 against 1942-1944).  `reset_prefix_cache`
   says that frames in flight at preemption are discarded.  Their tokens are,
   but their rejected drafts are still subtracted, from the counters of a
   request that may have been resumed meanwhile (`scheduler_stale`).
2. *Slots of absent requests* (proposer 541 against 87-89).  KV follows the
   request id only while the request is in every batch; one left out by the
   token budget loses its slot (`drafts_partial`).  The shipped settings (8192
   tokens, 6 sequences) do not reach it.
3. *Sessions with two steps in flight* (sched 1656-1675 against 794).  The step
   behind the one that ended an input stops the session again, and
   `schedule()` meets a status it calls invalid (`session_async`).  It takes
   resumable requests, which the shipped server does not open.
4. *Zeroed drafts* (worker 4903 against 4675-4676).  The zeros are written at
   once, under a copy that is still queued (`copy_race`).
5. *Short drafts and grammars* (sched 1766-1769, worker 4916-4925 against
   sched 1421-1427).  Rows behind the reported length have no mask, and the
   worker verifies them (`grammar_short`).
6. *Images of sorted tool results* (encoding 717-743, 473-512 against 720).  The
   records keep message order (`images_order`).
7. *A turn that is not rendered* (encoding 571 against 539, 569-570 and 594).
   How many messages are new is what is left of the conversation less what is
   left of the context after old thinking is dropped.  The context alone ends
   with its own last user: a developer there stays, but is dropped from the whole
   conversation once a user's message or a tool result follows the answer.  The
   count is one short and the prompt of the new turn is empty (`turn_lost`).  It
   takes thinking with `drop_thinking`, no tools, and a caller that passes the
   earlier turns as context.

Four more are stated in the modules and refuted by TLC, but have no run of their
own.

- *Stale samples* (`ventus-dspark` 340-341, 547-549 against
  `dashboard/server.py` 96-98): a node that does not answer is shown with its
  last sample as current, as each turn renews the file (`OldShownStale`).
- *Prefill rate* (`dashboard/server.py` 52 against 45-47): the two rates of a
  poll share the time of the last sample; the second is always blank
  (`PrefillShown`).
- *No requests in common* (worker 1818-1819): a running request the last batch
  left out comes back with placeholders for drafts (`CpuHasAllIds`).
- An acceptance window across a restart of the fleet (`dashboard/server.py`
  153-159) is no share; `AlphaIsShare` says so by its premise.

### Limits met on the way

Not modelled, or kept out of an instance, and worth knowing: a depth that is a
multiple of the block is accepted (config 791) though DSpark drafts no more than
a block; a request preempted by priority in the step that was to
encode its images gives back the budget, while the cache accounts go on counting
them as cached (sched 466-483), which `EncoderCache` has (`Policy`) and the
shipped first-come policy does not reach;
`reload_weights` (worker 5536) reloads the target and leaves the draft; two
images next to each other need a cache that holds both (sched 1207-1219).
An image's block depends on its position, for which reason the processor of the
vision lane caches nothing (processor.py 116-118); the engine's encoder cache
goes by the content of an image alone, so one that comes twice may be given the
block made for the other place.  The keys are made in vLLM 0.25, which is not in
the repository, so no run speaks of it.

## Plan

Done: the scheduler with its abstract service, images, blocked requests and
grammars; the model runner and its composition with the scheduler; slots,
planner, streams, graphs, KV layout, weights and captures; launcher, telemetry,
dashboard, prompts, images in them and configuration; and the proofs above.  Next:

1. Proofs: `EveryWeightArrives`; `ScheduleRight`, once sequences of choices can
   be induced over.
2. Two overlapping polls of the dashboard; the image patches as operators on
   texts; LoRA limits, pooling and data parallelism of sched and worker, should
   the fleet use them.
