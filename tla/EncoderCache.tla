---------------------------- MODULE EncoderCache ----------------------------
(***************************************************************************)
(* Image embeddings between scheduler and worker.                          *)
(*                                                                         *)
(* schedule() decides which images a step must encode, within a compute    *)
(* budget and the size of a cache it only keeps the accounts of            *)
(* (EncoderCacheManager, which is vLLM's); the worker holds the embeddings *)
(* and drops those the scheduler names.  With two steps in flight the      *)
(* accounts run ahead of what the worker holds.                            *)
(*                                                                         *)
(* An image stands at consecutive positions of a prompt, one embedding     *)
(* each.  Generation touches no image: a request asks for one token, the   *)
(* one its prompt ends in.  Whether the KV cache has room is a free        *)
(* choice, refused at most MaxNoRoom times.                                *)
(***************************************************************************)
EXTENDS Clients, Functions, SequencesExt, FiniteSetsExt

CONSTANTS
  Features,       \* mm_features of a request: sequence of [hash, start]
  HashLen,        \* tokens of an image, by hash
  NumPromptTokens, \* prompt tokens of each request
  Priority,       \* priority of each request, less is more urgent
  Policy,         \* "fcfs" or "priority"
  PrefixHits,     \* prompt positions the prefix cache may offer
  CacheSize,      \* encoder_cache_size
  ComputeBudget,  \* max_num_encoder_input_tokens
  MaxBatchedTokens,
  Shift,          \* shift_computed_tokens, 1 with a drafter
  DisableChunked, \* disable_chunked_mm_input
  MaxNoRoom       \* bound: how often the KV cache may have no room

\* An image fits into the cache and into the budget of a step; those of a
\* prompt are listed in its order.
ASSUME EncoderAssumption ==
  /\ Policy \in {"fcfs", "priority"}
  /\ Shift \in {0, 1}
  /\ {CacheSize, ComputeBudget, MaxBatchedTokens, MaxNoRoom} \subseteq Nat
  /\ PrefixHits \subseteq Nat
  /\ NumPromptTokens \in [Requests -> Nat]
  /\ DOMAIN Features = Requests
  /\ \A r \in Requests :
       /\ Features[r] \in Seq([hash : DOMAIN HashLen, start : Nat])
       /\ \A i, j \in DOMAIN Features[r] :
            i <= j => Features[r][i].start <= Features[r][j].start
  /\ IsFiniteSet(DOMAIN HashLen)
  /\ HashLen \in [DOMAIN HashLen -> Nat]
  /\ \A h \in DOMAIN HashLen :
       HashLen[h] > 0 /\ HashLen[h] <= CacheSize /\ HashLen[h] <= ComputeBudget

VARIABLES
  status,      \* of each request
  computed,    \* num_computed_tokens
  waiting, running,
  cache,       \* the accounts: EncoderCacheManager
  phase,       \* "idle", or the loop schedule() is in
  cursor,      \* req_index + 1
  tokens,      \* token_budget
  budget,      \* encoder_compute_budget
  trial,       \* what _try_schedule_encoder_inputs returned, if room is sought
  step,        \* what the step schedules so far
  frames,      \* SchedulerOutputs not yet executed, oldest first
  results,     \* executed, and not yet seen by update_from_output
  held,        \* encoder_cache of the worker, a set of hashes
  missed,      \* history: an embedding was gathered that is not there
  noRoom       \* history: how often the KV cache had no room

loopVars == <<phase, cursor, tokens, budget, trial, step>>
pipeVars == <<frames, results, held, missed>>
encoderVars == <<status, computed, waiting, running, cache, loopVars,
                 pipeVars, noRoom>>

Inputs(r) == DOMAIN Features[r]
Start(r, i) == Features[r][i].start
Hash(r, i) == Features[r][i].hash
End(r, i) == Start(r, i) + HashLen[Hash(r, i)]
SlotsOf(S) == SumFunctionOnSet(HashLen, S)

None == <<>>
EmptyStep == [n |-> <<>>, rows |-> <<>>, inputs |-> <<>>, preempted |-> FALSE]

EncoderInit ==
  /\ status = [r \in Requests |-> "NEW"]
  /\ computed = [r \in Requests |-> 0]
  /\ waiting = <<>>
  /\ running = <<>>
  /\ cache = [refs |-> <<>>, freeable |-> <<>>, freed |-> {}]
  /\ phase = "idle"
  /\ cursor = 1
  /\ tokens = 0
  /\ budget = 0
  /\ trial = None
  /\ step = EmptyStep
  /\ frames = <<>>
  /\ results = <<>>
  /\ held = {}
  /\ missed = FALSE
  /\ noRoom = 0

-----------------------------------------------------------------------------
(* EncoderCacheManager.                                                    *)

Cached(c) == DOMAIN c.refs
FreeSlots(c) == CacheSize - SlotsOf(Cached(c))
FreeableSlots(c) == CacheSize - SlotsOf({h \in Cached(c) : c.refs[h] # {}})

\* check_and_update_cache, when it finds h.
Touched(c, r, h) ==
  [c EXCEPT !.refs[h] = @ \union {r},
            !.freeable = Without(@, {h})]

\* Fault: what is evicted to make room is not reported to the worker.
EvictedUntold(c, needed) ==
  IF needed <= FreeSlots(c) THEN c
  ELSE [c EXCEPT !.freeable = <<>>,
                 !.refs = Restrict(@, {h \in Cached(c) : @[h] # {}})]

\* can_allocate evicts the oldest hashes until `needed' slots are free.
Evicted(c, needed) ==
  LET k == CHOOSE k \in 0..Len(c.freeable) :
             /\ needed <= FreeSlots(c)
                          + SlotsOf({c.freeable[j] : j \in 1..k})
             /\ k > 0 => needed > FreeSlots(c)
                          + SlotsOf({c.freeable[j] : j \in 1..(k - 1)})
      out == {c.freeable[j] : j \in 1..k}
  IN  [refs |-> Restrict(c.refs, Cached(c) \ out),
       freeable |-> SubSeq(c.freeable, k + 1, Len(c.freeable)),
       freed |-> c.freed \union out]

Allocated(c, r, hs) ==
  [c EXCEPT !.refs = [h \in Cached(c) \union hs |->
                        IF h \in hs THEN (IF h \in Cached(c) THEN c.refs[h]
                                          ELSE {}) \union {r}
                        ELSE c.refs[h]]]

\* free_encoder_input
FreedInput(c, r, h) ==
  IF h \notin Cached(c) THEN c
  ELSE IF c.refs[h] = {} THEN c
  ELSE IF c.refs[h] = {r} THEN [c EXCEPT !.refs[h] = {}, !.freeable = Append(@, h)]
  ELSE [c EXCEPT !.refs[h] = @ \ {r}]

\* Fault: an image is kept until its request is over.
FreedNothing(c, r, S) == c

FreedInputs(c, r, S) ==
  FoldLeft(LAMBDA d, i : IF i \in S THEN FreedInput(d, r, Hash(r, i)) ELSE d,
           c, [i \in Inputs(r) |-> i])

\* free(request)
FreedAll(c, r) == FreedInputs(c, r, Inputs(r))

-----------------------------------------------------------------------------
(* _try_schedule_encoder_inputs                                            *)

CanAllocate(s, h) ==
  HashLen[h] <= s.budget /\ HashLen[h] + s.embeds <= FreeableSlots(s.cache)

Stop(s, n) == [s EXCEPT !.n = n, !.done = TRUE]

\* Tokens up to just before an image at `start'.
Before(c, start) == IF c + Shift < start THEN start - (c + Shift) ELSE 0

\* Fault: an image that is cached already is not referred to.
TurnWithoutTouch(r, c, s, i) ==
  LET h == Hash(r, i)
  IN  IF s.done THEN s
      ELSE IF Start(r, i) >= c + s.n + Shift THEN [s EXCEPT !.done = TRUE]
      ELSE IF End(r, i) <= c \/ h \in s.seen \union Cached(s.cache) THEN s
      ELSE IF ~CanAllocate(s, h) THEN Stop(s, Before(c, Start(r, i)))
      ELSE [s EXCEPT !.cache = Evicted(s.cache, HashLen[h] + s.embeds),
                     !.embeds = @ + HashLen[h], !.budget = @ - HashLen[h],
                     !.seen = @ \union {h}, !.inputs = @ \union {i}]

\* One turn of its loop, at image i of r, whose first c positions are computed.
Turn(r, c, s, i) ==
  LET h    == Hash(r, i)
      room == Evicted(s.cache, HashLen[h] + s.embeds)
  IN  IF s.done THEN s
      ELSE IF Start(r, i) >= c + s.n + Shift THEN [s EXCEPT !.done = TRUE]
      ELSE IF End(r, i) <= c \/ h \in s.seen THEN s
      ELSE IF h \in Cached(s.cache) THEN [s EXCEPT !.cache = Touched(@, r, h)]
      ELSE IF \/ DisableChunked /\ c < Start(r, i) /\ c + s.n < End(r, i)
              \/ ~CanAllocate(s, h)
           THEN Stop(s, Before(c, Start(r, i)))
      ELSE IF Start(r, i) >= c + s.n THEN [s EXCEPT !.cache = room]
      ELSE [s EXCEPT !.cache = room, !.embeds = @ + HashLen[h],
                     !.budget = @ - HashLen[h], !.seen = @ \union {h},
                     !.inputs = @ \union {i}]

Try(r, c, n) ==
  LET start == [r |-> r, c |-> c, n |-> n, budget |-> budget, cache |-> cache,
                embeds |-> 0, seen |-> {}, inputs |-> {}, done |-> FALSE]
      tried == FoldLeft(LAMBDA s, i : Turn(r, c, s, i), start,
                        [i \in Inputs(r) |-> i])
  IN  IF n = 0 THEN start ELSE tried

-----------------------------------------------------------------------------
(* Requests.                                                               *)

Arrive(r) ==
  /\ phase = "idle"
  /\ status[r] = "NEW"
  /\ status' = [status EXCEPT ![r] = "WAITING"]
  /\ waiting' = Append(waiting, r)
  /\ UNCHANGED <<computed, running, cache, loopVars, pipeVars, noRoom>>

Withdraw(r) ==
  /\ phase = "idle"
  /\ status[r] \in {"WAITING", "RUNNING"}
  /\ status' = [status EXCEPT ![r] = "FINISHED"]
  /\ waiting' = Without(waiting, {r})
  /\ running' = Without(running, {r})
  /\ cache' = FreedAll(cache, r)
  /\ UNCHANGED <<computed, loopVars, pipeVars, noRoom>>

-----------------------------------------------------------------------------
(* schedule(): the running requests.                                       *)

BeginStep ==
  /\ phase = "idle"
  /\ waiting # <<>> \/ running # <<>>
  /\ Len(frames) + Len(results) < 2
  /\ phase' = "running"
  /\ cursor' = 1
  /\ tokens' = MaxBatchedTokens
  /\ budget' = ComputeBudget
  /\ step' = EmptyStep
  /\ UNCHANGED <<status, computed, waiting, running, cache, trial, pipeVars,
                 noRoom>>

TryRunning ==
  /\ phase = "running"
  /\ trial = None
  /\ cursor <= Len(running)
  /\ tokens > 0
  /\ LET r == running[cursor]
         t == Try(r, computed[r],
                  Min({NumPromptTokens[r] - computed[r], tokens}))
     IN  /\ cache' = t.cache
         /\ IF t.n = 0 THEN cursor' = cursor + 1 /\ UNCHANGED trial
            ELSE trial' = t /\ UNCHANGED cursor
  /\ UNCHANGED <<status, computed, waiting, running, phase, tokens, budget,
                 step, pipeVars, noRoom>>

HashesOf(r, S) == {Hash(r, i) : i \in S}

\* The dict f once its entry at r is v.
WithEntry(f, r, v) == [q \in DOMAIN f \union {r} |-> IF q = r THEN v ELSE f[q]]

\* The row of the trial joins the step, and its images the accounts.
Scheduled(t) ==
  /\ step' = [step EXCEPT !.n = WithEntry(@, t.r, t.n),
                          !.rows = Append(@, t.r),
                          !.inputs = WithEntry(@, t.r, t.inputs)]
  /\ tokens' = tokens - t.n
  /\ budget' = IF t.inputs = {} THEN budget ELSE t.budget
  /\ trial' = None

ScheduleRunning ==
  /\ phase = "running"
  /\ trial # None
  /\ Scheduled(trial)
  /\ cache' = Allocated(cache, trial.r, HashesOf(trial.r, trial.inputs))
  /\ cursor' = cursor + 1
  /\ UNCHANGED <<status, computed, waiting, running, phase, pipeVars, noRoom>>

Least(S) == CHOOSE r \in S : \A q \in S : Priority[r] <= Priority[q]
Largest(S) == CHOOSE r \in S : \A q \in S : Priority[q] <= Priority[r]

Victim == IF Policy = "priority" THEN Largest(ToSet(running)) ELSE Last(running)

\* A victim that this step had scheduled leaves it again.
Unscheduled(v) ==
  IF Policy = "priority" /\ v \in DOMAIN step.n
  THEN /\ step' = [n |-> Restrict(step.n, DOMAIN step.n \ {v}),
                   rows |-> Without(step.rows, {v}),
                   inputs |-> Restrict(step.inputs, DOMAIN step.n \ {v}),
                   preempted |-> TRUE]
       /\ tokens' = tokens + step.n[v]
       /\ budget' = budget + SlotsOf(HashesOf(v, step.inputs[v]))
       /\ cursor' = cursor - 1
  ELSE /\ step' = [step EXCEPT !.preempted = TRUE]
       /\ UNCHANGED <<tokens, budget, cursor>>

\* allocate_slots finds no room: preempt, and try again for the same trial.
Preempt ==
  /\ phase = "running"
  /\ trial # None
  /\ noRoom < MaxNoRoom
  /\ noRoom' = noRoom + 1
  /\ LET v == Victim
     IN  /\ Unscheduled(v)
         /\ running' = Without(running, {v})
         /\ waiting' = <<v>> \o waiting
         /\ status' = [status EXCEPT ![v] = "WAITING"]
         /\ computed' = [computed EXCEPT ![v] = 0]
         /\ cache' = FreedAll(cache, v)
         /\ IF v = trial.r THEN phase' = "end" /\ trial' = None
            ELSE UNCHANGED <<phase, trial>>
  /\ UNCHANGED pipeVars

EndRunning ==
  /\ phase = "running"
  /\ trial = None
  /\ cursor > Len(running) \/ tokens = 0
  /\ phase' = IF step.preempted THEN "end" ELSE "waiting"
  /\ UNCHANGED <<status, computed, waiting, running, cache, cursor, tokens,
                 budget, trial, step, pipeVars, noRoom>>

-----------------------------------------------------------------------------
(* schedule(): the waiting requests, and the end of it.                    *)

Peek == IF Policy = "priority" THEN Least(ToSet(waiting)) ELSE Head(waiting)

MayAdmit ==
  /\ phase = "waiting"
  /\ waiting # <<>>
  /\ tokens > 0
  /\ Len(running) < MaxNumSeqs

\* The head is looked up, tried and given room, or ends the loop.
TryWaiting ==
  /\ MayAdmit
  /\ \E hit \in {c \in PrefixHits : c < NumPromptTokens[Peek]} :
       LET r == Peek
           t == Try(r, hit, Min({NumPromptTokens[r] - hit, tokens}))
       IN  \/ /\ t.n = 0
              /\ cache' = t.cache
              /\ phase' = "end"
              /\ UNCHANGED <<status, computed, waiting, running, tokens, budget,
                             trial, step, noRoom>>
           \/ /\ t.n > 0
              /\ noRoom < MaxNoRoom
              /\ noRoom' = noRoom + 1
              /\ cache' = FreedAll(t.cache, r)
              /\ phase' = "end"
              /\ UNCHANGED <<status, computed, waiting, running, tokens, budget,
                             trial, step>>
           \/ /\ t.n > 0
              /\ Scheduled(t)
              /\ cache' = Allocated(t.cache, r, HashesOf(r, t.inputs))
              /\ waiting' = Without(waiting, {r})
              /\ running' = Append(running, r)
              /\ status' = [status EXCEPT ![r] = "RUNNING"]
              /\ computed' = [computed EXCEPT ![r] = hit]
              /\ UNCHANGED <<phase, noRoom>>
  /\ UNCHANGED <<cursor, pipeVars>>

\* The SchedulerOutput, and _update_after_schedule.
EndStep ==
  /\ phase = "end" \/ (phase = "waiting" /\ ~MayAdmit)
  /\ frames' = Append(frames, [n |-> step.n, rows |-> step.rows,
                               inputs |-> step.inputs, freed |-> cache.freed,
                               computed |-> computed])
  /\ cache' = [cache EXCEPT !.freed = {}]
  /\ computed' = [r \in Requests |->
                    computed[r] + IF r \in DOMAIN step.n THEN step.n[r] ELSE 0]
  /\ phase' = "idle"
  /\ step' = EmptyStep
  /\ cursor' = 1
  /\ tokens' = 0
  /\ budget' = 0
  /\ UNCHANGED <<status, waiting, running, trial, results, held, missed,
                 noRoom>>

-----------------------------------------------------------------------------
(* The worker.                                                             *)

EncodedBy(f) == UNION {HashesOf(r, f.inputs[r]) : r \in DOMAIN f.n}

\* _update_states drops, then _execute_mm_encoder fills.
HeldAfter(f, before) == (before \ f.freed) \union EncodedBy(f)

\* The hashes _gather_mm_embeddings looks up.
Gathered(f) ==
  UNION {{Hash(r, i) : i \in {j \in Inputs(r) :
            /\ Start(r, j) < f.computed[r] + f.n[r]
            /\ f.computed[r] < End(r, j)}} : r \in DOMAIN f.n}

Execute ==
  /\ phase = "idle"
  /\ frames # <<>>
  /\ held' = HeldAfter(Head(frames), held)
  /\ missed' = (missed \/ ~(Gathered(Head(frames)) \subseteq held'))
  /\ frames' = Tail(frames)
  /\ results' = Append(results, Head(frames))
  /\ UNCHANGED <<status, computed, waiting, running, cache, loopVars, noRoom>>

\* update_from_output: a request whose prompt the step completed has its one
\* token and stops, even if preempted since; the others let go of the images
\* that num_computed_tokens has passed.
Update ==
  /\ phase = "idle"
  /\ results # <<>>
  /\ results' = Tail(results)
  /\ LET f       == Head(results)
         rows    == Without(f.rows, {r \in Requests : status[r] = "FINISHED"})
         stopped == {r \in ToSet(rows) :
                       f.computed[r] + f.n[r] = NumPromptTokens[r]}
     IN  /\ cache' = FoldLeft(LAMBDA c, r :
                        IF r \in stopped THEN FreedAll(c, r)
                        ELSE FreedInputs(c, r, {i \in Inputs(r) :
                                                  End(r, i) <= computed[r]}),
                        cache, rows)
         /\ status' = [r \in Requests |->
                         IF r \in stopped THEN "FINISHED" ELSE status[r]]
         /\ running' = Without(running, stopped)
         /\ waiting' = Without(waiting, stopped)
  /\ UNCHANGED <<computed, loopVars, frames, held, missed, noRoom>>

Engine ==
  \/ BeginStep \/ TryRunning \/ ScheduleRunning \/ Preempt \/ EndRunning
  \/ TryWaiting \/ EndStep
  \/ Execute \/ Update

EncoderNext == Engine \/ \E r \in Requests : Arrive(r) \/ Withdraw(r)

EncoderSpec == EncoderInit /\ [][EncoderNext]_encoderVars /\ WF_encoderVars(Engine)

-----------------------------------------------------------------------------
(* Properties.                                                             *)

(***************************************************************************)
(* gpu_model_runner.py:3175: "Encoder cache miss for {mm_hash}."  Every    *)
(* embedding a step gathers was encoded by it or a step before it, and has *)
(* not been dropped since, whatever was preempted, aborted, evicted or     *)
(* shared in between.                                                      *)
(***************************************************************************)
GatherFinds == ~missed

(***************************************************************************)
(* The scheduler's accounts and the worker's memory describe the same      *)
(* cache: once the steps in flight are executed, the worker will hold what *)
(* is counted as cached and nothing else, which fits; an entry can be      *)
(* evicted exactly if no request refers to it, and no finished request     *)
(* does.                                                                   *)
(***************************************************************************)
AccountsAgree ==
  phase = "idle" =>
    /\ FoldLeft(LAMBDA h, f : HeldAfter(f, h), held, frames) = Cached(cache)
                                                            \union cache.freed
    /\ FreeSlots(cache) >= 0
    /\ ToSet(cache.freeable) = {h \in Cached(cache) : cache.refs[h] = {}}
    /\ \A h \in Cached(cache) :
         \A r \in cache.refs[h] : status[r] \in {"WAITING", "RUNNING"}

(***************************************************************************)
(* No image waits for ever for budget or cache: every request that is not  *)
(* aborted gets through its prompt.                                        *)
(***************************************************************************)
EveryImageServed ==
  \A r \in Requests : status[r] # "NEW" ~> status[r] = "FINISHED"
=============================================================================
