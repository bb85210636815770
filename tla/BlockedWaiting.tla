--------------------------- MODULE BlockedWaiting ---------------------------
(***************************************************************************)
(* Requests of the scheduler that wait for something other than room:      *)
(* WAITING_FOR_REMOTE_KVS for KV blocks a connector loads,                 *)
(* WAITING_FOR_STREAMING_REQ for the next input of a session,              *)
(* WAITING_FOR_STRUCTURED_OUTPUT_GRAMMAR for a compiled grammar.  They     *)
(* stand in skipped_waiting, are passed over by schedule(), hold blocks    *)
(* another process writes to, and may be aborted at any time.              *)
(*                                                                         *)
(* The KV connector and the worker's side of it are external: it offers    *)
(* tokens, loads them while the engine runs, reports blocks that failed no *)
(* later than the end of the load, and may keep the blocks of a finished   *)
(* request until they are sent.  Prompts are scheduled whole, each row     *)
(* samples one token; whether there is room is a free choice, as is        *)
(* whether the connector can tell yet, refused at most MaxRefusals times.  *)
(***************************************************************************)
EXTENDS Clients, SequencesExt, FiniteSetsExt

CONSTANTS
  PromptLen,     \* prompt tokens; also those of each further input
  BlockSize,
  Settings       \* how the engine may be set up, and what its clients do

VARIABLE setting

Resumable == setting.resumable     \* requests that are streaming sessions
Structured == setting.structured   \* requests that wait for a grammar first
Senders == setting.senders   \* requests whose blocks are sent on at their end
MaxTokens == setting.maxTokens     \* max_tokens of each input
Offers == setting.offers     \* tokens the connector may load for a request
Recompute == setting.recompute     \* recompute_kv_load_failures
Depth == setting.depth       \* steps in flight: 2 with async scheduling, or 1
MaxInputs == setting.maxInputs     \* bound: further inputs of a session
MaxFailures == setting.maxFailures \* bound: blocks that fail to load
MaxRefusals == setting.maxRefusals \* bound: no room, or no answer

ASSUME BlockedAssumption ==
  /\ IsFiniteSet(Requests)
  /\ BlockSize \in Nat \ {0} /\ MaxNumSeqs \in Nat
  /\ PromptLen \in [Requests -> Nat \ {0}]
  /\ \A s \in Settings :
       /\ s.resumable \union s.structured \union s.senders \subseteq Requests
       /\ s.maxTokens \in [Requests -> Nat \ {0}]
       /\ \A r \in Requests : s.offers[r] \subseteq 1..PromptLen[r]
       /\ s.recompute \in BOOLEAN
       /\ s.depth \in {1, 2}

VARIABLES
  req,           \* per request: status, num_computed_tokens, num_prompt_tokens,
                 \* num_tokens, num_output_placeholders, num_preemptions > 0,
                 \* streaming_queue
  queue,         \* self.waiting
  skipped,       \* self.skipped_waiting
  active,        \* self.running
  stage,         \* "idle", or the part of the call that is going on
  passed,        \* step_skipped_waiting, in the order of the visits
  batch,         \* num_scheduled_tokens
  flight,        \* batches in flight, oldest first
  rowsLeft,      \* rows of the output not yet visited
  failedNow,     \* failed_kv_load_req_ids
  sessionsWaiting,   \* num_waiting_for_streaming_input
  finishedRecving,   \* finished_recving_kv_req_ids
  failedRecving,     \* failed_recving_kv_req_ids
  blocks,        \* blocks each request holds
  load,          \* the connector's load of each request, if any
  compiled,      \* requests whose grammar is there
  good,          \* history: tokens whose KV really is in the blocks
  spent          \* bounds used up: inputs, failures, refusals

blockedVars == <<setting, req, queue, skipped, active, stage, passed, batch, flight,
                 rowsLeft, failedNow, sessionsWaiting, finishedRecving,
                 failedRecving, blocks, load, compiled, good, spent>>
queueVars == <<queue, skipped, active>>
stepVars == <<stage, passed, batch, rowsLeft, failedNow>>
recvVars == <<finishedRecving, failedRecving>>
kvVars == <<blocks, load, good>>

NoLoad == [state |-> "none", bad |-> {}]

BlockedInit ==
  /\ setting \in Settings
  /\ req = [r \in Requests |->
              [status |-> "NEW", computed |-> 0, prompt |-> PromptLen[r],
               tokens |-> PromptLen[r], ph |-> 0, preempted |-> FALSE,
               inputs |-> <<>>]]
  /\ queue = <<>>
  /\ skipped = <<>>
  /\ active = <<>>
  /\ stage = "idle"
  /\ passed = <<>>
  /\ batch = {}
  /\ flight = <<>>
  /\ rowsLeft = {}
  /\ failedNow = {}
  /\ sessionsWaiting = 0
  /\ finishedRecving = {}
  /\ failedRecving = {}
  /\ blocks = [r \in Requests |-> {}]
  /\ load = [r \in Requests |-> NoLoad]
  /\ compiled = {}
  /\ good = [r \in Requests |-> 0]
  /\ spent = [inputs |-> 0, failures |-> 0, refusals |-> 0]

-----------------------------------------------------------------------------
REMOTE == "WAITING_FOR_REMOTE_KVS"
STREAMING == "WAITING_FOR_STREAMING_REQ"
GRAMMAR == "WAITING_FOR_STRUCTURED_OUTPUT_GRAMMAR"

Blocked(state) == state \in {REMOTE, STREAMING, GRAMMAR}
Gone(state) == state \in {"NEW", "FINISHED", "FREED"}

BlocksOf(n) == (n + BlockSize - 1) \div BlockSize
Held == UNION {blocks[r] : r \in Requests}

\* The blocks of r once they are n, the lowest free ones added.
Grown(r, n) ==
  LET Free == (1..(Cardinality(Held) + n)) \ Held
      more == n - Cardinality(blocks[r])
  IN  blocks[r] \union
        {x \in Free : Cardinality({y \in Free : y < x}) < more}

\* _enqueue_waiting_request, of a request whose status is set already.
Enqueue(r, state) ==
  IF Blocked(state) THEN skipped' = Append(skipped, r) /\ UNCHANGED queue
  ELSE queue' = Append(queue, r) /\ UNCHANGED skipped

\* _update_request_as_session: the outputs computed so far become prompt.
NextInput(q, r) ==
  [q EXCEPT !.tokens = q.computed + PromptLen[r],
            !.prompt = q.computed + PromptLen[r],
            !.status = "WAITING"]

-----------------------------------------------------------------------------
(* add_request() and finish_requests()                                     *)

AddRequest(r) ==
  /\ stage = "idle"
  /\ req[r].status = "NEW"
  /\ LET first == IF r \in Structured THEN GRAMMAR ELSE "WAITING"
     IN  /\ req' = [req EXCEPT ![r].status = first]
         /\ Enqueue(r, first)
  /\ UNCHANGED <<active, stepVars, flight, sessionsWaiting, recvVars, kvVars,
                 compiled, spent>>

\* Fault: the blocks of a load that is under way are freed at once.
FreedAtOnce(S) ==
  /\ blocks' = [r \in Requests |-> IF r \in S THEN {} ELSE blocks[r]]
  /\ req' = [r \in Requests |-> IF r \in S THEN [req[r] EXCEPT !.status = "FREED"]
                                ELSE req[r]]

\* _free_request for each of S: _free_blocks, or later.
Freed(S) ==
  LET late == {r \in S : \/ req[r].status = REMOTE /\ r \notin finishedRecving
                         \/ req[r].status # REMOTE /\ r \in Senders}
  IN  /\ blocks' = [r \in Requests |->
                      IF r \in S \ late THEN {} ELSE blocks[r]]
      /\ req' = [r \in Requests |->
                   IF r \in S THEN [req[r] EXCEPT !.status =
                                      IF r \in late THEN "FINISHED" ELSE "FREED"]
                   ELSE req[r]]

\* finish_requests
FinishRequests(S) ==
  /\ Freed(S)
  /\ active' = Without(active, S)
  /\ queue' = Without(queue, S)
  /\ skipped' = Without(skipped, S)
  /\ sessionsWaiting' = sessionsWaiting
                        - Cardinality({r \in S : req[r].status = STREAMING})
  /\ finishedRecving' = finishedRecving \ S
  /\ failedRecving' = failedRecving \ S

Abort(r) ==
  /\ stage = "idle"
  /\ ~Gone(req[r].status)
  /\ FinishRequests({r})
  /\ UNCHANGED <<stepVars, flight, load, compiled, good, spent>>

\* add_request with an id that is known: an input, or the end, of a session.
MoreInput(r, kind) ==
  /\ stage = "idle"
  /\ r \in Resumable
  /\ req[r].status \notin {"NEW", "FREED"}
  /\ spent.inputs < MaxInputs
  /\ spent' = [spent EXCEPT !.inputs = @ + 1]
  /\ \/ /\ req[r].status # STREAMING
        /\ req' = [req EXCEPT ![r].inputs = Append(@, kind)]
        /\ UNCHANGED <<queueVars, sessionsWaiting, recvVars, blocks>>
     \/ /\ req[r].status = STREAMING
        /\ kind = "input"
        /\ req' = [req EXCEPT ![r] = NextInput(@, r)]
        /\ sessionsWaiting' = sessionsWaiting - 1
        /\ UNCHANGED <<queueVars, recvVars, blocks>>
     \/ /\ req[r].status = STREAMING
        /\ kind = "end"
        /\ FinishRequests({r})
  /\ UNCHANGED <<stepVars, flight, load, compiled, good>>

-----------------------------------------------------------------------------
(* schedule()                                                              *)

\* Tokens a running request is scheduled for, unless its end is certain.
NewTokens(r) ==
  LET q == req[r]
  IN  IF q.ph > 0 /\ q.computed + 2 - q.ph >= q.prompt + MaxTokens[r] THEN 0
      ELSE q.tokens + q.ph - q.computed

\* Fault: sessions waiting for input count.
HasRequests == Len(queue) + Len(skipped) + Len(active) > 0

\* get_num_unfinished_requests() > 0
HasUnfinished == Len(queue) + Len(skipped) - sessionsWaiting + Len(active) > 0

\* The running requests; the last may have to be preempted, which ends it.
BeginSchedule ==
  /\ stage = "idle"
  /\ HasUnfinished
  /\ Len(flight) < Depth
  /\ \/ /\ stage' = "waiting"
        /\ batch' = {r \in ToSet(active) : NewTokens(r) > 0}
        /\ good' = [r \in Requests |-> IF r \in batch' /\ good[r] = req[r].computed
                                       THEN good[r] + NewTokens(r) ELSE good[r]]
        /\ UNCHANGED <<req, queue, active, blocks, spent>>
     \/ /\ active # <<>>
        /\ spent.refusals < MaxRefusals
        /\ spent' = [spent EXCEPT !.refusals = @ + 1]
        /\ stage' = "end"
        /\ LET v == Last(active)
           IN  /\ active' = Front(active)
               /\ queue' = <<v>> \o queue
               /\ batch' = {r \in ToSet(Front(active)) : NewTokens(r) > 0}
               /\ req' = [req EXCEPT ![v].status = "PREEMPTED",
                                     ![v].computed = 0, ![v].preempted = TRUE]
               /\ blocks' = [blocks EXCEPT ![v] = {}]
               /\ good' = [r \in Requests |->
                             IF r = v THEN 0
                             ELSE IF r \in batch' /\ good[r] = req[r].computed
                             THEN good[r] + NewTokens(r) ELSE good[r]]
  /\ UNCHANGED <<skipped, passed, flight, rowsLeft, failedNow, sessionsWaiting,
                 recvVars, load, compiled>>

\* _select_waiting_queue_for_scheduling, FCFS
HeadRequest == IF skipped # <<>> THEN Head(skipped) ELSE Head(queue)

Visiting ==
  /\ stage = "waiting"
  /\ skipped # <<>> \/ queue # <<>>
  /\ Len(active) < MaxNumSeqs

Pop == IF skipped # <<>> THEN skipped' = Tail(skipped) /\ UNCHANGED queue
       ELSE queue' = Tail(queue) /\ UNCHANGED skipped

\* Fault: after a failure a load does not count as finished.
ReadyIfLoaded(r) ==
  \/ req[r].status = REMOTE /\ r \in finishedRecving \ failedRecving
  \/ req[r].status = GRAMMAR /\ r \in compiled

Ready(r) ==
  \/ req[r].status = REMOTE /\ r \in finishedRecving
  \/ req[r].status = GRAMMAR /\ r \in compiled

\* A request that still waits is passed, and one the connector cannot tell of.
PassOver ==
  /\ Visiting
  /\ LET r == HeadRequest
     IN  /\ \/ /\ Blocked(req[r].status) /\ ~Ready(r)
               /\ UNCHANGED spent
            \/ /\ ~Blocked(req[r].status) /\ req[r].computed = 0
               /\ Offers[r] # {}
               /\ spent.refusals < MaxRefusals
               /\ spent' = [spent EXCEPT !.refusals = @ + 1]
         /\ passed' = Append(passed, r)
  /\ Pop
  /\ UNCHANGED <<req, active, stage, batch, rowsLeft, failedNow, flight,
                 sessionsWaiting, recvVars, kvVars, compiled>>

\* Fault: a failed load is taken for a complete one.
PromotedUnchecked(r) ==
  /\ req' = [req EXCEPT ![r].status = IF @ = REMOTE /\ req[r].preempted
                                      THEN "PREEMPTED" ELSE "WAITING",
                        ![r].computed = IF req[r].status = REMOTE
                                        THEN Min({BlockSize * Cardinality(blocks[r]),
                                                  req[r].tokens - 1})
                                        ELSE @]
  /\ UNCHANGED blocks

\* _update_waiting_for_remote_kv and the status that follows.
Promoted(r) ==
  LET q      == req[r]
      failed == r \in failedRecving
  IN  /\ req' = [req EXCEPT
           ![r].status = IF q.status = REMOTE /\ q.preempted THEN "PREEMPTED"
                         ELSE "WAITING",
           ![r].computed = IF q.status = REMOTE /\ ~failed /\ @ = q.tokens
                           THEN @ - 1 ELSE @]
      /\ blocks' = IF q.status = REMOTE /\ failed /\ q.computed = 0
                   THEN [blocks EXCEPT ![r] = {}] ELSE blocks

\* _try_promote_blocked_waiting_request
Promote ==
  /\ Visiting
  /\ LET r == HeadRequest
     IN  /\ Ready(r)
         /\ Promoted(r)
         /\ failedRecving' = failedRecving \ {r}
         /\ finishedRecving' = finishedRecving \ {r}
  /\ UNCHANGED <<queueVars, stepVars, flight, sessionsWaiting, load, good,
                 compiled, spent>>

\* A load is begun: blocks for it, and back among the waiting.
StartLoad ==
  /\ Visiting
  /\ LET r == HeadRequest
     IN  /\ req[r].status \in {"WAITING", "PREEMPTED"}
         /\ req[r].computed = 0
         /\ \E n \in Offers[r] :
              /\ blocks' = [blocks EXCEPT ![r] = Grown(r, BlocksOf(n))]
              /\ load' = [load EXCEPT ![r] = [state |-> "loading", bad |-> {}]]
              /\ good' = [good EXCEPT ![r] = n]
              /\ req' = [req EXCEPT ![r].status = REMOTE, ![r].computed = n]
         /\ passed' = Append(passed, r)
  /\ Pop
  /\ UNCHANGED <<active, stage, batch, rowsLeft, failedNow, flight,
                 sessionsWaiting, recvVars, compiled, spent>>

Admit ==
  /\ Visiting
  /\ LET r == HeadRequest
     IN  /\ req[r].status \in {"WAITING", "PREEMPTED"}
         /\ blocks' = [blocks EXCEPT
                         ![r] = Grown(r, BlocksOf(req[r].tokens))]
         /\ good' = [good EXCEPT ![r] = IF @ >= req[r].computed
                                        THEN req[r].tokens ELSE @]
         /\ req' = [req EXCEPT ![r].status = "RUNNING"]
         /\ active' = Append(active, r)
         /\ batch' = batch \union {r}
  /\ Pop
  /\ UNCHANGED <<stage, passed, rowsLeft, failedNow, flight, sessionsWaiting,
                 recvVars, load, compiled, spent>>

\* allocate_slots finds no room for the head.
Refuse ==
  /\ Visiting
  /\ req[HeadRequest].status \in {"WAITING", "PREEMPTED"}
  /\ spent.refusals < MaxRefusals
  /\ spent' = [spent EXCEPT !.refusals = @ + 1]
  /\ stage' = "end"
  /\ UNCHANGED <<req, queueVars, passed, batch, rowsLeft, failedNow, flight,
                 sessionsWaiting, recvVars, kvVars, compiled>>

\* Those passed over go back in front; _update_after_schedule.
EndSchedule ==
  /\ stage = "end" \/ (stage = "waiting" /\ ~Visiting)
  /\ stage' = "idle"
  /\ skipped' = passed \o skipped
  /\ passed' = <<>>
  /\ req' = [r \in Requests |->
               IF r \notin batch THEN req[r]
               ELSE [req[r] EXCEPT !.computed = req[r].tokens + req[r].ph,
                                   !.ph = @ + 1]]
  /\ flight' = Append(flight, batch)
  /\ batch' = {}
  /\ UNCHANGED <<queue, active, rowsLeft, failedNow, sessionsWaiting, recvVars,
                 kvVars, compiled, spent>>

-----------------------------------------------------------------------------
(* The connector's worker, and the grammar backend.                        *)

BlockFails(r, i) ==
  /\ load[r].state = "loading"
  /\ spent.failures < MaxFailures
  /\ i \in 1..Cardinality(blocks[r]) \ load[r].bad
  /\ spent' = [spent EXCEPT !.failures = @ + 1]
  /\ load' = [load EXCEPT ![r].bad = @ \union {i}]
  /\ good' = [good EXCEPT ![r] = Min({@, (i - 1) * BlockSize})]
  /\ UNCHANGED <<req, queueVars, stepVars, flight, sessionsWaiting, recvVars,
                 blocks, compiled>>

LoadEnds(r) ==
  /\ load[r].state = "loading"
  /\ load' = [load EXCEPT ![r].state = "ended"]
  /\ UNCHANGED <<req, queueVars, stepVars, flight, sessionsWaiting, recvVars,
                 blocks, compiled, good, spent>>

GrammarReady(r) ==
  /\ r \in Structured \ compiled
  /\ compiled' = compiled \union {r}
  /\ UNCHANGED <<req, queueVars, stepVars, flight, sessionsWaiting, recvVars,
                 kvVars, spent>>

-----------------------------------------------------------------------------
(* update_from_output()                                                    *)

\* _update_requests_with_invalid_blocks, of requests that are loading.
Truncated(r) ==
  LET bad == {i \in load[r].bad : i <= BlocksOf(req[r].computed)}
  IN  IF bad = {} THEN req[r].computed ELSE (Min(bad) - 1) * BlockSize

\* _handle_invalid_blocks
BeginUpdate ==
  /\ stage = "idle"
  /\ flight # <<>>
  /\ stage' = "update"
  /\ LET hit == {r \in ToSet(skipped) : /\ req[r].status = REMOTE
                                        /\ Truncated(r) # req[r].computed}
     IN  /\ rowsLeft' = Head(flight)
         /\ failedNow' = IF Recompute THEN {} ELSE hit
         /\ failedRecving' = IF Recompute THEN failedRecving \union hit
                             ELSE failedRecving
         /\ req' = [r \in Requests |->
                      IF r \in hit THEN [req[r] EXCEPT !.computed = Truncated(r)]
                      ELSE req[r]]
  /\ load' = [r \in Requests |->
                [load[r] EXCEPT !.bad = {},
                                !.state = IF @ = "ended" THEN "reported" ELSE @]]
  /\ flight' = Tail(flight)
  /\ UNCHANGED <<queueVars, passed, batch, sessionsWaiting, finishedRecving,
                 blocks, compiled, good, spent>>

SkipRow(r) ==
  /\ stage = "update"
  /\ r \in rowsLeft
  /\ r \in failedNow \/ Gone(req[r].status)
  /\ rowsLeft' = rowsLeft \ {r}
  /\ UNCHANGED <<req, queueVars, stage, passed, batch, failedNow, flight,
                 sessionsWaiting, recvVars, kvVars, compiled, spent>>

\* The request as its new token leaves it.
Grew(r) == [req[r] EXCEPT !.tokens = @ + 1, !.ph = @ - 1]

MayGoOn(r) == req[r].tokens + 1 - req[r].prompt < MaxTokens[r]

Row(r) ==
  /\ stage = "update"
  /\ r \in rowsLeft
  /\ r \notin failedNow
  /\ ~Gone(req[r].status)
  /\ rowsLeft' = rowsLeft \ {r}
  /\ UNCHANGED <<stage, passed, batch, failedNow, flight, recvVars, load,
                 compiled, good, spent>>

GoOn(r) ==
  /\ Row(r)
  /\ MayGoOn(r)
  /\ req' = [req EXCEPT ![r] = Grew(r)]
  /\ UNCHANGED <<queueVars, sessionsWaiting, blocks>>

\* Fault: a request that stops is looked for among the running only.
RemovedFromRunning(r, q, s) ==
  active' = Without(active, {r}) /\ queue' = q /\ skipped' = s

\* Out of running, or out of waiting if the request was preempted.
Removed(r, q, s) ==
  /\ active' = Without(active, {r})
  /\ queue' = IF req[r].status = "RUNNING" THEN q ELSE Without(q, {r})
  /\ skipped' = s

\* _free_request, and out of the queues.
StopForGood(r) ==
  /\ Row(r)
  /\ r \notin Resumable \/ (req[r].inputs # <<>> /\ Head(req[r].inputs) = "end")
  /\ Freed({r})
  /\ Removed(r, queue, skipped)
  /\ UNCHANGED sessionsWaiting

\* _handle_stopped_request of a session without further input.
StopAndWait(r) ==
  /\ Row(r)
  /\ r \in Resumable /\ req[r].inputs = <<>>
  /\ req' = [req EXCEPT ![r] = [Grew(r) EXCEPT !.status = STREAMING]]
  /\ sessionsWaiting' = sessionsWaiting + 1
  /\ Removed(r, queue, Append(skipped, r))
  /\ UNCHANGED blocks

\* _handle_stopped_request of a session whose next input is there.
StopAndContinue(r) ==
  /\ Row(r)
  /\ r \in Resumable /\ req[r].inputs # <<>> /\ Head(req[r].inputs) = "input"
  /\ req' = [req EXCEPT ![r] = [NextInput(Grew(r), r) EXCEPT !.inputs = Tail(@)]]
  /\ sessionsWaiting' = sessionsWaiting
                        - IF req[r].status = STREAMING THEN 1 ELSE 0
  /\ Removed(r, Append(queue, r), skipped)
  /\ UNCHANGED blocks

\* finish_requests of what failed, if it is not to be recomputed.
FailLoads ==
  /\ stage = "update"
  /\ rowsLeft = {}
  /\ failedNow # {}
  /\ FinishRequests(failedNow)
  /\ failedNow' = {}
  /\ UNCHANGED <<stage, passed, batch, rowsLeft, flight, load, compiled, good,
                 spent>>

\* _update_from_kv_xfer_finished
EndUpdate ==
  /\ stage = "update"
  /\ rowsLeft = {} /\ failedNow = {}
  /\ \E sent \in SUBSET {r \in Senders : /\ req[r].status = "FINISHED"
                                         /\ load[r].state = "none"} :
       LET ended == {r \in Requests : load[r].state = "reported"}
           free  == sent \union {r \in ended : req[r].status # REMOTE}
       IN  /\ finishedRecving' = finishedRecving
                                 \union {r \in ended : req[r].status = REMOTE}
           /\ load' = [r \in Requests |-> IF r \in ended THEN NoLoad ELSE load[r]]
           /\ blocks' = [r \in Requests |-> IF r \in free THEN {} ELSE blocks[r]]
           /\ req' = [r \in Requests |->
                        IF r \in free THEN [req[r] EXCEPT !.status = "FREED"]
                        ELSE req[r]]
  /\ stage' = "idle"
  /\ UNCHANGED <<queueVars, passed, batch, rowsLeft, failedNow, flight,
                 sessionsWaiting, failedRecving, compiled, good, spent>>

-----------------------------------------------------------------------------
EngineStep ==
  \/ BeginSchedule \/ PassOver \/ Promote \/ StartLoad \/ Admit \/ Refuse
  \/ EndSchedule
  \/ BeginUpdate
  \/ \E r \in Requests : \/ SkipRow(r) \/ GoOn(r) \/ StopForGood(r)
                         \/ StopAndWait(r) \/ StopAndContinue(r)
  \/ FailLoads \/ EndUpdate

Client(r) ==
  AddRequest(r) \/ Abort(r) \/ \E kind \in {"input", "end"} : MoreInput(r, kind)

Backend(r) == LoadEnds(r) \/ GrammarReady(r)

BlockedNext ==
  /\ UNCHANGED setting
  /\ \/ EngineStep
     \/ \E r \in Requests : \/ Client(r) \/ Backend(r)
                            \/ \E i \in 1..Cardinality(blocks[r]) : BlockFails(r, i)

\* The engine loop runs while there is work, and the backends finish theirs.
BlockedSpec ==
  /\ BlockedInit
  /\ [][BlockedNext]_blockedVars
  /\ WF_blockedVars(EngineStep /\ UNCHANGED setting)
  /\ \A r \in Requests : WF_blockedVars(Backend(r) /\ UNCHANGED setting)

-----------------------------------------------------------------------------
(* Properties.                                                             *)

Places(r) ==
  Cardinality({i \in DOMAIN queue : queue[i] = r})
  + Cardinality({i \in DOMAIN skipped : skipped[i] = r})
  + Cardinality({i \in DOMAIN passed : passed[i] = r})

(***************************************************************************)
(* scheduler.py:794 raises RuntimeError("Invalid request status: ...") for *)
(* a request it meets among the waiting that does not wait: whatever was   *)
(* stopped, continued, aborted or loaded, an unfinished request stands in  *)
(* exactly one place, the one its status names, a finished one in none.    *)
(***************************************************************************)
OnePlaceEach ==
  \A r \in Requests :
    /\ Cardinality({i \in DOMAIN active : active[i] = r})
         = (IF req[r].status = "RUNNING" THEN 1 ELSE 0)
    /\ Places(r) = (IF Gone(req[r].status) \/ req[r].status = "RUNNING"
                    THEN 0 ELSE 1)
    /\ Blocked(req[r].status) => r \notin ToSet(queue)

(***************************************************************************)
(* Blocks that a load still writes to, or that are still being sent, stay  *)
(* with their request, aborted or not, and no two requests hold one block. *)
(***************************************************************************)
LoadsKeepBlocks ==
  /\ \A r \in Requests :
       /\ load[r].state # "none" => blocks[r] # {}
       /\ req[r].status = "FREED" => blocks[r] = {}
  /\ \A r, q \in Requests : r # q => blocks[r] \cap blocks[q] = {}

(***************************************************************************)
(* A request goes on from KV that is really there: no block that failed to *)
(* load is taken for loaded, and a whole prompt loaded still leaves one    *)
(* token to compute.                                                       *)
(***************************************************************************)
StartsFromLoaded ==
  \A r \in ToSet(active) : good[r] >= req[r].computed - req[r].ph

(***************************************************************************)
(* The engine may sleep exactly if every unfinished request is a session   *)
(* that waits for its client: get_num_unfinished_requests counts the       *)
(* others.                                                                 *)
(***************************************************************************)
SleepsOnlyForClients ==
  stage = "idle" =>
    (HasUnfinished <=> \E r \in Requests :
        ~Gone(req[r].status) /\ req[r].status # STREAMING)

(***************************************************************************)
(* scheduler.py:794, raise RuntimeError("Invalid request status: ..."):    *)
(* what schedule() admits from the waiting queues is WAITING or PREEMPTED. *)
(***************************************************************************)
AdmitsOnlyWaiting ==
  Visiting => \/ Blocked(req[HeadRequest].status)
              \/ req[HeadRequest].status \in {"WAITING", "PREEMPTED"}

(***************************************************************************)
(* Whoever waits for blocks or a grammar gets on, whether or not the load  *)
(* fails, and however many others are passed over.                         *)
(***************************************************************************)
BlockedGetOn ==
  \A r \in Requests :
    req[r].status \in {REMOTE, GRAMMAR, "WAITING", "PREEMPTED"}
      ~> req[r].status \notin {REMOTE, GRAMMAR, "WAITING", "PREEMPTED"}
=============================================================================
