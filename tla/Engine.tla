------------------------------- MODULE Engine -------------------------------
(***************************************************************************)
(* Scheduler and model runner together: the scheduler sends what it has    *)
(* scheduled, the runner executes it in order and answers, and             *)
(* update_from_output() works on that answer.  What Scheduler assumes of   *)
(* the worker (which rows return tokens, how many, which draft lengths) is *)
(* here what the runner does; what ModelRunner assumes of the scheduler is *)
(* what the scheduler sends.                                               *)
(*                                                                         *)
(* The two share nothing but their messages, so the runner is let run only *)
(* between two calls of the scheduler.                                     *)
(***************************************************************************)
EXTENDS Scheduler, FiniteSets

CONSTANTS
  DrafterMaxLen,    \* effective_drafter_max_model_len
  ForgetsRemoved    \* what InputBatch.remove_request does, see ModelRunner

\* reset_prefix_cache has runs of its own, of the scheduler alone.
ASSUME EngineAssumption == ResetModes = {} /\ NumSpecTokens > 0

VARIABLES
  inbox, outbox, requests, rows, prevIndex, sampled, gpuComputed, drafts,
  prefilled, execState, known, kvLen,   \* those of ModelRunner
  prevStep,      \* prev_step_scheduled_req_ids
  newReqs,       \* scheduled_new_reqs of the step in progress
  resumedReqs    \* scheduled_resumed_reqs of the step in progress

Runner == INSTANCE ModelRunner

runnerVars == <<inbox, outbox, requests, rows, prevIndex, sampled,
                gpuComputed, drafts, prefilled, execState, known, kvLen>>
admitVars == <<newReqs, resumedReqs>>
engineVars == <<vars, runnerVars, prevStep, admitVars>>

EngineInit ==
  /\ Init
  /\ Runner!RunnerInit
  /\ prevStep = {}
  /\ newReqs = {}
  /\ resumedReqs = {}

-----------------------------------------------------------------------------
(* schedule(), and the SchedulerOutput it ends with.                       *)

Begin ==
  /\ BeginSchedule
  /\ newReqs' = {}
  /\ resumedReqs' = {}
  /\ UNCHANGED <<runnerVars, prevStep>>

RunningLoop ==
  /\ SkipRunning \/ ScheduleRunning \/ PreemptLast \/ EndRunning
  /\ UNCHANGED <<runnerVars, prevStep, admitVars>>

\* A request in status WAITING is new to the worker, a PREEMPTED one is not.
AdmitHead ==
  /\ Admit
  /\ LET r == Head(waiting)
     IN  IF req[r].status = "WAITING"
         THEN newReqs' = newReqs \union {r} /\ UNCHANGED resumedReqs
         ELSE resumedReqs' = resumedReqs \union {r} /\ UNCHANGED newReqs
  /\ UNCHANGED <<runnerVars, prevStep>>

\* num_output_tokens as the worker will have cached them.
OutputTokens(r) == req[r].out + req[r].ph

\* Fault: only the resumed get their token ids sent.
AllTokensOfResumed == resumedReqs

\* all_token_ids: cached requests that were not in the step before.
AllTokenIds == Scheduled \ (newReqs \union prevStep)

\* _make_cached_request_data, and the NewRequestData.
Output ==
  [n        |-> sched,
   spec     |-> schedSpec,
   computed |-> [r \in Requests |-> req[r].computed],
   out      |-> [r \in Requests |-> req[r].out],
   outputs  |-> [r \in Requests |-> OutputTokens(r)],
   new      |-> newReqs,
   resumed  |-> resumedReqs,
   all      |-> AllTokenIds,
   finished |-> finishedReqIds]

Send ==
  /\ EndSchedule
  /\ inbox' = Append(inbox, Output)
  /\ prevStep' = Scheduled
  /\ newReqs' = {}
  /\ resumedReqs' = {}
  /\ UNCHANGED <<outbox, requests, rows, prevIndex, sampled, gpuComputed,
                 drafts, prefilled, execState, known, kvLen>>

-----------------------------------------------------------------------------
Execute ==
  /\ phase = "idle"
  /\ Runner!RunnerStep
  /\ UNCHANGED <<vars, prevStep, admitVars>>

-----------------------------------------------------------------------------
(* update_from_output(), on the answer of the runner.                      *)

Receive ==
  /\ BeginUpdate
  /\ outbox # <<>>
  /\ UNCHANGED <<runnerVars, prevStep, admitVars>>

\* draft_token_lengths.get(req_id): the record keeps its own without one.
LengthFor(r, record) ==
  IF Head(outbox).lengths = <<>> THEN record.spec ELSE Head(outbox).lengths[r]

\* One row of the output: the tokens generated, trimmed where they stop.
UpdateRow(r) ==
  /\ Visit(r)
  /\ req[r].status # "FINISHED"
  /\ LET generated == Head(outbox).generated[r]
     IN  \/ /\ generated = 0
            /\ req' = [req EXCEPT ![r] = Resized(@, 0, LengthFor(r, @))]
            /\ UNCHANGED <<queueVars, kvVars, finishedReqIds>>
         \/ /\ generated > 0
            /\ \E kept \in 1..generated :
                 LET record == [Corrected(r, generated) EXCEPT
                                  !.out = @ + kept, !.ph = @ - kept]
                 IN  \/ /\ StopsAfter(r, generated, kept, TRUE)
                        /\ req' = [req EXCEPT ![r] = Finished(record)]
                        /\ LeaveEngine(r)
                     \/ /\ StopsAfter(r, generated, kept, FALSE)
                        /\ req' = [req EXCEPT ![r] =
                             Resized(record, kept, LengthFor(r, record))]
                        /\ UNCHANGED <<queueVars, kvVars, finishedReqIds>>
  /\ UNCHANGED <<pauseState, frames, phase, stepVars, runnerVars, prevStep,
                 admitVars>>

SkipRow(r) ==
  /\ SkipFinished(r)
  /\ UNCHANGED <<runnerVars, prevStep, admitVars>>

EndReceive ==
  /\ EndUpdate
  /\ outbox' = Tail(outbox)
  /\ UNCHANGED <<inbox, requests, rows, prevIndex, sampled, gpuComputed,
                 drafts, prefilled, execState, known, kvLen, prevStep,
                 admitVars>>

Outside ==
  /\ ClientStep \/ (\E p \in PauseStates : SetPauseState(p))
  /\ UNCHANGED <<runnerVars, prevStep, admitVars>>

EngineNext ==
  \/ Begin
  \/ RunningLoop
  \/ AdmitHead
  \/ Send
  \/ Execute
  \/ Receive
  \/ \E r \in Requests : UpdateRow(r) \/ SkipRow(r)
  \/ EndReceive
  \/ Outside

EngineSpec == EngineInit /\ [][EngineNext]_engineVars

-----------------------------------------------------------------------------
(* Properties.                                                             *)

(***************************************************************************)
(* With the real runner at the other end, the scheduler takes only steps   *)
(* of Scheduler: a row returns tokens exactly if the scheduler counted on  *)
(* it, never more than its drafts and one, whatever the runner discarded.  *)
(* All that is shown of Scheduler holds of the engine.                     *)
(***************************************************************************)
SchedulerSpec == Init /\ [][Next]_vars

\* What row i of the batch in execution is fed.
Fed(i) ==
  LET m == execState.m
      last == Runner!CuNumTokens(m, rows, i)
  IN  [j \in 1..m.n[rows[i]] |-> execState.ids[last - m.n[rows[i]] + j]]

(***************************************************************************)
(* Every row goes on at the first position its request has no KV for, and  *)
(* is fed the token that stands there: of the prompt, of the outputs read  *)
(* back after a preemption, or the one sampled in the previous step, from  *)
(* another row and before the CPU has seen it.  The drafts it verifies are *)
(* those made for that request and those positions, or zeros; only a       *)
(* request the last batch left out verifies the placeholder -1.  A row     *)
(* that ends before the last token of its request is discarded, and no     *)
(* other.                                                                  *)
(***************************************************************************)
InputsRight ==
  execState # <<>> =>
    \A i \in DOMAIN rows :
      LET r     == rows[i]
          start == gpuComputed[i]
          plain == execState.m.n[r] - execState.m.spec[r]
      IN  /\ start = kvLen[r]
          /\ \A j \in 1..plain : Fed(i)[j] = <<r, start + j - 1>>
          /\ \A j \in 1..execState.m.spec[r] :
               Runner!VerifiedIds(execState.m, execState.ids, rows, i)[j]
                 \in {<<r, start + plain + j - 1>>,
                      IF i \in execState.common THEN Runner!Zero
                      ELSE Runner!Placeholder}
          /\ IF i \in execState.discarded THEN start + plain < known[r]
             ELSE start + plain = known[r]

(***************************************************************************)
(* When the scheduler's num_computed_tokens runs ahead of what the         *)
(* previous step accepted, the correction after the forward brings the CPU *)
(* to where the GPU started, which it knows by another path: the counts of *)
(* the previous step, by previous row.                                     *)
(***************************************************************************)
AheadIsCorrected ==
  execState # <<>> =>
    \A i \in DOMAIN rows :
      LET r == rows[i]
      IN  execState.m.computed[r] # gpuComputed[i]
            => requests[r].computed = gpuComputed[i]

(***************************************************************************)
(* What the scheduler sends suffices: a request that has no row any more   *)
(* comes with its token ids (all_token_ids[req_id]), none of them still a  *)
(* placeholder, and every cached request is one the worker knows.          *)
(***************************************************************************)
HandoverComplete ==
  execState = <<>> /\ inbox # <<>> =>
    LET m == Head(inbox)
        cachedReqs == Runner!InStep(m) \ m.new
    IN  /\ cachedReqs \subseteq DOMAIN requests
        /\ \A r \in cachedReqs \ Runner!KeepRow(m) :
             m.outputs[r] > 0 => r \in m.all /\ m.outputs[r] = m.out[r]

(***************************************************************************)
(* gpu_model_runner.py:1818-1819: "No requests in common with the previous *)
(* iteration.  So input_ids.cpu will have all the input ids."              *)
(***************************************************************************)
CpuHasAllIds ==
  execState # <<>> /\ execState.common = {} =>
    \A k \in DOMAIN execState.ids : execState.ids[k] # Runner!Placeholder

=============================================================================
