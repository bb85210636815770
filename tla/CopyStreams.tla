---------------------------- MODULE CopyStreams ----------------------------
(***************************************************************************)
(* What the model runner and the GPU do at the same time                   *)
(* (docker/overlay/vllm/v1/worker/gpu_model_runner.py, asynchronous        *)
(* scheduling with DSpark drafts).  The runner only queues work: a stream  *)
(* works off its operations in order, streams among themselves run in any  *)
(* order that their waits and the runner's events allow.  The default      *)
(* stream computes; three others copy sampled counts, draft tokens and     *)
(* sampled tokens back.                                                    *)
(*                                                                         *)
(* The input buffers, the count buffer and the draft buffer of the host    *)
(* are allocated once and reused by every step; the sampled tokens get a   *)
(* new one each step.  The content of a buffer is the step it is of.       *)
(***************************************************************************)
EXTENDS Integers, Sequences

CONSTANTS
  MaxSteps,     \* bound: steps executed
  MaxUnread,    \* outputs the engine leaves unread, batch_queue_size
  DrafterFits   \* what input_fits_in_drafter may be

VARIABLES
  next,        \* what the runner does next: "execute", "correct", "sample"
  step,        \* the step it is at
  drafted,     \* whether the step has draft tokens to verify
  queue,       \* operations a stream has not executed
  ran,         \* operations a stream has executed
  event,       \* where its stream was when an event was last recorded
  host,        \* the reused buffers of the host
  device,      \* what the default stream computed with or left
  counted,     \* prev_sampled_token_ids is set: step of the counts, or None
  draftsOf,    \* _draft_token_req_ids is set: step of the drafts, or None
  outputs,     \* AsyncGPUModelRunnerOutputs not read: step and event
  read         \* the last thing read on the host

streamVars == <<next, step, drafted, queue, ran, event, host, device, counted,
                draftsOf, outputs, read>>

Streams == {"default", "counts", "drafts", "output"}
None == 0
Zeros == -1      \* the content of a draft buffer of zeros

\* What is copied back: before the default stream computed it, anything else.
Computed(what, n) == IF n \in device[what] THEN n ELSE None

StreamsInit ==
  /\ next = "execute" /\ step = 0 /\ drafted = FALSE
  /\ queue = [s \in Streams |-> <<>>]
  /\ ran = [s \in Streams |-> 0]
  /\ event = [e \in {"inputs", "counts", "drafts"} |-> 0]
  /\ host = [inputs |-> None, counts |-> None, drafts |-> None]
  /\ device = [inputs |-> {}, sampled |-> {}, drafted |-> {}, torn |-> {}]
  /\ counted = None /\ draftsOf = None
  /\ outputs = <<>>
  /\ read = [what |-> "drafts", of |-> None, got |-> None]

Issued(q, s) == ran[s] + Len(q[s])
Put(q, s, op) == [q EXCEPT ![s] = Append(@, op)]

\* stream.wait_stream(default_stream), and a copy after that.
PutCopy(q, s, n) == Put(q, s, [do |-> s, of |-> n, after |-> Issued(q, "default")])
PutWork(q, what, n) == Put(q, "default", [do |-> what, of |-> n, after |-> 0])

Reached(position, s) == ran[s] >= position

-----------------------------------------------------------------------------
\* Fault: the buffers are written again at once.
ReuseInputsAtOnce == TRUE

(***************************************************************************)
(* execute_model() up to the launch of the forward: synchronize_input_prep *)
(* waits until the copies of the previous step's inputs were executed,     *)
(* writes the buffers, queues their copies and records where that was.     *)
(***************************************************************************)
InputsReusable == Reached(event.inputs, "default")

ExecuteModel ==
  /\ next = "execute" /\ step < MaxSteps
  /\ Len(outputs) < MaxUnread
  /\ InputsReusable
  /\ LET copied == PutWork(queue, "inputs", step + 1)
     IN /\ queue' = PutWork(copied, "forward", step + 1)
        /\ event' = [event EXCEPT !.inputs = Issued(copied, "default")]
  /\ host' = [host EXCEPT !.inputs = step + 1]
  /\ step' = step + 1
  /\ drafted' \in IF step = 0 THEN {FALSE} ELSE BOOLEAN
  /\ next' \in IF drafted /\ counted # None THEN {"correct", "sample"}
               ELSE {"sample"}
  /\ UNCHANGED <<ran, device, counted, draftsOf, outputs, read>>

(***************************************************************************)
(* The deferred correction of num_computed_tokens, if a request with       *)
(* drafts of the previous step is still there: it waits for the counts.    *)
(***************************************************************************)
Correct ==
  /\ next = "correct"
  /\ Reached(event.counts, "counts")
  /\ read' = [what |-> "counts", of |-> counted, got |-> host.counts]
  /\ next' = "sample"
  /\ UNCHANGED <<step, drafted, queue, ran, event, host, device, counted,
                 draftsOf, outputs>>

\* _get_draft_token_ids_cpu()
DraftsReady == Reached(event.drafts, "drafts")
DraftsRead == [what |-> "drafts", of |-> draftsOf, got |-> host.drafts]

(***************************************************************************)
(* take_draft_token_ids(), which the engine calls for the grammar of the   *)
(* step before its sample_tokens().                                        *)
(***************************************************************************)
TakeDrafts ==
  /\ next = "sample" /\ draftsOf # None
  /\ DraftsReady
  /\ read' = DraftsRead
  /\ UNCHANGED <<next, step, drafted, queue, ran, event, host, device,
                 counted, draftsOf, outputs>>

(***************************************************************************)
(* _copy_draft_token_ids_to_cpu(): a copy on the stream of the drafts, or, *)
(* if the drafter did not run, zeros written by the runner there and then. *)
(* Either way the event is recorded on that stream.                        *)
(***************************************************************************)
CopyDrafts(q, fits) ==
  LET copied == IF fits THEN PutCopy(q, "drafts", step) ELSE q
  IN /\ queue' = PutCopy(copied, "output", step)
     /\ host' = IF fits THEN host ELSE [host EXCEPT !.drafts = Zeros]
     /\ event' = [event EXCEPT !.counts = Issued(q, "counts"),
                               !.drafts = Issued(copied, "drafts")]
     /\ draftsOf' = IF fits THEN step ELSE -step

\* Nobody on the host will want these drafts.
CopyNoDrafts(q) ==
  /\ queue' = PutCopy(q, "output", step)
  /\ event' = [event EXCEPT !.counts = Issued(q, "counts")]
  /\ draftsOf' = None
  /\ UNCHANGED host

(***************************************************************************)
(* sample_tokens(): verify the drafts, which reads those of the previous   *)
(* step if they were copied; forget what the previous step left; copy the  *)
(* counts, draft, copy the drafts, and the sampled tokens last.            *)
(***************************************************************************)
SampleTokens ==
  /\ next = "sample"
  /\ IF drafted /\ draftsOf # None
     THEN DraftsReady /\ read' = DraftsRead
     ELSE UNCHANGED read
  /\ \E fits \in DrafterFits, wanted \in BOOLEAN :
       LET sampled == PutWork(queue, "sample", step)
           counting == PutCopy(sampled, "counts", step)
           drafting == IF fits THEN PutWork(counting, "draft", step)
                       ELSE counting
       IN IF wanted THEN CopyDrafts(drafting, fits) ELSE CopyNoDrafts(drafting)
  /\ counted' = step
  /\ outputs' = Append(outputs, [of |-> step, event |-> Issued(queue, "output") + 1])
  /\ next' = "execute"
  /\ UNCHANGED <<step, drafted, ran, device>>

(***************************************************************************)
(* AsyncGPUModelRunnerOutput.get_output(), on the engine's side.  Its host *)
(* buffer is its own: once copied it holds what the step sampled.          *)
(***************************************************************************)
GetOutput ==
  /\ outputs # <<>>
  /\ Reached(outputs[1].event, "output")
  /\ read' = [what |-> "output", of |-> outputs[1].of,
              got |-> Computed("sampled", outputs[1].of)]
  /\ outputs' = Tail(outputs)
  /\ UNCHANGED <<next, step, drafted, queue, ran, event, host, device,
                 counted, draftsOf>>

-----------------------------------------------------------------------------
(***************************************************************************)
(* The GPU executes the next operation of a stream.                        *)
(***************************************************************************)
Compute(op) ==
  /\ device' = CASE op.do = "inputs" ->
                      IF host.inputs = op.of
                      THEN [device EXCEPT !.inputs = {op.of}]
                      ELSE [device EXCEPT !.inputs = {}, !.torn = @ \cup {op.of}]
                 [] op.do = "sample" -> [device EXCEPT !.sampled = @ \cup {op.of}]
                 [] op.do = "draft" -> [device EXCEPT !.drafted = @ \cup {op.of}]
                 [] op.do = "forward" -> device
  /\ UNCHANGED host

Copy(op) ==
  /\ host' = CASE op.do = "counts" -> [host EXCEPT !.counts = Computed("sampled", op.of)]
               [] op.do = "drafts" -> [host EXCEPT !.drafts = Computed("drafted", op.of)]
               [] op.do = "output" -> host
  /\ UNCHANGED device

Gpu(s) ==
  /\ queue[s] # <<>>
  /\ Reached(queue[s][1].after, "default")
  /\ IF s = "default" THEN Compute(queue[s][1]) ELSE Copy(queue[s][1])
  /\ queue' = [queue EXCEPT ![s] = Tail(@)]
  /\ ran' = [ran EXCEPT ![s] = @ + 1]
  /\ UNCHANGED <<next, step, drafted, event, counted, draftsOf, outputs, read>>

StreamsNext ==
  \/ ExecuteModel
  \/ Correct
  \/ TakeDrafts
  \/ SampleTokens
  \/ GetOutput
  \/ \E s \in Streams : Gpu(s)

StreamsSpec == StreamsInit /\ [][StreamsNext]_streamVars

-----------------------------------------------------------------------------
(***************************************************************************)
(* Every forward computes with the inputs of its own step: the copy to the *)
(* GPU, which the stream executes long after _prepare_inputs queued it,    *)
(* never finds the next step's inputs in the buffers.                      *)
(***************************************************************************)
InputsUntorn == device.torn = {}

(***************************************************************************)
(* What the runner or the engine reads on the host is of the step it is    *)
(* read for: counts, drafts and outputs, whose copies no one waited for    *)
(* when they were queued.  Drafts of a step that did not draft are zeros:  *)
(* "Zero out draft tokens so the scheduler doesn't schedule stale drafts   *)
(* from the previous step." (gpu_model_runner.py:4675-4676).               *)
(***************************************************************************)
ReadsOfTheirStep == read.got = IF read.of < 0 THEN Zeros ELSE read.of

(***************************************************************************)
(* Both: no buffer that is used again is read with another step's content, *)
(* neither by the forward nor on the host.                                 *)
(***************************************************************************)
BuffersOfTheirStep == InputsUntorn /\ ReadsOfTheirStep

=============================================================================
