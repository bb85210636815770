-------------------------- MODULE EnginePositions --------------------------
(***************************************************************************)
(* Where each request is: by the count of the scheduler, by that of the    *)
(* GPU (gpuComputed), and by the positions whose KV was computed (kvLen),  *)
(* while drafts are in flight that no side has judged.  For every number   *)
(* of requests, blocks and drafts, the three agree; and so do the tokens,  *)
(* so that every row is fed its own, from wherever they have to be read.   *)
(***************************************************************************)
EXTENDS Engine_proofs

-----------------------------------------------------------------------------
(* Positions.                                                              *)

FromPrefix(m) == m.new \union m.resumed

\* What all frames keep num_computed_tokens of r ahead of the worker.
Lead(r) == (IF Len(frames) >= 1 THEN Share(1, r) ELSE 0)
           + (IF Len(frames) >= 2 THEN Share(2, r) ELSE 0)

\* Where the worker is with r, or will be when it takes r up (again).
Base(r) ==
  IF Len(inbox) >= 2 /\ r \in FromPrefix(inbox[2]) THEN inbox[2].computed[r]
  ELSE IF Len(inbox) >= 1 /\ r \in FromPrefix(inbox[1])
  THEN inbox[1].computed[r]
  ELSE kvLen[r]

Admitted == newReqs \union resumedReqs

\* num_computed_tokens of a running request is the position of the worker,
\* all drafts in flight taken for accepted.
Ahead ==
  /\ kvLen \in [Requests -> Int]
  /\ \A r \in Requests :
       /\ req[r].status = "RUNNING" /\ r \notin Admitted =>
            req[r].computed = Base(r) + Lead(r)
       /\ req[r].status \in {"NEW", "WAITING"} => Absent(r)
  /\ Admitted \subseteq Scheduled
  /\ \A r \in Admitted : Absent(r)

\* Drafts ride on the one token of a decode, which samples.
Drafted(m) ==
  \A r \in Requests :
    m.spec[r] > 0 => m.n[r] = m.spec[r] + 1 /\ r \in Emitting(m)

\* The GPU's count is of the positions whose KV was computed: where a row
\* started, and what was accepted since.
Grounded ==
  /\ Executing =>
       /\ Drafted(execState.m)
       /\ \A i \in DOMAIN rows :
            /\ i \in DOMAIN gpuComputed
            /\ gpuComputed[i] = kvLen[rows[i]]
            /\ requests[rows[i]].prevDraft = execState.m.spec[rows[i]]
  /\ ~Executing =>
       \A r \in ToSet(rows) :
         /\ requests[r].prevDraft > 0 =>
              /\ sampled # <<>> /\ r \in DOMAIN prevIndex /\ prevIndex[r] > 0
              /\ gpuComputed[prevIndex[r]] \in Int
              /\ kvLen[r] = gpuComputed[prevIndex[r]]
                            + sampled.count[prevIndex[r]]
         /\ outbox # <<>> =>
              /\ frames[Len(outbox)].spec[r] = requests[r].prevDraft
              /\ requests[r].prevDraft > 0 =>
                   /\ r \in frames[Len(outbox)].emits
                   /\ outbox[Len(outbox)].generated[r] =
                        sampled.count[prevIndex[r]]

\* The k-th message on its way takes up only requests in no step before it.
Apart(k) ==
  \A r \in FromPrefix(inbox[k]) :
    \A j \in 1..(Len(frames) - Len(inbox) + k - 1) : frames[j].n[r] = 0

\* Where a row of the k-th message on its way says that it starts.
Placed(k) ==
  LET m == inbox[k]
  IN  /\ Drafted(m)
      /\ FromPrefix(m) \subseteq RowsOf(m) /\ Apart(k)
      /\ \A r \in RowsOf(m) \ FromPrefix(m) :
           IF k = 1
           THEN IF Executing
                THEN m.computed[r] = kvLen[r] + execState.m.n[r]
                ELSE \/ m.computed[r] = kvLen[r]
                     \/ /\ r \in ToSet(rows) /\ requests[r].prevDraft > 0
                        /\ m.computed[r] = gpuComputed[prevIndex[r]] + 1
                                           + requests[r].prevDraft
           ELSE m.computed[r] = inbox[k - 1].n[r]
                  + (IF r \in FromPrefix(inbox[k - 1])
                     THEN inbox[k - 1].computed[r] ELSE kvLen[r])

Grounds == Grounded /\ (\A k \in 1..Len(inbox) : Placed(k)) /\ AheadIsCorrected

Positions == Ahead /\ Grounds

-----------------------------------------------------------------------------
(* Between two calls of the runner.                                        *)

LEMMA LeadFacts ==
  ASSUME Shape, FramesSound, Pipeline, NEW r \in Requests
  PROVE  /\ Lead(r) \in Int
         /\ Absent(r) => Lead(r) = 0
<1>1. \A k \in 1..Len(frames) :
        Share(k, r) \in Int /\ (frames[k].n[r] = 0 => Share(k, r) = 0)
  BY ShareFacts
<1>2. Len(frames) \in {0, 1, 2}
  BY FramesLen
<1>3. /\ Len(frames) >= 1 => 1 \in 1..Len(frames)
      /\ Len(frames) >= 2 => 2 \in 1..Len(frames)
  BY <1>2
<1> QED BY <1>1, <1>3 DEF Lead, Absent

LEMMA BaseType ==
  ASSUME Shape, Pipeline, Ahead, NEW r \in Requests
  PROVE  Base(r) \in Int
<1>1. \A k \in 1..Len(inbox) : inbox[k].computed[r] \in Int
  BY Stages, MessageFacts
<1>2. /\ Len(inbox) >= 2 => 2 \in 1..Len(inbox)
      /\ Len(inbox) >= 1 => 1 \in 1..Len(inbox)
  BY Stages
<1> QED BY <1>1, <1>2 DEF Base, Ahead

LEMMA AheadKept ==
  ASSUME Ahead, UNCHANGED <<kvLen, inbox, frames>>,
         \A r \in Requests :
           req'[r].status = "RUNNING" /\ r \notin Admitted' =>
             /\ req[r].status = "RUNNING" /\ r \notin Admitted
             /\ req[r].computed = Base(r) + Lead(r) =>
                  req'[r].computed = Base(r) + Lead(r)',
         \A r \in Requests :
           req'[r].status \in {"NEW", "WAITING"} =>
             req[r].status \in {"NEW", "WAITING"},
         Admitted' \subseteq Scheduled',
         \A r \in Admitted' : Absent(r)
  PROVE  Ahead'
<1>1. \A r \in Requests : Base(r)' = Base(r)
  BY DEF Base
<1>2. \A r \in Requests : Absent(r)' <=> Absent(r)
  BY DEF Absent
<1>3. Admitted' \subseteq Requests
  BY DEF Scheduled
<1> QED BY <1>1, <1>2, <1>3 DEF Ahead

\* A step that leaves the records and the share of each frame alone.
LEMMA SameLead ==
  ASSUME UNCHANGED <<frames, outbox>>,
         NEW r \in Requests,
         (phase' = "update" => r \in todo') <=> (phase = "update" => r \in todo)
  PROVE  Lead(r)' = Lead(r)
<1>1. Share(1, r)' = Share(1, r) /\ Share(2, r)' = Share(2, r)
  BY DEF Share
<1> QED BY <1>1 DEF Lead

LEMMA BeginAhead ==
  ASSUME EInv, Ahead, Begin \/ Receive
  PROVE  Ahead'
<1>1. /\ Shape /\ Ledger /\ Pipeline /\ NextDeliverable /\ FramesSound
  BY DEF EInv, IInv, Ledger
<1>2. /\ UNCHANGED <<kvLen, inbox, outbox, frames, req>> /\ phase = "idle"
  BY DEF Begin, Receive, BeginSchedule, BeginUpdate, runnerVars
<1>3. Admitted = {} /\ Admitted' = {}
  BY <1>1, <1>2 DEF NextDeliverable, Admitted, Begin, Receive, admitVars
<1>4. ASSUME NEW r \in Requests
      PROVE  Lead(r)' = Lead(r)
  <2>1. CASE Begin
    <3>1. phase' = "running"
      BY <2>1 DEF Begin, BeginSchedule
    <3> QED BY <1>2, <3>1, SameLead
  <2>2. CASE Receive
    <3>1. /\ phase' = "update" /\ frames # <<>>
          /\ todo' = {q \in Requests : Head(frames).n[q] > 0}
      BY <2>2 DEF Receive, BeginUpdate
    <3>2. CASE r \in todo'
      BY <1>2, <3>2, SameLead
    <3>3. CASE r \notin todo'
      <4>1. 1 \in 1..Len(frames) /\ 1 \in DOMAIN frames /\ Head(frames) = frames[1]
        BY <1>1, <3>1, FramesLen
      <4>2. r \notin frames[1].emits
        BY <1>1, <3>1, <3>3, <4>1 DEF FramesSound
      <4>3. Share(1, r)' = Share(1, r) /\ Share(2, r)' = Share(2, r)
        BY <1>2, <4>2 DEF Share
      <4> QED BY <1>2, <4>3 DEF Lead
    <3> QED BY <3>2, <3>3
  <2> QED BY <2>1, <2>2
<1> QED BY <1>2, <1>3, <1>4, AheadKept

LEMMA RunningLoopAhead ==
  ASSUME EInv, Ahead, RunningLoop
  PROVE  Ahead'
<1>1. /\ Shape /\ Queued /\ Pipeline /\ NextDeliverable
  BY DEF EInv, IInv
<1>2. /\ UNCHANGED <<kvLen, inbox, outbox, newReqs, resumedReqs>>
  BY DEF RunningLoop, runnerVars, admitVars
<1>3. /\ phase = "running" /\ phase' # "update" /\ frames' = frames
  BY DEF RunningLoop, SkipRunning, ScheduleRunning, PreemptLast, EndRunning,
     InRunningLoop
<1>4. Admitted = {} /\ Admitted' = {}
  BY <1>1, <1>2, <1>3 DEF NextDeliverable, Admitted
<1>5. \A r \in Requests : Lead(r)' = Lead(r)
  BY <1>2, <1>3, SameLead
<1>6. \A r \in Requests :
        /\ req'[r].status = "RUNNING" =>
             req[r].status = "RUNNING" /\ req'[r].computed = req[r].computed
        /\ req'[r].status \in {"NEW", "WAITING"} =>
             req[r].status \in {"NEW", "WAITING"}
  <2>1. CASE SkipRunning \/ EndRunning
    BY <2>1 DEF SkipRunning, EndRunning
  <2>2. CASE ScheduleRunning
    <3>1. PICK q \in Requests : q = running[cursor]
      BY <1>1, <2>2, RunningRequest DEF ScheduleRunning
    <3>2. req' = [req EXCEPT ![q].spec = 0] /\ req[q] \in ShapedRecord
      BY <1>1, <2>2, <3>1 DEF ScheduleRunning, Shape
    <3>3. req'[q].status = req[q].status /\ req'[q].computed = req[q].computed
      BY <1>1, <3>2 DEF Shape, ShapedRecord
    <3>4. \A r \in Requests : r # q => req'[r] = req[r]
      BY <1>1, <3>2 DEF Shape
    <3> QED BY <3>3, <3>4
  <2>3. CASE PreemptLast
    <3>1. PICK q : q = Last(running)
      OBVIOUS
    <3>2. req' = [req EXCEPT ![q] = Preempted(req[q])]
      BY <2>3, <3>1 DEF PreemptLast
    <3>3. Preempted(req[q]).status = "PREEMPTED"
      BY DEF Preempted
    <3> QED BY <1>1, <3>2, <3>3 DEF Shape
  <2> QED BY <2>1, <2>2, <2>3 DEF RunningLoop
<1> QED BY <1>2, <1>3, <1>4, <1>5, <1>6, AheadKept

LEMMA AdmitHeadAhead ==
  ASSUME EInv, Ahead, AdmitHead
  PROVE  Ahead'
<1>1. /\ Shape /\ Queued /\ Ledger /\ Pipeline /\ NextDeliverable /\ InWaitingLoop
  BY DEF EInv, IInv, AdmitHead, Admit
<1>2. PICK r \in Requests :
        r = Head(waiting) /\ req[r].status \in {"WAITING", "PREEMPTED"}
  BY <1>1, WaitingRequest
<1>3. PICK hit \in CachedPrefixes(r), n \in Int :
        /\ n = NumPrefillTokens(r, hit) /\ hit \in Int /\ 0 <= hit
        /\ sched' = [sched EXCEPT ![r] = n]
        /\ req' = [req EXCEPT ![r].status = "RUNNING", ![r].computed = hit]
  BY <1>1, <1>2, WaitingRequest DEF AdmitHead, Admit
<1>4. /\ UNCHANGED <<kvLen, inbox, outbox, frames, phase>>
      /\ phase = "waiting" /\ preempted = {} /\ budget > 0
  BY <1>1 DEF AdmitHead, Admit, runnerVars, InWaitingLoop
<1>5. Admitted' = Admitted \union {r}
  BY <1>2 DEF AdmitHead, Admitted
<1>6. n > 0
  <2>1. /\ NumTokens(r) \in Int /\ NumTokens(r) > 0
        /\ budget \in Int /\ LongPrefillThreshold \in Int
    BY <1>1, Numbers
  <2>2. hit < NumTokens(r)
    BY <1>3, <2>1 DEF CachedPrefixes
  <2>3. n = Least(Capped(NumTokens(r) - hit), budget)
    BY <1>3 DEF NumPrefillTokens
  <2> QED BY <1>3, <1>4, <2>1, <2>2, <2>3 DEF Least, Capped
<1>7. /\ req'[r].status = "RUNNING"
      /\ \A q \in Requests : q # r => req'[q] = req[q]
  <2>1. req \in [Requests -> ShapedRecord] /\ req[r] \in ShapedRecord
    BY <1>1 DEF Shape
  <2> QED BY <1>3, <2>1 DEF ShapedRecord
<1>8. Admitted' \subseteq Scheduled'
  <2>1. \A q \in Admitted : q \in Requests /\ sched[q] > 0
    BY DEF Ahead, Scheduled
  <2>2. \A q \in Requests : sched'[q] = IF q = r THEN n ELSE sched[q]
    BY <1>1, <1>3 DEF Shape
  <2> QED BY <1>5, <1>6, <2>1, <2>2 DEF Scheduled
<1>9. Absent(r)
  <2>1. CASE req[r].status = "WAITING"
    BY <2>1 DEF Ahead
  <2>2. CASE req[r].status = "PREEMPTED"
    <3>1. r \notin prevStep
      BY <1>1, <1>4, <2>2 DEF NextDeliverable
    <3>2. SUFFICES ASSUME NEW k \in 1..Len(frames)
                   PROVE  frames[k].n[r] = 0
      BY DEF Absent
    <3>3. Len(frames) = 1 /\ k = Len(frames) /\ frames # <<>>
      <4>1. Len(frames) < 2 /\ Len(frames) \in {0, 1, 2}
        BY <1>1, <1>4, FramesLen DEF Shape
      <4>2. frames # <<>>
        BY Len(<<>>) = 0, 1..0 = {}
      <4> QED BY <4>1, <4>2
    <3>4. ~(frames[k].n[r] > 0)
      BY <1>1, <3>1, <3>3 DEF NextDeliverable, RowsOf
    <3>5. frames[k].n[r] \in Int /\ frames[k].n[r] >= 0
      <4>1. k \in DOMAIN frames
        BY <1>1, FramesLen
      <4>2. frames[k] \in ShapedFrame
        BY <1>1, OwedFacts DEF Ledger
      <4> QED BY <1>1, <4>1, <4>2 DEF Ledger, FramesSound, ShapedFrame
    <3> QED BY <3>4, <3>5
  <2> QED BY <1>2, <2>1, <2>2
<1>10. \A q \in Admitted' : Absent(q)
  BY <1>5, <1>9 DEF Ahead
<1>11. \A q \in Requests : Lead(q)' = Lead(q)
  BY <1>4, SameLead
<1>12. \A q \in Requests :
         req'[q].status = "RUNNING" /\ q \notin Admitted' =>
           /\ req[q].status = "RUNNING" /\ q \notin Admitted
           /\ req'[q].computed = req[q].computed
  BY <1>5, <1>7
<1> QED BY <1>2, <1>4, <1>7, <1>8, <1>10, <1>11, <1>12, AheadKept

LEMMA OutsideAhead ==
  ASSUME EInv, Ahead, Outside
  PROVE  Ahead'
<1>1. /\ Shape /\ NextDeliverable
  BY DEF EInv, IInv
<1>2. UNCHANGED <<kvLen, inbox, outbox, frames, newReqs, resumedReqs, phase, sched>>
  BY DEF Outside, runnerVars, admitVars, ClientStep, AddRequest, Abort,
     SetPauseState, stepVars
<1>3. phase = "idle"
  BY DEF Outside, ClientStep, AddRequest, Abort, SetPauseState
<1>4. Admitted = {} /\ Admitted' = {}
  BY <1>1, <1>2, <1>3 DEF NextDeliverable, Admitted
<1>5. \A r \in Requests : Lead(r)' = Lead(r)
  BY <1>2, <1>3, SameLead
<1>6. \A r \in Requests :
        /\ req'[r].status = "RUNNING" => req'[r] = req[r]
        /\ req'[r].status \in {"NEW", "WAITING"} =>
             req[r].status \in {"NEW", "WAITING"}
  <2>1. CASE \E p \in PauseStates : SetPauseState(p)
    BY <2>1 DEF SetPauseState
  <2>2. ASSUME NEW q \in Requests, AddRequest(q)
        PROVE  \A r \in Requests :
                 /\ req'[r].status = "RUNNING" => req'[r] = req[r]
                 /\ req'[r].status \in {"NEW", "WAITING"} =>
                      req[r].status \in {"NEW", "WAITING"}
    <3>1. req' = [req EXCEPT ![q].status = "WAITING"] /\ req[q].status = "NEW"
      BY <2>2 DEF AddRequest
    <3>2. req'[q].status = "WAITING"
      BY <1>1, <3>1 DEF Shape, ShapedRecord
    <3>3. \A r \in Requests : r # q => req'[r] = req[r]
      BY <1>1, <3>1 DEF Shape
    <3> QED BY <3>1, <3>2, <3>3
  <2>3. ASSUME NEW q \in Requests, Abort(q)
        PROVE  \A r \in Requests :
                 /\ req'[r].status = "RUNNING" => req'[r] = req[r]
                 /\ req'[r].status \in {"NEW", "WAITING"} =>
                      req[r].status \in {"NEW", "WAITING"}
    <3>1. req' = [req EXCEPT ![q] = Finished(req[q])]
      BY <2>3 DEF Abort
    <3>2. Finished(req[q]).status = "FINISHED"
      BY DEF Finished
    <3> QED BY <1>1, <3>1, <3>2 DEF Shape
  <2> QED BY <2>1, <2>2, <2>3 DEF Outside, ClientStep
<1> QED BY <1>2, <1>4, <1>5, <1>6, AheadKept

\* What update_from_output() does to the count of a request that goes on.
LEMMA RowComputed ==
  ASSUME IInv, Pipeline, Answering, NEW r \in Requests, UpdateRow(r),
         req'[r].status = "RUNNING"
  PROVE  /\ req[r].status = "RUNNING" /\ 1 \in 1..Len(outbox)
         /\ r \notin frames[1].emits => req'[r].computed = req[r].computed
         /\ r \in frames[1].emits =>
              req'[r].computed =
                req[r].computed
                - (frames[1].spec[r] + 1 - outbox[1].generated[r])
<1>1. /\ Shape /\ Ledger /\ Visit(r) /\ req[r].status # "FINISHED"
      /\ phase = "update" /\ r \in todo
      /\ req \in [Requests -> ShapedRecord] /\ req[r] \in ShapedRecord
  BY DEF IInv, UpdateRow, Visit, Shape
<1>2. /\ 1 \in 1..Len(frames) /\ Head(frames) = frames[1]
  BY <1>1, FramesLen DEF Shape
<1>3. /\ outbox # <<>> /\ Head(outbox) = outbox[1] /\ 1 \in 1..Len(outbox)
  <2>1. outbox # <<>> /\ outbox \in Seq(Answers) /\ Len(outbox) \in Nat
    BY <1>1, LenProperties DEF Answering, Pipeline
  <2> QED BY <2>1, EmptySeq
<1>4. Reports(outbox[1], frames[1]) /\ frames[1].n[r] > 0
  BY <1>1, <1>2, <1>3 DEF Pipeline, Answering
<1>5. PICK s \in Int : s = frames[1].spec[r] /\ s >= 0
  BY <1>1, <1>2, OwedFacts DEF Ledger
<1>6. PICK generated \in 0..(s + 1) :
        /\ generated = outbox[1].generated[r]
        /\ generated > 0 <=> r \in frames[1].emits
  BY <1>4, <1>5 DEF Reports
<1>7. \/ /\ generated = 0
         /\ req' = [req EXCEPT ![r] = Resized(req[r], 0, LengthFor(r, req[r]))]
      \/ /\ generated > 0
         /\ \E kept \in 1..generated :
              \/ req' = [req EXCEPT ![r] = Finished(Kept(r, generated, kept))]
              \/ req' = [req EXCEPT ![r] =
                   Resized(Kept(r, generated, kept), kept,
                           LengthFor(r, Kept(r, generated, kept)))]
  <2>1. Head(outbox).generated[r] = generated
    BY <1>3, <1>6
  <2> QED BY <2>1, Zenon DEF UpdateRow, Kept
<1>8. CASE generated = 0
  <2>1. ~(generated > 0)
    BY <1>8
  <2>2. req' = [req EXCEPT ![r] = Resized(req[r], 0, LengthFor(r, req[r]))]
    BY <1>7, <2>1, Zenon
  <2>3. Resized(req[r], 0, LengthFor(r, req[r])) = req[r]
    BY DEF Resized
  <2>4. req'[r] = req[r]
    BY <1>1, <2>2, <2>3
  <2> QED BY <1>3, <1>6, <2>1, <2>4
<1>9. CASE generated # 0
  <2>1. generated > 0 /\ generated \in 1..(Head(frames).spec[r] + 1)
    BY <1>2, <1>5, <1>9
  <2>2. PICK kept \in 1..generated :
          \/ req' = [req EXCEPT ![r] = Finished(Kept(r, generated, kept))]
          \/ req' = [req EXCEPT ![r] =
               Resized(Kept(r, generated, kept), kept,
                       LengthFor(r, Kept(r, generated, kept)))]
    BY <1>7, <1>9, Zenon
  <2>3. PICK kr \in ShapedRecord :
          kr = Kept(r, generated, kept) /\ kr.status = req[r].status
    BY <1>1, <2>1, KeptShape
  <2>4. r \in Owes(Head(frames))
    BY <1>2, <1>4, <1>6, <2>1 DEF Owes, Reports
  <2>5. CASE req' = [req EXCEPT ![r] = Finished(kr)]
    BY <1>1, <2>5 DEF Finished
  <2>6. CASE req' = [req EXCEPT ![r] = Resized(kr, kept, LengthFor(r, kr))]
    <3>1. /\ req'[r] = Resized(kr, kept, LengthFor(r, kr))
          /\ req'[r].computed = kr.computed /\ req'[r].status = kr.status
      BY <1>1, <2>6 DEF Resized, ShapedRecord
    <3>2. req[r].status = "RUNNING"
      BY <2>3, <3>1
    <3>3. PICK f, t \in Int :
            /\ f = InFlight(r) /\ t = NumTokens(r) /\ f >= 1 + s
            /\ kr.computed = t - 1 + f - (s + 1 - generated)
            /\ ~req[r].chunk
      <4>1. NumTokens(r) \in Int
        BY <1>1, Numbers
      <4> QED BY <1>1, <1>5, <2>1, <2>3, <2>4, <3>2, <4>1, KeptCounts
    <3>4. req[r].computed = t - 1 + f
      <4>1. req[r].ph = f /\ f > 0
        BY <1>1, <1>5, <3>2, <3>3 DEF Ledger, Books, Counted, Unfinished
      <4>2. r \notin Scheduled
        BY <1>1 DEF Ledger, StepOrdered, Scheduled, Nothing
      <4> QED BY <1>1, <3>2, <3>3, <4>1, <4>2 DEF Ledger, Books, Counted
    <3>5. kr.computed = req[r].computed - (s + 1 - generated)
      <4>1. generated \in Int
        OBVIOUS
      <4> QED BY <3>3, <3>4, <4>1
    <3> QED BY <1>3, <1>5, <1>6, <2>1, <3>1, <3>2, <3>5
  <2> QED BY <2>2, <2>3, <2>5, <2>6
<1> QED BY <1>8, <1>9

LEMMA RowAhead ==
  ASSUME EInv, Ahead, NEW r \in Requests, UpdateRow(r) \/ SkipRow(r)
  PROVE  Ahead'
<1>1. /\ IInv /\ Shape /\ Ledger /\ FramesSound /\ Pipeline /\ NextDeliverable
      /\ Answering
  BY DEF EInv, IInv, Ledger
<1>2. /\ UNCHANGED <<kvLen, inbox, outbox, frames, newReqs, resumedReqs, phase,
                     sched>>
      /\ phase = "update" /\ todo' = todo \ {r} /\ r \in todo
  BY DEF UpdateRow, SkipRow, SkipFinished, Visit, runnerVars, admitVars, stepVars
<1>3. Admitted = {} /\ Admitted' = {}
  BY <1>1, <1>2 DEF NextDeliverable, Admitted
<1>4. SkipFinished(r) \/ EmptyRow(r) \/ AcceptTokens(r)
  BY <1>1, UpdateRowRefines DEF SkipRow
<1>5. \A q \in Requests :
        /\ q # r => req'[q] = req[q]
        /\ req'[q].status \in {"NEW", "WAITING"} =>
             req[q].status \in {"NEW", "WAITING"}
  <2>1. CASE SkipFinished(r) \/ EmptyRow(r)
    BY <1>1, <2>1, RowsKeepRecords
  <2>2. CASE AcceptTokens(r)
    <3>1. PICK record \in ShapedRecord :
            /\ record.status \in {req[r].status, "FINISHED"}
            /\ req' = [req EXCEPT ![r] = record]
      BY <1>1, <2>2, AcceptedRecord
    <3> QED BY <1>1, <3>1 DEF Shape
  <2> QED BY <1>4, <2>1, <2>2
<1>6. \A q \in Requests : q # r => Lead(q)' = Lead(q)
  BY <1>2, SameLead
<1>7. ASSUME req'[r].status = "RUNNING"
      PROVE  /\ req[r].status = "RUNNING"
             /\ req[r].computed = Base(r) + Lead(r) =>
                  req'[r].computed = Base(r) + Lead(r)'
  <2>1. UpdateRow(r)
    BY <1>7 DEF SkipRow, SkipFinished
  <2>2. /\ req[r].status = "RUNNING" /\ 1 \in 1..Len(outbox)
        /\ r \notin frames[1].emits => req'[r].computed = req[r].computed
        /\ r \in frames[1].emits =>
             req'[r].computed =
               req[r].computed
               - (frames[1].spec[r] + 1 - outbox[1].generated[r])
    BY <1>1, <1>7, <2>1, RowComputed
  <2>3. 1 \in 1..Len(frames) /\ Len(frames) >= 1
    BY <1>1, <1>2, FramesLen DEF Shape
  <2>4. PICK rest \in Int :
          /\ rest = (IF Len(frames) >= 2 THEN Share(2, r) ELSE 0)
          /\ rest = (IF Len(frames)' >= 2 THEN Share(2, r)' ELSE 0)
    <3>1. Len(frames) >= 2 => 2 \in 1..Len(frames)
      BY <1>1, FramesLen
    <3>2. Len(frames) >= 2 => Share(2, r) \in Int
      BY <1>1, <3>1, ShareFacts
    <3>3. Share(2, r)' = Share(2, r)
      BY <1>2 DEF Share
    <3> QED BY <1>2, <3>2, <3>3
  <2>5. PICK one \in Int : one = Share(1, r)
    BY <1>1, <2>3, ShareFacts
  <2>6. Share(1, r)' = 0
    BY <1>2, <2>2 DEF Share
  <2>7. Lead(r) = one + rest /\ Lead(r)' = 0 + rest
    BY <1>2, <2>3, <2>4, <2>5, <2>6 DEF Lead
  <2>8. /\ r \notin frames[1].emits => one = 0
        /\ r \in frames[1].emits =>
             one = frames[1].spec[r] + 1 - outbox[1].generated[r]
    BY <1>2, <2>2, <2>5 DEF Share
  <2>9. req'[r].computed = req[r].computed - one
    <3>1. req[r].computed \in Int
      BY <1>1, Numbers
    <3> QED BY <2>2, <2>8, <3>1
  <2>10. req[r].computed \in Int
    BY <1>1, Numbers
  <2>11. Base(r) \in Int
    BY <1>1, BaseType
  <2> QED BY <2>2, <2>7, <2>9, <2>10, <2>11
<1>8. Scheduled' = Scheduled
  BY <1>2 DEF Scheduled
<1>9. \A q \in Requests :
        req'[q].status = "RUNNING" =>
          /\ req[q].status = "RUNNING"
          /\ req[q].computed = Base(q) + Lead(q) =>
               req'[q].computed = Base(q) + Lead(q)'
  BY <1>5, <1>6, <1>7
<1> QED BY <1>2, <1>3, <1>5, <1>9, AheadKept

LEMMA EndReceiveAhead ==
  ASSUME EInv, Ahead, EndReceive
  PROVE  Ahead'
<1>1. /\ Shape /\ Ledger /\ FramesSound /\ Pipeline /\ NextDeliverable /\ Answering
  BY DEF EInv, IInv, Ledger
<1>2. /\ UNCHANGED <<kvLen, inbox, req, newReqs, resumedReqs>>
      /\ phase = "update" /\ phase' = "idle" /\ todo = {}
      /\ frames' = Tail(frames) /\ outbox' = Tail(outbox)
  BY DEF EndReceive, EndUpdate, admitVars
<1>3. Admitted = {} /\ Admitted' = {}
  BY <1>1, <1>2 DEF NextDeliverable, Admitted
<1>4. /\ frames \in Seq(ShapedFrame) /\ frames # <<>>
      /\ outbox \in Seq(Answers) /\ outbox # <<>>
  BY <1>1, <1>2 DEF Shape, Answering, Pipeline
<1>5. /\ Len(frames') = Len(frames) - 1 /\ Len(outbox') = Len(outbox) - 1
      /\ \A k \in 1..Len(frames') : frames'[k] = frames[k + 1]
      /\ \A k \in 1..Len(outbox') : outbox'[k] = outbox[k + 1]
  BY <1>2, <1>4, HeadTailProperties
<1>6. PICK F \in {1, 2}, O \in {1, 2} : F = Len(frames) /\ O = Len(outbox) /\ O <= F
  <2>1. Len(outbox) # 0
    BY <1>4, EmptySeq
  <2>2. Len(outbox) <= Len(frames)
    BY <1>1, Stages
  <2> QED BY <1>1, <1>4, <2>1, <2>2, FramesLen, Stages
<1>7. ASSUME NEW r \in Requests
      PROVE  Lead(r)' = Lead(r) /\ Base(r)' = Base(r) /\ (Absent(r) => Absent(r)')
  <2>1. Share(1, r) = 0
    BY <1>2, <1>6 DEF Share
  <2>2. Base(r)' = Base(r)
    BY <1>2 DEF Base
  <2>3. CASE F = 1
    <3>1. Len(frames') = 0
      BY <1>5, <1>6, <2>3
    <3>2. Lead(r)' = 0 /\ Lead(r) = 0
      BY <1>6, <2>1, <2>3, <3>1 DEF Lead
    <3>3. Absent(r)'
      BY <3>1 DEF Absent
    <3> QED BY <2>2, <3>2, <3>3
  <2>4. CASE F = 2
    <3>1. Len(frames') = 1 /\ 1 \in 1..Len(frames') /\ 2 \in 1..Len(frames)
      BY <1>5, <1>6, <2>4
    <3>2. frames'[1] = frames[2]
      <4>1. frames'[1] = frames[1 + 1]
        BY <1>5, <3>1
      <4> QED BY <4>1
    <3>3. Share(1, r)' = Share(2, r)
      <4>1. CASE O = 1
        <5>1. Len(outbox') = 0 /\ ~(2 <= Len(outbox)) /\ ~(1 <= Len(outbox'))
          BY <1>5, <1>6, <4>1
        <5>2. Share(1, r)' = frames'[1].n[r]
          BY <5>1 DEF Share
        <5>3. Share(2, r) = frames[2].n[r]
          BY <5>1 DEF Share
        <5> QED BY <3>2, <5>2, <5>3
      <4>2. CASE O = 2
        <5>1. Len(outbox') = 1 /\ outbox'[1] = outbox[2]
          <6>1. Len(outbox') = 1 /\ 1 \in 1..Len(outbox')
            BY <1>5, <1>6, <4>2
          <6>2. outbox'[1] = outbox[1 + 1]
            BY <1>5, <6>1
          <6> QED BY <6>1, <6>2
        <5>2. 1 <= Len(outbox') /\ 2 <= Len(outbox)
          BY <1>6, <4>2, <5>1
        <5>3. Share(1, r)' = IF r \in frames'[1].emits
                             THEN frames'[1].spec[r] + 1 - outbox'[1].generated[r]
                             ELSE 0
          BY <1>2, <5>2 DEF Share
        <5>4. Share(2, r) = IF r \in frames[2].emits
                            THEN frames[2].spec[r] + 1 - outbox[2].generated[r]
                            ELSE 0
          BY <5>2 DEF Share
        <5> QED BY <3>2, <5>1, <5>3, <5>4
      <4> QED BY <4>1, <4>2
    <3>4. Share(2, r) \in Int
      BY <1>1, <3>1, ShareFacts
    <3>5. PICK s \in Int : s = Share(2, r)
      BY <3>4
    <3>6. Lead(r)' = s + 0 /\ Lead(r) = 0 + s
      BY <1>6, <2>1, <2>4, <3>1, <3>3, <3>5 DEF Lead
    <3>7. Absent(r) => Absent(r)'
      <4>1. \A k \in 1..Len(frames') : k = 1
        BY <3>1
      <4> QED BY <3>1, <3>2, <4>1 DEF Absent
    <3> QED BY <2>2, <3>6, <3>7
  <2> QED BY <2>3, <2>4
<1> QED BY <1>2, <1>3, <1>7 DEF Ahead

LEMMA SendAhead ==
  ASSUME EInv, Ahead, Send
  PROVE  Ahead'
<1>1. /\ Shape /\ Ledger /\ FramesSound /\ Pipeline /\ NextDeliverable
  BY DEF EInv, IInv, Ledger
<1>2. /\ UNCHANGED <<kvLen, outbox>> /\ phase = "waiting" /\ phase' = "idle"
      /\ Admitted' = {}
      /\ req' = [r \in Requests |-> IF r \in Scheduled THEN Advanced(r) ELSE req[r]]
  BY <1>1, SendEffect DEF Send, Admitted
<1>3. PICK F \in {0, 1} :
        /\ F = Len(frames) /\ Len(frames') = F + 1
        /\ \A k \in 1..F : frames'[k] = frames[k]
        /\ frames'[F + 1].n = sched
        /\ Len(outbox) \in {0, 1, 2} /\ Len(outbox) <= F
  <2>1. Len(frames) \in {0, 1, 2} /\ Len(frames) < 2
    BY <1>1, SendEffect, Stages
  <2>2. Len(outbox) \in {0, 1, 2} /\ Len(outbox) <= Len(frames)
    BY <1>1, Stages
  <2>3. PICK F \in {0, 1} : F = Len(frames)
    BY <2>1
  <2>4. /\ Len(frames') = F + 1
        /\ \A k \in 1..F : frames'[k] = frames[k]
        /\ frames'[F + 1].n = sched
    BY <1>1, <2>3, SendEffect
  <2> QED BY <2>2, <2>3, <2>4
<1>4. PICK L \in {0, 1} :
        /\ L = Len(inbox) /\ Len(inbox') = L + 1
        /\ \A k \in 1..L : inbox'[k] = inbox[k]
        /\ inbox'[L + 1] = Output
  <2>1. Len(inbox) \in {0, 1, 2} /\ Len(inbox) <= Len(frames)
    BY <1>1, Stages
  <2>2. PICK L \in {0, 1} : L = Len(inbox)
    BY <1>3, <2>1
  <2>3. /\ Len(inbox') = L + 1
        /\ \A k \in 1..L : inbox'[k] = inbox[k]
        /\ inbox'[L + 1] = Output
    BY <1>1, <2>2, SendEffect
  <2> QED BY <2>2, <2>3
<1>5. FromPrefix(Output) = Admitted
  BY DEF Output, FromPrefix, Admitted
<1>6. ASSUME NEW r \in Requests
      PROVE  /\ r \in Admitted => Base(r)' = req[r].computed
             /\ r \notin Admitted => Base(r)' = Base(r)
  <2>1. Output.computed[r] = req[r].computed
    BY DEF Output
  <2>2. CASE L = 0
    <3>1. /\ Len(inbox') = 1 /\ inbox'[1] = Output
          /\ ~(Len(inbox) >= 1) /\ ~(Len(inbox) >= 2)
      BY <1>4, <2>2
    <3>2. Base(r) = kvLen[r]
      BY <3>1 DEF Base
    <3>3. Base(r)' = IF r \in FromPrefix(Output) THEN Output.computed[r]
                     ELSE kvLen[r]
      BY <1>2, <3>1 DEF Base, FromPrefix
    <3> QED BY <1>5, <2>1, <3>2, <3>3
  <2>3. CASE L = 1
    <3>1. /\ Len(inbox') = 2 /\ inbox'[2] = Output /\ Len(inbox) = 1
          /\ inbox'[1] = inbox[1]
      BY <1>4, <2>3
    <3>2. Base(r) = IF r \in FromPrefix(inbox[1]) THEN inbox[1].computed[r]
                    ELSE kvLen[r]
      BY <3>1 DEF Base
    <3>3. Base(r)' = IF r \in FromPrefix(Output) THEN Output.computed[r]
                     ELSE IF r \in FromPrefix(inbox[1]) THEN inbox[1].computed[r]
                     ELSE kvLen[r]
      BY <1>2, <3>1 DEF Base, FromPrefix
    <3> QED BY <1>5, <2>1, <3>2, <3>3
  <2> QED BY <2>2, <2>3
<1>7. ASSUME NEW r \in Requests
      PROVE  Lead(r)' = Lead(r) + sched[r]
  <2>1. PICK n \in Int : n = sched[r]
    BY <1>1, Numbers
  <2>2. \A k \in 1..F : Share(k, r)' = Share(k, r)
    BY <1>2, <1>3 DEF Share
  <2>3. Share(F + 1, r)' = n
    <3>1. ~(F + 1 <= Len(outbox'))
      BY <1>2, <1>3
    <3> QED BY <1>3, <2>1, <3>1 DEF Share
  <2>4. CASE F = 0
    <3>1. Len(frames') = 1 /\ Len(frames) = 0 /\ Share(1, r)' = n
      BY <1>3, <2>3, <2>4
    <3>2. Lead(r)' = n + 0 /\ Lead(r) = 0 + 0
      BY <3>1 DEF Lead
    <3> QED BY <2>1, <3>2
  <2>5. CASE F = 1
    <3>1. /\ Len(frames') = 2 /\ Len(frames) = 1 /\ Share(2, r)' = n
          /\ Share(1, r)' = Share(1, r) /\ 1 \in 1..Len(frames)
      BY <1>3, <2>2, <2>3, <2>5
    <3>2. PICK s \in Int : s = Share(1, r)
      BY <1>1, <3>1, ShareFacts
    <3>3. Lead(r)' = s + n /\ Lead(r) = s + 0
      BY <3>1, <3>2 DEF Lead
    <3> QED BY <2>1, <3>2, <3>3
  <2> QED BY <2>4, <2>5
<1>8. ASSUME NEW r \in Requests
      PROVE  /\ req'[r].status = req[r].status
             /\ req'[r].computed = req[r].computed + sched[r]
  <2>1. sched[r] \in Int /\ req[r].computed \in Int
    BY <1>1, Numbers
  <2>2. sched[r] >= 0
    BY <1>1 DEF Ledger, Books, StepBooked
  <2>3. CASE r \in Scheduled
    <3>1. req'[r] = Advanced(r)
      BY <1>2, <2>3
    <3> QED BY <3>1 DEF Advanced
  <2>4. CASE r \notin Scheduled
    <3>1. req'[r] = req[r] /\ sched[r] = 0
      BY <1>2, <2>1, <2>2, <2>4 DEF Scheduled
    <3> QED BY <2>1, <3>1
  <2> QED BY <2>3, <2>4
<1>9. ASSUME NEW r \in Requests, req'[r].status = "RUNNING"
      PROVE  req'[r].computed = Base(r)' + Lead(r)'
  <2>1. PICK c, n, l \in Int : c = req[r].computed /\ n = sched[r] /\ l = Lead(r)
    BY <1>1, Numbers, LeadFacts
  <2>2. req'[r].computed = c + n /\ Lead(r)' = l + n
    BY <1>7, <1>8, <2>1
  <2>3. CASE r \in Admitted
    <3>1. Base(r)' = c /\ l = 0
      BY <1>1, <1>6, <2>1, <2>3, LeadFacts DEF Ahead
    <3> QED BY <2>1, <2>2, <3>1
  <2>4. CASE r \notin Admitted
    <3>1. PICK b \in Int : b = Base(r)
      BY <1>1, BaseType
    <3>2. c = b + l
      BY <1>8, <1>9, <2>1, <2>4, <3>1 DEF Ahead
    <3>3. Base(r)' = b
      BY <1>6, <2>4, <3>1
    <3> QED BY <2>1, <2>2, <3>2, <3>3
  <2> QED BY <2>3, <2>4
<1>10. ASSUME NEW r \in Requests, req'[r].status \in {"NEW", "WAITING"}
       PROVE  Absent(r)'
  <2>1. Absent(r)
    BY <1>8, <1>10 DEF Ahead
  <2>2. sched[r] = 0
    <3>1. sched[r] \in Int /\ sched[r] >= 0 /\ ~(sched[r] > 0)
      BY <1>1, <1>8, <1>10, Numbers DEF Ledger, Books, StepBooked
    <3> QED BY <3>1
  <2>3. \A k \in 1..(F + 1) : k \in 1..F \/ k = F + 1
    BY <1>3
  <2> QED BY <1>3, <2>1, <2>2, <2>3 DEF Absent
<1> QED BY <1>2, <1>9, <1>10 DEF Ahead

-----------------------------------------------------------------------------
(* execute_model().                                                        *)

\* Where a step leaves the positions of the worker when it is taken up.
LEMMA TakeUp ==
  ASSUME Shape, Pipeline, Worker, Deliverable, Runner!ExecuteModel
  PROVE  /\ prevIndex' = Runner!PrevIndex(inbox[1])
         /\ RowsOf(inbox[1]) = {} => UNCHANGED <<kvLen, gpuComputed>>
         /\ RowsOf(inbox[1]) # {} =>
              /\ kvLen' = [r \in Requests |->
                             IF r \in FromPrefix(inbox[1])
                             THEN inbox[1].computed[r] ELSE kvLen[r]]
              /\ gpuComputed' = [i \in DOMAIN rows' |->
                                   Runner!StartOf(inbox[1], rows', i)]
              /\ requests' = Corrections
<1>1. inbox # <<>>
  BY ExecuteEffect
<1>2. PICK m \in Messages : m = inbox[1] /\ Head(inbox) = m
  BY <1>1, Stages
<1>3. Runner!InStep(m) = RowsOf(m) /\ RowsOf(m) \in SUBSET Requests
  BY DEF Runner!InStep, RowsOf
<1>4. States = Runner!UpdatedRequests(m) /\ Runner!FromPrefix(m) = FromPrefix(m)
  BY <1>2 DEF States, Runner!FromPrefix, FromPrefix
<1>5. PICK batch \in Runner!RowOrders(RowsOf(m)) :
        /\ rows' = batch
        /\ prevIndex' = Runner!PrevIndex(m)
        /\ IF batch = <<>>
           THEN UNCHANGED <<kvLen, gpuComputed>>
           ELSE /\ requests' = Runner!CorrectedRequests(m, States)
                /\ gpuComputed' = [i \in DOMAIN batch |->
                                     Runner!StartOf(m, batch, i)]
                /\ kvLen' = [r \in Requests |->
                               IF r \in FromPrefix(m) THEN m.computed[r]
                               ELSE kvLen[r]]
  BY <1>2, <1>3, <1>4 DEF Runner!ExecuteModel
<1>6. batch = <<>> <=> RowsOf(m) = {}
  BY <1>3, <1>5, Batches
<1> QED BY <1>2, <1>5, <1>6 DEF Corrections

LEMMA ExecuteAhead ==
  ASSUME EInv, Ahead, \A k \in 1..Len(inbox) : Placed(k), Runner!ExecuteModel,
         UNCHANGED <<vars, prevStep, admitVars>>
  PROVE  Ahead'
<1>1. /\ Shape /\ FramesSound /\ Pipeline /\ Worker /\ Deliverable
  BY DEF EInv, IInv, Ledger
<1>2. /\ UNCHANGED <<req, frames, phase, todo, sched, newReqs, resumedReqs>>
  BY DEF vars, stepVars, admitVars
<1>3. PICK m \in Messages :
        m = inbox[1] /\ ~Executing /\ 1 \in 1..Len(inbox) /\ FromPrefix(m) \subseteq RowsOf(m)
  <2>1. ~Executing /\ inbox # <<>>
    BY <1>1, ExecuteEffect
  <2>2. inbox[1] \in Messages /\ 1 \in 1..Len(inbox)
    BY <1>1, <2>1, Stages
  <2> QED BY <2>1, <2>2 DEF Placed
<1>4. /\ Len(inbox) \in {1, 2} /\ Len(inbox') = Len(inbox) - 1
      /\ Len(inbox) = 2 => inbox'[1] = inbox[2]
  <2>1. /\ Len(inbox) \in {1, 2} /\ Len(inbox') = Len(inbox) - 1
        /\ \A k \in 1..Len(inbox') : inbox'[k] = inbox[k + 1]
    BY <1>1, ExecuteEffect, TakeOldest
  <2>2. Len(inbox) = 2 => 1 \in 1..Len(inbox')
    BY <2>1
  <2>3. Len(inbox) = 2 => inbox'[1] = inbox[1 + 1]
    BY <2>1, <2>2
  <2> QED BY <2>1, <2>3
<1>5. ASSUME NEW r \in Requests
      PROVE  kvLen'[r] = (IF r \in FromPrefix(m) THEN m.computed[r] ELSE kvLen[r])
             /\ kvLen'[r] \in Int
  <2>1. m.computed[r] \in Int /\ kvLen[r] \in Int
    BY MessageFacts DEF Ahead
  <2>2. CASE RowsOf(m) = {}
    BY <1>1, <1>3, <2>1, <2>2, TakeUp
  <2>3. CASE RowsOf(m) # {}
    BY <1>1, <1>3, <2>1, <2>3, TakeUp
  <2> QED BY <2>2, <2>3
<1>6. kvLen' \in [Requests -> Int]
  <2>1. RowsOf(m) = {} => kvLen' = kvLen
    BY <1>1, <1>3, TakeUp
  <2>2. RowsOf(m) # {} =>
          kvLen' = [r \in Requests |-> IF r \in FromPrefix(m) THEN m.computed[r]
                                       ELSE kvLen[r]]
    BY <1>1, <1>3, TakeUp
  <2>3. kvLen \in [Requests -> Int]
    BY DEF Ahead
  <2> QED BY <1>5, <2>1, <2>2, <2>3
<1>7. ASSUME NEW r \in Requests
      PROVE  Base(r)' = Base(r)
  <2>1. CASE Len(inbox) = 1
    <3>1. Len(inbox') = 0 /\ ~(Len(inbox) >= 2)
      BY <1>4, <2>1
    <3>2. Base(r)' = kvLen'[r]
      BY <3>1 DEF Base
    <3>3. Base(r) = IF r \in FromPrefix(m) THEN m.computed[r] ELSE kvLen[r]
      BY <1>3, <2>1, <3>1 DEF Base
    <3> QED BY <1>5, <3>2, <3>3
  <2>2. CASE Len(inbox) = 2
    <3>1. Len(inbox') = 1 /\ inbox'[1] = inbox[2]
      BY <1>4, <2>2
    <3>2. Base(r)' = IF r \in FromPrefix(inbox[2]) THEN inbox[2].computed[r]
                     ELSE kvLen'[r]
      BY <3>1 DEF Base, FromPrefix
    <3>3. Base(r) = IF r \in FromPrefix(inbox[2]) THEN inbox[2].computed[r]
                    ELSE IF r \in FromPrefix(m) THEN m.computed[r] ELSE kvLen[r]
      BY <1>3, <2>2 DEF Base
    <3> QED BY <1>5, <3>2, <3>3
  <2> QED BY <1>4, <2>1, <2>2
<1>8. ASSUME NEW r \in Requests, NEW k \in 1..Len(frames)
      PROVE  Share(k, r)' = Share(k, r)
  <2>1. CASE outbox' = outbox
    BY <1>2, <2>1 DEF Share
  <2>2. CASE RowsOf(m) = {} /\ outbox' = Append(outbox, Runner!EmptyOutput)
    <3>1. PICK O \in Nat : O = Len(outbox)
      BY <1>1, Stages
    <3>2. Len(outbox') = O + 1 /\ \A j \in 1..O : outbox'[j] = outbox[j]
      BY <1>1, <2>2, <3>1, AppendProperties DEF Pipeline
    <3>3. CASE k <= O
      <4>1. k \in 1..O /\ k <= O + 1
        BY <3>1, <3>3
      <4> QED BY <1>2, <3>1, <3>2, <4>1 DEF Share
    <3>4. CASE k = O + 1
      <4>1. Announces(m, frames[O + InHand + 1])
        BY <1>1, <1>3, <3>1, FramesAnnounced
      <4>2. O + InHand + 1 = k
        BY <1>3, <3>1, <3>4 DEF InHand
      <4>3. frames[k].n = m.n /\ frames[k].emits = Emitting(m)
        BY <4>1, <4>2 DEF Announces
      <4>4. r \notin frames[k].emits /\ ~(frames[k].n[r] > 0)
        BY <2>2, <4>3 DEF Emitting, RowsOf
      <4>5. frames[k].n[r] = 0
        <5>1. frames[k].n[r] >= 0 /\ frames[k].n[r] \in Int
          BY <1>1, ShareFacts, FramesLen DEF FramesSound
        <5> QED BY <4>4, <5>1
      <4>6. ~(k <= Len(outbox)) /\ k <= Len(outbox')
        BY <3>1, <3>2, <3>4
      <4>7. Share(k, r) = 0
        BY <4>5, <4>6 DEF Share
      <4>8. Share(k, r)' = 0
        BY <1>2, <4>4, <4>6 DEF Share
      <4> QED BY <4>7, <4>8
    <3>5. CASE k > O + 1
      <4>1. ~(k <= Len(outbox)) /\ ~(k <= Len(outbox'))
        BY <3>1, <3>2, <3>5
      <4> QED BY <1>2, <4>1 DEF Share
    <3> QED BY <3>1, <3>3, <3>4, <3>5
  <2> QED BY <1>1, <1>3, <2>1, <2>2, ExecuteEffect
<1>9. ASSUME NEW r \in Requests
      PROVE  Lead(r)' = Lead(r)
  <2>1. Len(frames) \in {0, 1, 2}
    BY <1>1, FramesLen
  <2>2. /\ Len(frames) >= 1 => 1 \in 1..Len(frames)
        /\ Len(frames) >= 2 => 2 \in 1..Len(frames)
    BY <2>1
  <2>3. /\ Len(frames) >= 1 => Share(1, r)' = Share(1, r)
        /\ Len(frames) >= 2 => Share(2, r)' = Share(2, r)
    BY <1>8, <2>2
  <2> QED BY <1>2, <2>3 DEF Lead
<1>10. Admitted' = Admitted /\ Scheduled' = Scheduled
  BY <1>2 DEF Admitted, Scheduled
<1>11. \A r \in Requests : Absent(r)' <=> Absent(r)
  BY <1>2 DEF Absent
<1>12. \A r \in Admitted : r \in Requests
  BY DEF Ahead, Scheduled
<1> QED BY <1>2, <1>6, <1>7, <1>9, <1>10, <1>11, <1>12 DEF Ahead

-----------------------------------------------------------------------------
(* sample_tokens().                                                        *)

\* What is sampled, by request, and where it leaves the positions.
Drawn(m, g) ==
  /\ \A r \in RowsOf(m) :
       /\ g[r] \in 0..(m.spec[r] + 1)
       /\ g[r] > 0 <=> r \in Emitting(m)
       /\ outbox'[Len(outbox) + 1].generated[r] = g[r]
       /\ r \in Emitting(m) =>
            /\ r \in DOMAIN prevIndex'
            /\ prevIndex'[r] \in DOMAIN rows
            /\ rows[prevIndex'[r]] = r
            /\ sampled'.count[prevIndex'[r]] = g[r]
  /\ kvLen' = [r \in Requests |->
                 IF r \notin RowsOf(m) THEN kvLen[r]
                 ELSE IF g[r] = 0 THEN kvLen[r] + m.n[r]
                 ELSE kvLen[r] + m.n[r] - m.spec[r] - 1 + g[r]]

LEMMA Sampling ==
  ASSUME Pipeline, Worker, Runner!SampleTokens
  PROVE  /\ sampled' # <<>> /\ gpuComputed' = gpuComputed
         /\ \E g \in [RowsOf(execState.m) -> Int] : Drawn(execState.m, g)
<1>1. Executing /\ execState.m \in Messages
  BY DEF Runner!SampleTokens, Executing, Runner!None, Worker
<1>2. PICK m \in Messages : m = execState.m
  BY <1>1
<1>3. /\ rows \in Seq(Requests) /\ ToSet(rows) = RowsOf(m)
      /\ execState.discarded = {i \in DOMAIN rows : rows[i] \notin Emitting(m)}
  BY <1>1, <1>2 DEF Worker
<1>4. PICK count \in [DOMAIN rows -> 0..(NumSpecTokens + 1)] :
        /\ \A i \in DOMAIN rows : count[i] \in Runner!SampledCounts(execState.m, i)
        /\ sampled' = [next |-> Runner!NextTokens(execState.m, count), count |-> count]
        /\ prevIndex' = Runner!SampledRows
        /\ \E lengths \in Runner!ReportedLengths :
             outbox' = Append(outbox,
               [generated |->
                  [r \in Runner!ToSet(rows) |-> count[Runner!RowOf(r)]],
                lengths |-> lengths])
        /\ kvLen' = [r \in Requests |->
                       IF r \notin Runner!ToSet(rows) THEN kvLen[r]
                       ELSE IF count[Runner!RowOf(r)] = 0 THEN kvLen[r] + execState.m.n[r]
                       ELSE kvLen[r] + execState.m.n[r] - execState.m.spec[r] - 1
                            + count[Runner!RowOf(r)]]
  BY Zenon DEF Runner!SampleTokens
<1>5. PICK g : g = [r \in RowsOf(m) |-> count[Runner!RowOf(r)]]
  OBVIOUS
<1>6. \A i \in DOMAIN rows : rows[i] \in RowsOf(m)
  BY <1>3 DEF ToSet
<1>7. ASSUME NEW r \in RowsOf(m)
      PROVE  Runner!RowOf(r) \in DOMAIN rows /\ rows[Runner!RowOf(r)] = r
  <2>1. \E i \in DOMAIN rows : rows[i] = r
    BY <1>3 DEF ToSet
  <2> QED BY <2>1 DEF Runner!RowOf
<1>8. g \in [RowsOf(m) -> Int]
  <2>1. \A r \in RowsOf(m) : count[Runner!RowOf(r)] \in Int
    BY <1>4, <1>7, SchedulerAssumption
  <2> QED BY <1>5, <2>1
<1>9. outbox'[Len(outbox) + 1].generated = g
  <2>1. g = [r \in Runner!ToSet(rows) |-> count[Runner!RowOf(r)]]
    BY <1>3, <1>5, SameOperators
  <2>2. PICK lengths :
          outbox' = Append(outbox, [generated |-> g, lengths |-> lengths])
    BY <1>2, <1>4, <2>1, Zenon
  <2>3. PICK o : o = [generated |-> g, lengths |-> lengths]
    OBVIOUS
  <2>4. outbox \in Seq(Answers \union {o}) /\ o \in Answers \union {o}
    BY SeqDef DEF Pipeline
  <2>5. outbox'[Len(outbox) + 1] = o
    BY <2>2, <2>3, <2>4, AppendProperties
  <2> QED BY <2>3, <2>5
<1>10. ASSUME NEW r \in RowsOf(m)
       PROVE  /\ g[r] \in 0..(m.spec[r] + 1)
              /\ g[r] > 0 <=> r \in Emitting(m)
              /\ r \in Emitting(m) =>
                   /\ r \in DOMAIN prevIndex'
                   /\ prevIndex'[r] \in DOMAIN rows
                   /\ rows[prevIndex'[r]] = r
                   /\ sampled'.count[prevIndex'[r]] = g[r]
  <2>1. PICK i \in DOMAIN rows : i = Runner!RowOf(r) /\ rows[i] = r
    BY <1>7
  <2>2. m.spec[r] \in Nat
    BY MessageFacts DEF RowsOf
  <2>3. count[i] \in IF i \in execState.discarded THEN {0}
                     ELSE 1..(m.spec[r] + 1)
    BY <1>2, <1>4, <2>1 DEF Runner!SampledCounts
  <2>4. i \in execState.discarded <=> r \notin Emitting(m)
    BY <1>3, <2>1
  <2>5. g[r] = count[i]
    BY <1>5, <2>1
  <2>6. count[i] \in 0..(m.spec[r] + 1) /\ (count[i] > 0 <=> r \in Emitting(m))
    <3>1. CASE i \in execState.discarded
      <4>1. count[i] = 0
        BY <2>3, <3>1
      <4> QED BY <2>2, <2>4, <3>1, <4>1
    <3>2. CASE i \notin execState.discarded
      <4>1. count[i] \in 1..(m.spec[r] + 1)
        BY <2>3, <3>2
      <4> QED BY <2>2, <2>4, <3>2, <4>1
    <3> QED BY <3>1, <3>2
  <2>7. r \in Emitting(m) => r \in DOMAIN prevIndex' /\ prevIndex'[r] = i
    BY <1>4, <2>1, <2>4 DEF Runner!SampledRows
  <2>8. sampled'.count = count
    BY <1>4
  <2> QED BY <2>1, <2>5, <2>6, <2>7, <2>8
<1>11. kvLen' = [r \in Requests |->
                   IF r \notin RowsOf(m) THEN kvLen[r]
                   ELSE IF g[r] = 0 THEN kvLen[r] + m.n[r]
                   ELSE kvLen[r] + m.n[r] - m.spec[r] - 1 + g[r]]
  <2>1. \A r \in RowsOf(m) : g[r] = count[Runner!RowOf(r)]
    BY <1>5
  <2> QED BY <1>3, <1>2, <1>4, <2>1, SameOperators
<1>12. sampled' # <<>> /\ gpuComputed' = gpuComputed
  BY <1>4 DEF Runner!SampleTokens
<1>13. \A r \in RowsOf(m) : outbox'[Len(outbox) + 1].generated[r] = g[r]
  BY <1>9
<1>14. Drawn(m, g)
  BY <1>10, <1>11, <1>13 DEF Drawn
<1> QED BY <1>2, <1>8, <1>12, <1>14

\* One share of the lead changes.
LEMMA LeadChanges ==
  ASSUME Shape, FramesSound, Pipeline, UNCHANGED frames,
         NEW p \in 1..Len(frames), NEW r \in Requests,
         NEW s \in Int, Share(p, r)' = s,
         \A k \in 1..Len(frames) : k # p => Share(k, r)' = Share(k, r)
  PROVE  Lead(r)' = Lead(r) - Share(p, r) + s
<1>1. \A k \in 1..Len(frames) : Share(k, r) \in Int
  BY ShareFacts
<1>2. CASE Len(frames) = 1
  <2>1. p = 1 /\ 1 \in 1..Len(frames)
    BY <1>2
  <2>2. PICK one \in Int : one = Share(1, r)
    BY <1>1, <2>1
  <2>3. Lead(r) = one + 0 /\ Lead(r)' = s + 0
    BY <1>2, <2>1, <2>2 DEF Lead
  <2> QED BY <2>1, <2>2, <2>3
<1>3. CASE Len(frames) = 2
  <2>1. /\ 1 \in 1..Len(frames) /\ 2 \in 1..Len(frames) /\ p \in {1, 2}
    BY <1>3
  <2>2. PICK one, two \in Int : one = Share(1, r) /\ two = Share(2, r)
    BY <1>1, <2>1
  <2>3. Lead(r) = one + two
    BY <1>3, <2>2 DEF Lead
  <2>4. CASE p = 1
    <3>1. Share(2, r)' = two
      BY <2>1, <2>2, <2>4
    <3>2. Lead(r)' = s + two
      BY <1>3, <2>4, <3>1 DEF Lead
    <3> QED BY <2>2, <2>3, <2>4, <3>2
  <2>5. CASE p = 2
    <3>1. Share(1, r)' = one
      BY <2>1, <2>2, <2>5
    <3>2. Lead(r)' = one + s
      BY <1>3, <2>5, <3>1 DEF Lead
    <3> QED BY <2>2, <2>3, <2>5, <3>2
  <2> QED BY <2>1, <2>4, <2>5
<1> QED BY <1>2, <1>3, FramesLen

LEMMA SampleAhead ==
  ASSUME EInv, Ahead, \A k \in 1..Len(inbox) : Placed(k), Runner!SampleTokens,
         phase = "idle", UNCHANGED <<vars, prevStep, admitVars>>
  PROVE  Ahead'
<1>1. /\ Shape /\ FramesSound /\ Pipeline /\ Worker
  BY DEF EInv, IInv, Ledger
<1>2. /\ UNCHANGED <<req, frames, phase, todo, sched, newReqs, resumedReqs>>
  BY DEF vars, stepVars, admitVars
<1>3. PICK m \in Messages : m = execState.m /\ Executing /\ inbox' = inbox
  BY <1>1, SampleEffect DEF Worker
<1>4. PICK g \in [RowsOf(m) -> Int] :
        /\ \A r \in RowsOf(m) :
             /\ g[r] \in 0..(m.spec[r] + 1)
             /\ g[r] > 0 <=> r \in Emitting(m)
             /\ outbox'[Len(outbox) + 1].generated[r] = g[r]
        /\ kvLen' = [r \in Requests |->
                       IF r \notin RowsOf(m) THEN kvLen[r]
                       ELSE IF g[r] = 0 THEN kvLen[r] + m.n[r]
                       ELSE kvLen[r] + m.n[r] - m.spec[r] - 1 + g[r]]
  <2>1. PICK g \in [RowsOf(m) -> Int] : Drawn(m, g)
    BY <1>1, <1>3, Sampling
  <2> QED BY <2>1 DEF Drawn
<1>5. PICK O, L \in Nat :
        /\ O = Len(outbox) /\ L = Len(inbox) /\ Len(frames) = O + 1 + L
        /\ O + 1 \in 1..Len(frames) /\ Announces(m, frames[O + 1])
        /\ Len(outbox') = O + 1
        /\ \A k \in 1..O : outbox'[k] = outbox[k]
  <2>1. PICK O, L \in Nat : O = Len(outbox) /\ L = Len(inbox)
    BY <1>1, Stages
  <2>2. Len(frames) = O + 1 + L
    BY <1>1, <1>3, <2>1, Stages DEF InHand
  <2>3. O + 1 \in 1..(O + 1 + L)
    OBVIOUS
  <2>4. PICK o \in Answers : outbox' = Append(outbox, o)
    BY <1>1, SampleEffect
  <2>5. Len(outbox') = O + 1 /\ \A k \in 1..O : outbox'[k] = outbox[k]
    BY <1>1, <2>1, <2>4, AppendProperties DEF Pipeline
  <2> QED BY <1>1, <1>3, <2>1, <2>2, <2>3, <2>5 DEF Pipeline
<1>6. /\ frames[O + 1].n = m.n /\ frames[O + 1].spec = m.spec
      /\ frames[O + 1].emits = Emitting(m)
  BY <1>5 DEF Announces
<1>7. ASSUME NEW r \in Requests
      PROVE  /\ kvLen[r] \in Int /\ kvLen'[r] \in Int
             /\ Share(O + 1, r) \in Int /\ Share(O + 1, r)' \in Int
             /\ kvLen'[r] + Share(O + 1, r)' = kvLen[r] + Share(O + 1, r)
             /\ frames[O + 1].n[r] = 0 =>
                  kvLen'[r] = kvLen[r] /\ Share(O + 1, r)' = Share(O + 1, r)
  <2>1. PICK kv, n, s \in Int : kv = kvLen[r] /\ n = m.n[r] /\ s = m.spec[r]
    BY MessageFacts DEF Ahead
  <2>2. n >= 0 /\ (n = 0 <=> r \notin RowsOf(m))
    <3>1. frames[O + 1].n[r] >= 0
      BY <1>1, <1>5, FramesLen DEF FramesSound
    <3>2. n >= 0
      BY <1>6, <2>1, <3>1
    <3> QED BY <2>1, <3>2 DEF RowsOf
  <2>3. Share(O + 1, r) = n
    <3>1. ~(O + 1 <= Len(outbox))
      BY <1>5
    <3> QED BY <1>6, <2>1, <3>1 DEF Share
  <2>4. Share(O + 1, r)' = IF r \in Emitting(m)
                           THEN s + 1 - outbox'[O + 1].generated[r] ELSE 0
    <3>1. O + 1 <= Len(outbox') /\ phase' # "update"
      BY <1>2, <1>5
    <3> QED BY <1>2, <1>6, <2>1, <3>1 DEF Share
  <2>5. PICK kw, q \in Int :
          /\ kvLen'[r] = kw /\ Share(O + 1, r)' = q
          /\ kw + q = kv + n /\ (n = 0 => kw = kv /\ q = n)
    <3>1. CASE r \notin RowsOf(m)
      <4>1. kvLen'[r] = kv
        BY <1>4, <2>1, <3>1
      <4>2. Share(O + 1, r)' = 0
        BY <2>4, <3>1 DEF Emitting
      <4>3. n = 0
        BY <2>2, <3>1
      <4> QED BY <4>1, <4>2, <4>3
    <3>2. CASE r \in RowsOf(m)
      <4>1. PICK c \in Int : c = g[r] /\ c >= 0
        BY <1>4, <2>1, <3>2
      <4>2. n # 0
        BY <2>2, <3>2
      <4>3. CASE c = 0
        <5>1. r \notin Emitting(m)
          <6>1. ~(g[r] > 0)
            BY <4>1, <4>3
          <6> QED BY <1>4, <3>2, <6>1
        <5>2. PICK kw \in Int : kw = kv + n
          OBVIOUS
        <5>3. kvLen'[r] = kw
          BY <1>4, <2>1, <3>2, <4>1, <4>3, <5>2
        <5>4. Share(O + 1, r)' = 0
          BY <2>4, <5>1
        <5> QED BY <4>2, <5>2, <5>3, <5>4
      <4>4. CASE c # 0
        <5>1. r \in Emitting(m) /\ outbox'[O + 1].generated[r] = c
          BY <1>4, <1>5, <3>2, <4>1, <4>4
        <5>2. PICK kw, q \in Int : kw = kv + n - s - 1 + c /\ q = s + 1 - c
          OBVIOUS
        <5>3. kvLen'[r] = kw
          BY <1>4, <2>1, <3>2, <4>1, <4>4, <5>2
        <5>4. Share(O + 1, r)' = q
          BY <2>4, <5>1, <5>2
        <5>5. kw + q = kv + n
          BY <5>2
        <5> QED BY <4>2, <5>3, <5>4, <5>5
      <4> QED BY <4>3, <4>4
    <3> QED BY <3>1, <3>2
  <2>6. frames[O + 1].n[r] = n
    BY <1>6, <2>1
  <2> QED BY <2>1, <2>3, <2>5, <2>6
<1>8. ASSUME NEW r \in Requests, NEW k \in 1..Len(frames), k # O + 1
      PROVE  Share(k, r)' = Share(k, r)
  <2>1. CASE k <= O
    <3>1. k \in 1..O /\ k <= O + 1
      BY <1>5, <2>1
    <3> QED BY <1>2, <1>5, <3>1 DEF Share
  <2>2. CASE k > O + 1
    <3>1. ~(k <= Len(outbox)) /\ ~(k <= Len(outbox'))
      BY <1>5, <2>2
    <3> QED BY <1>2, <3>1 DEF Share
  <2> QED BY <1>5, <1>8, <2>1, <2>2
<1>9. ASSUME NEW r \in Requests
      PROVE  Base(r)' + Lead(r)' = Base(r) + Lead(r)
  <2>1. PICK p, q, l, kv, kw \in Int :
          /\ p = Share(O + 1, r) /\ q = Share(O + 1, r)' /\ l = Lead(r)
          /\ kv = kvLen[r] /\ kw = kvLen'[r]
          /\ kw + q = kv + p
    BY <1>1, <1>7, LeadFacts
  <2>2. Lead(r)' = l - p + q
    BY <1>1, <1>2, <1>5, <1>8, <2>1, LeadChanges
  <2>3. CASE \E k \in 1..Len(inbox) : r \in FromPrefix(inbox[k])
    <3>1. PICK k \in 1..Len(inbox) : r \in FromPrefix(inbox[k])
      BY <2>3
    <3>2. frames[O + 1].n[r] = 0
      <4>1. O + 1 \in 1..(Len(frames) - Len(inbox) + k - 1)
        BY <1>5
      <4> QED BY <3>1, <4>1 DEF Placed, Apart
    <3>3. q = p /\ kw = kv
      BY <1>7, <2>1, <3>2
    <3>4. PICK b \in Int : b = Base(r)
      BY <1>1, BaseType
    <3>5. Base(r)' = b
      BY <1>3, <2>1, <3>3, <3>4 DEF Base, FromPrefix
    <3>6. PICK lw \in Int : lw = l - p + q
      OBVIOUS
    <3>7. Lead(r)' = lw /\ lw = l
      BY <2>2, <3>3, <3>6
    <3> QED BY <2>1, <3>4, <3>5, <3>7
  <2>4. CASE ~\E k \in 1..Len(inbox) : r \in FromPrefix(inbox[k])
    <3>1. /\ Len(inbox) >= 2 => 2 \in 1..Len(inbox)
          /\ Len(inbox) >= 1 => 1 \in 1..Len(inbox)
      BY <1>5
    <3>2. Base(r) = kv
      BY <2>1, <2>4, <3>1 DEF Base
    <3>3. Base(r)' = kw
      BY <1>3, <2>1, <2>4, <3>1 DEF Base, FromPrefix
    <3>4. PICK lw \in Int : lw = l - p + q
      OBVIOUS
    <3>5. Lead(r)' = lw
      BY <2>2, <3>4
    <3>6. kw + q = kv + p
      BY <2>1
    <3>7. kw + lw = kv + l
      BY <3>4, <3>6
    <3> QED BY <2>1, <3>2, <3>3, <3>5, <3>7
  <2> QED BY <2>3, <2>4
<1>10. kvLen' \in [Requests -> Int]
  BY <1>4, <1>7
<1>11. Admitted' = Admitted /\ Scheduled' = Scheduled
  BY <1>2 DEF Admitted, Scheduled
<1>12. \A r \in Requests : Absent(r)' <=> Absent(r)
  BY <1>2 DEF Absent
<1>13. \A r \in Admitted : r \in Requests
  BY DEF Ahead, Scheduled
<1> QED BY <1>2, <1>9, <1>10, <1>11, <1>12, <1>13 DEF Ahead

-----------------------------------------------------------------------------
(* The messages on their way, and what the worker has.                     *)

\* Only Execute, Send and EndReceive disturb them.
LEMMA GroundsSame ==
  ASSUME Grounds, UNCHANGED <<runnerVars, frames>>
  PROVE  Grounds'
<1>1. UNCHANGED <<inbox, outbox, requests, rows, prevIndex, sampled, gpuComputed,
                  execState, kvLen>>
  BY DEF runnerVars
<1>2. Executing' <=> Executing
  BY <1>1 DEF Executing
<1>3. Grounded'
  BY <1>1, <1>2 DEF Grounds, Grounded, Drafted, Emitting, RowsOf
<1>4. ASSUME NEW k \in 1..Len(inbox)
      PROVE  Placed(k)'
  <2>1. Placed(k)
    BY DEF Grounds
  <2>2. Apart(k)' <=> Apart(k)
    BY <1>1 DEF Apart, FromPrefix
  <2> QED BY <1>1, <1>2, <2>1, <2>2
      DEF Placed, Drafted, Emitting, RowsOf, FromPrefix
<1>5. AheadIsCorrected'
  BY <1>1 DEF Grounds, AheadIsCorrected
<1> QED BY <1>1, <1>3, <1>4, <1>5 DEF Grounds

LEMMA Undisturbed ==
  ASSUME EngineNext, ~Execute, ~Send, ~EndReceive
  PROVE  UNCHANGED <<runnerVars, frames>>
<1>1. CASE Begin
  BY <1>1 DEF Begin, BeginSchedule
<1>2. CASE RunningLoop
  BY <1>2 DEF RunningLoop, SkipRunning, ScheduleRunning, PreemptLast, EndRunning
<1>3. CASE AdmitHead
  BY <1>3 DEF AdmitHead, Admit
<1>4. CASE Receive
  BY <1>4 DEF Receive, BeginUpdate
<1>5. ASSUME NEW r \in Requests, UpdateRow(r) \/ SkipRow(r)
      PROVE  UNCHANGED <<runnerVars, frames>>
  BY <1>5 DEF UpdateRow, SkipRow, SkipFinished
<1>6. CASE Outside
  BY <1>6 DEF Outside, ClientStep, AddRequest, Abort, SetPauseState
<1> QED BY <1>1, <1>2, <1>3, <1>4, <1>5, <1>6 DEF EngineNext

LEMMA EndReceiveGrounds ==
  ASSUME EInv, Grounds, EndReceive
  PROVE  Grounds'
<1>1. /\ Shape /\ Pipeline /\ Answering
  BY DEF EInv, IInv
<1>2. /\ UNCHANGED <<inbox, requests, rows, prevIndex, sampled, gpuComputed,
                     execState, kvLen>>
      /\ phase = "update" /\ frames' = Tail(frames) /\ outbox' = Tail(outbox)
  BY DEF EndReceive, EndUpdate
<1>3. Executing' <=> Executing
  BY <1>2 DEF Executing
<1>4. /\ frames \in Seq(ShapedFrame) /\ frames # <<>>
      /\ outbox \in Seq(Answers) /\ outbox # <<>>
  BY <1>1, <1>2 DEF Shape, Answering, Pipeline
<1>5. PICK F, O \in Nat :
        /\ Len(frames) = F + 1 /\ Len(frames') = F
        /\ \A k \in 1..F : frames'[k] = frames[k + 1]
        /\ Len(outbox) = O + 1 /\ Len(outbox') = O /\ O <= F
        /\ \A k \in 1..O : outbox'[k] = outbox[k + 1]
  <2>1. Len(frames) \in Nat \ {0} /\ Len(outbox) \in Nat \ {0}
    BY <1>4, EmptySeq, LenProperties
  <2>2. PICK F, O \in Nat : F = Len(frames) - 1 /\ O = Len(outbox) - 1
    <3>1. Len(frames) - 1 \in Nat /\ Len(outbox) - 1 \in Nat
      BY <2>1
    <3> QED BY <3>1
  <2>3. O <= F
    <3>1. Len(outbox) <= Len(frames)
      BY <1>1, Stages
    <3> QED BY <2>1, <2>2, <3>1
  <2>4. Len(frames) = F + 1 /\ Len(outbox) = O + 1
    BY <2>1, <2>2
  <2>5. /\ Len(frames') = F /\ \A k \in 1..F : frames'[k] = frames[k + 1]
    BY <1>2, <1>4, <2>2, HeadTailProperties
  <2>6. /\ Len(outbox') = O /\ \A k \in 1..O : outbox'[k] = outbox[k + 1]
    BY <1>2, <1>4, <2>2, HeadTailProperties
  <2> QED BY <2>3, <2>4, <2>5, <2>6
<1>6. Grounded'
  <2>1. ASSUME outbox' # <<>>
        PROVE  /\ frames'[Len(outbox')] = frames[Len(outbox)]
               /\ outbox'[Len(outbox')] = outbox[Len(outbox)]
               /\ outbox # <<>>
    <3>1. outbox' \in Seq(Answers)
      BY <1>2, <1>4, HeadTailProperties
    <3>2. O \in 1..O /\ O \in 1..F
      BY <1>5, <2>1, <3>1, EmptySeq
    <3> QED BY <1>4, <1>5, <3>2
  <2> QED BY <1>2, <1>3, <1>4, <2>1 DEF Grounds, Grounded, Drafted, Emitting, RowsOf
<1>7. ASSUME NEW k \in 1..Len(inbox)
      PROVE  Placed(k)'
  <2>1. Placed(k) /\ Apart(k)
    BY DEF Grounds, Placed
  <2>2. Apart(k)'
    <3>1. PICK L, i \in Nat : L = Len(inbox) /\ i = k /\ L <= F + 1 /\ i >= 1 /\ i <= L
      BY <1>1, <1>5, Stages
    <3>2. SUFFICES ASSUME NEW r \in FromPrefix(inbox[k]), NEW j \in 1..(F - L + i - 1)
                   PROVE  frames'[j].n[r] = 0
      BY <1>2, <1>5, <3>1 DEF Apart, FromPrefix
    <3>3. j + 1 \in 1..((F + 1) - L + i - 1) /\ j \in 1..F
      BY <3>1
    <3>4. frames[j + 1].n[r] = 0
      BY <1>5, <2>1, <3>1, <3>3 DEF Apart
    <3> QED BY <1>5, <3>3, <3>4
  <2> QED BY <1>2, <1>3, <2>1, <2>2 DEF Placed, Drafted, Emitting, RowsOf, FromPrefix
<1>8. AheadIsCorrected'
  BY <1>2 DEF Grounds, AheadIsCorrected
<1> QED BY <1>2, <1>6, <1>7, <1>8 DEF Grounds

\* The drafts of the step that is sent.
LEMMA DraftedOutput ==
  ASSUME IInv, NextDeliverable
  PROVE  Drafted(Output)
<1>1. Shape /\ Ledger
  BY DEF IInv
<1>2. SUFFICES ASSUME NEW r \in Requests, Output.spec[r] > 0
               PROVE  /\ Output.n[r] = Output.spec[r] + 1
                      /\ r \in Emitting(Output)
  BY DEF Drafted
<1>3. /\ Output.spec = schedSpec /\ Output.n = sched
      /\ Output.outputs[r] = req[r].out + req[r].ph
      /\ Output.computed[r] = req[r].computed
  BY DEF Output, OutputTokens
<1>4. PICK c, n, s, o, ph, pl \in Int :
        /\ c = req[r].computed /\ n = sched[r] /\ s = schedSpec[r]
        /\ o = req[r].out /\ ph = req[r].ph /\ pl = PromptLen[r]
        /\ n >= 0 /\ s > 0
  <2>1. sched[r] >= 0
    BY <1>1 DEF Ledger, Books, StepBooked
  <2> QED BY <1>1, <1>2, <1>3, <2>1, Numbers
<1>5. NumTokens(r) = pl + o
  BY <1>4 DEF NumTokens
<1>6. n > 0 /\ c + n = pl + o + ph + s /\ c = pl + o - 1 + ph
  <2>1. /\ sched[r] = 0 => schedSpec[r] = 0
        /\ sched[r] > 0 =>
             /\ \/ schedSpec[r] = 0
                \/ req[r].computed + sched[r] =
                     NumTokens(r) + req[r].ph + schedSpec[r]
             /\ schedSpec[r] > 0 =>
                  req[r].computed = NumTokens(r) - 1 + req[r].ph
    BY <1>1 DEF Ledger, Books, StepBooked
  <2> QED BY <1>4, <1>5, <2>1
<1>7. n = s + 1
  BY <1>6
<1>8. c + n >= pl + (o + ph)
  BY <1>4, <1>6
<1> QED BY <1>3, <1>4, <1>6, <1>7, <1>8 DEF Emitting, RowsOf

\* Where the rows of the step that is sent start.
LEMMA PlacedOutput ==
  ASSUME EInv, Ahead, Grounds, phase = "waiting", Len(frames) < 2,
         NEW r \in Scheduled, r \notin Admitted
  PROVE  IF Len(inbox) = 0
         THEN IF Executing
              THEN req[r].computed = kvLen[r] + execState.m.n[r]
              ELSE \/ req[r].computed = kvLen[r]
                   \/ /\ r \in ToSet(rows) /\ requests[r].prevDraft > 0
                      /\ req[r].computed = gpuComputed[prevIndex[r]] + 1
                                           + requests[r].prevDraft
         ELSE req[r].computed = inbox[1].n[r]
                + (IF r \in FromPrefix(inbox[1])
                   THEN inbox[1].computed[r] ELSE kvLen[r])
<1>1. /\ Shape /\ Ledger /\ FramesSound /\ Pipeline /\ NextDeliverable /\ Worker
      /\ r \in Requests /\ Grounded
  BY DEF EInv, IInv, Ledger, Scheduled, Grounds
<1>2. req[r].computed = Base(r) + Lead(r)
  <2>1. req[r].status = "RUNNING"
    BY <1>1 DEF Ledger, Books, StepBooked, Scheduled
  <2> QED BY <1>1, <2>1 DEF Ahead
<1>3. PICK kv \in Int : kv = kvLen[r]
  BY <1>1 DEF Ahead
<1>4. /\ Len(frames) \in {0, 1} /\ Len(inbox) \in {0, 1} /\ Len(outbox) \in {0, 1}
      /\ Len(frames) = Len(outbox) + InHand + Len(inbox) /\ InHand \in {0, 1}
  <2>1. PICK f, i, o \in {0, 1, 2} :
          f = Len(frames) /\ i = Len(inbox) /\ o = Len(outbox)
    BY <1>1, Stages
  <2>2. InHand \in {0, 1} /\ Len(frames) = Len(outbox) + InHand + Len(inbox)
    BY <1>1, Stages
  <2>3. f < 2 /\ f = o + InHand + i
    BY <2>1, <2>2
  <2>4. f \in {0, 1} /\ i \in {0, 1} /\ o \in {0, 1}
    BY <2>2, <2>3
  <2> QED BY <2>1, <2>2, <2>4
<1>5. CASE Len(inbox) = 1
  <2>1. /\ Len(outbox) = 0 /\ Len(frames) = 1 /\ InHand = 0
        /\ 1 \in 1..Len(frames) /\ 1 \in 1..Len(inbox)
    BY <1>4, <1>5
  <2>2. Announces(inbox[1], frames[1])
    <3>1. Len(outbox) + InHand + 1 = 1
      BY <2>1
    <3>2. Announces(inbox[1], frames[Len(outbox) + InHand + 1])
      BY <1>1, <2>1, FramesAnnounced
    <3> QED BY <3>1, <3>2
  <2>3. PICK n, b \in Int :
          /\ n = inbox[1].n[r]
          /\ b = IF r \in FromPrefix(inbox[1]) THEN inbox[1].computed[r]
                 ELSE kvLen[r]
    <3>1. inbox[1] \in Messages
      BY <1>1, <2>1, Stages
    <3>2. inbox[1].n[r] \in Int /\ inbox[1].computed[r] \in Int
      BY <1>1, <3>1, MessageFacts
    <3> QED BY <1>3, <3>2
  <2>4. Share(1, r) = n
    <3>1. ~(1 <= Len(outbox))
      BY <2>1
    <3> QED BY <2>2, <2>3, <3>1 DEF Share, Announces
  <2>5. Lead(r) = n + 0
    BY <2>1, <2>4 DEF Lead
  <2>6. Base(r) = b
    BY <1>5, <2>3 DEF Base
  <2>7. req[r].computed = n + b
    BY <1>2, <2>5, <2>6
  <2> QED BY <1>5, <2>3, <2>7
<1>6. CASE Len(inbox) = 0
  <2>1. Base(r) = kv
    BY <1>3, <1>6 DEF Base
  <2>2. CASE Executing
    <3>1. /\ InHand = 1 /\ Len(outbox) = 0 /\ Len(frames) = 1
      BY <1>4, <1>6, <2>2 DEF InHand
    <3>2. Announces(execState.m, frames[1])
      <4>1. Announces(execState.m, frames[Len(outbox) + 1])
        BY <1>1, <2>2 DEF Pipeline
      <4>2. Len(outbox) + 1 = 1
        BY <3>1
      <4> QED BY <4>1, <4>2
    <3>3. PICK n \in Int : n = execState.m.n[r]
      BY <1>1, <2>2, MessageFacts DEF Worker
    <3>4. Share(1, r) = n
      <4>1. ~(1 <= Len(outbox))
        BY <3>1
      <4> QED BY <3>2, <3>3, <4>1 DEF Share, Announces
    <3>5. Lead(r) = n + 0
      BY <3>1, <3>4 DEF Lead
    <3>6. req[r].computed = kv + n
      BY <1>2, <2>1, <3>5
    <3> QED BY <1>3, <1>6, <2>2, <3>3, <3>6
  <2>3. CASE ~Executing /\ Len(outbox) = 0
    <3>1. Len(frames) = 0
      BY <1>4, <1>6, <2>3 DEF InHand
    <3>2. Lead(r) = 0 + 0
      BY <3>1 DEF Lead
    <3>3. req[r].computed = kv
      BY <1>2, <2>1, <3>2
    <3> QED BY <1>3, <1>6, <2>3, <3>3
  <2>4. CASE ~Executing /\ Len(outbox) = 1
    <3>1. Len(frames) = 1 /\ 1 \in 1..Len(frames)
      BY <1>4, <1>6, <2>4 DEF InHand
    <3>2. Lead(r) = Share(1, r) + 0
      BY <3>1 DEF Lead
    <3>3. PICK s \in Int : s = Share(1, r)
      BY <1>1, <3>1, ShareFacts
    <3>4. req[r].computed = kv + s
      BY <1>2, <2>1, <3>2, <3>3
    <3>5. CASE s = 0
      <4>1. req[r].computed = kv
        BY <3>4, <3>5
      <4> QED BY <1>3, <1>6, <2>4, <4>1
    <3>6. CASE s # 0
      <4>1. r \in frames[1].emits
        BY <1>1, <2>4, <3>1, <3>3, <3>6, ShareFacts
      <4>2. PICK d, c \in Int : d = frames[1].spec[r] /\ c = outbox[1].generated[r]
        BY <1>1, <2>4, <3>1, <4>1, ShareFacts
      <4>3. s = d + 1 - c
        BY <2>4, <3>3, <4>1, <4>2 DEF Share
      <4>4. d > 0
        <5>1. d = 0 => c = 1
          <6>1. 1 <= Len(outbox)
            BY <2>4
          <6>2. frames[1].spec[r] = 0 => outbox[1].generated[r] = 1
            BY <1>1, <3>1, <4>1, <6>1, ShareFacts
          <6> QED BY <4>2, <6>2
        <5>2. d >= 0
          BY <1>1, <3>1, <4>2, OwedFacts
        <5> QED BY <3>6, <4>3, <5>1, <5>2
      <4>5. r \in ToSet(rows)
        <5>1. frames # <<>>
          BY <3>1
        <5>2. prevStep = RowsOf(frames[1]) /\ prevStep = Before(1)
          <6>1. Len(inbox) + 1 = 1
            BY <1>6
          <6> QED BY <1>1, <3>1, <5>1, <6>1 DEF NextDeliverable
        <5>3. frames[1].n[r] > 0
          BY <1>1, <3>1, <4>1, FramesLen DEF FramesSound
        <5> QED BY <1>1, <5>2, <5>3 DEF RowsOf, Before
      <4>6. outbox # <<>>
        BY <2>4
      <4>7. /\ requests[r].prevDraft = d
            /\ gpuComputed[prevIndex[r]] \in Int
            /\ kvLen[r] = gpuComputed[prevIndex[r]] + sampled.count[prevIndex[r]]
            /\ sampled.count[prevIndex[r]] = c
        BY <1>1, <2>4, <4>2, <4>4, <4>5, <4>6 DEF Grounded
      <4>8. PICK p \in Int : p = gpuComputed[prevIndex[r]]
        BY <4>7
      <4>9. kv = p + c
        BY <1>3, <4>7, <4>8
      <4>10. req[r].computed = p + 1 + d
        BY <3>4, <4>3, <4>9
      <4> QED BY <1>6, <2>4, <4>4, <4>5, <4>7, <4>8, <4>10
    <3> QED BY <3>5, <3>6
  <2> QED BY <1>4, <2>2, <2>3, <2>4
<1> QED BY <1>4, <1>5, <1>6

LEMMA SendGrounds ==
  ASSUME EInv, Ahead, Grounds, Send
  PROVE  Grounds'
<1>1. /\ IInv /\ Shape /\ Ledger /\ Pipeline /\ NextDeliverable
  BY DEF EInv, IInv
<1>2. /\ UNCHANGED <<outbox, requests, rows, prevIndex, sampled, gpuComputed,
                     execState, kvLen>>
      /\ phase = "waiting" /\ Len(frames) < 2
  BY <1>1, SendEffect DEF Send
<1>3. Executing' <=> Executing
  BY <1>2 DEF Executing
<1>4. PICK F, L \in Nat :
        /\ F = Len(frames) /\ Len(frames') = F + 1
        /\ \A k \in 1..F : frames'[k] = frames[k]
        /\ L = Len(inbox) /\ Len(inbox') = L + 1 /\ L <= 1 /\ L <= F
        /\ \A k \in 1..L : inbox'[k] = inbox[k]
        /\ inbox'[L + 1] = Output
        /\ Len(outbox) \in Nat /\ Len(outbox) <= F
  <2>1. PICK F, L \in Nat : F = Len(frames) /\ L = Len(inbox)
    BY <1>1, Stages
  <2>2. L <= 1 /\ L <= F /\ Len(outbox) \in Nat /\ Len(outbox) <= F
    BY <1>1, <1>2, <2>1, Stages
  <2>3. /\ Len(frames') = F + 1 /\ \A k \in 1..F : frames'[k] = frames[k]
        /\ Len(inbox') = L + 1 /\ \A k \in 1..L : inbox'[k] = inbox[k]
        /\ inbox'[L + 1] = Output
    BY <1>1, <2>1, SendEffect
  <2> QED BY <2>1, <2>2, <2>3
<1>5. Grounded'
  <2>1. ASSUME outbox # <<>>
        PROVE  frames'[Len(outbox)] = frames[Len(outbox)]
    <3>1. Len(outbox) # 0
      BY <1>1, <2>1, EmptySeq DEF Pipeline
    <3>2. Len(outbox) \in 1..F
      BY <1>4, <3>1
    <3> QED BY <1>4, <3>2
  <2> QED BY <1>2, <1>3, <2>1 DEF Grounds, Grounded, Drafted, Emitting, RowsOf
<1>6. ASSUME NEW k \in 1..L
      PROVE  Placed(k)'
  <2>1. Placed(k) /\ Apart(k) /\ inbox'[k] = inbox[k]
    BY <1>4 DEF Grounds, Placed
  <2>2. k # 1 => inbox'[k - 1] = inbox[k - 1]
    <3>1. k # 1 => k - 1 \in 1..L
      OBVIOUS
    <3> QED BY <1>4, <3>1
  <2>3. Apart(k)'
    <3>1. SUFFICES ASSUME NEW r \in FromPrefix(inbox[k]),
                          NEW j \in 1..((F + 1) - (L + 1) + k - 1)
                   PROVE  frames'[j].n[r] = 0
      BY <1>4, <2>1 DEF Apart, FromPrefix
    <3>2. j \in 1..(F - L + k - 1) /\ j \in 1..F
      BY <1>4
    <3>3. frames[j].n[r] = 0
      BY <1>4, <2>1, <3>2 DEF Apart
    <3> QED BY <1>4, <3>2, <3>3
  <2> QED BY <1>2, <1>3, <2>1, <2>2, <2>3
      DEF Placed, Drafted, Emitting, RowsOf, FromPrefix
<1>7. Placed(L + 1)'
  <2>1. PICK m : m = Output /\ m = inbox'[L + 1]
    BY <1>4
  <2>2. /\ RowsOf(m) = Scheduled /\ FromPrefix(m) = Admitted /\ Drafted(m)
    BY <1>1, <2>1, OutputFields, DraftedOutput DEF FromPrefix, Admitted
  <2>3. Admitted \subseteq Scheduled
    BY DEF Ahead
  <2>4. Apart(L + 1)'
    <3>1. SUFFICES ASSUME NEW r \in Admitted,
                          NEW j \in 1..((F + 1) - (L + 1) + (L + 1) - 1)
                   PROVE  frames'[j].n[r] = 0
      BY <1>4, <2>1, <2>2 DEF Apart, FromPrefix
    <3>2. j \in 1..F
      BY <1>4
    <3> QED BY <1>4, <3>2 DEF Ahead, Absent
  <2>5. \A r \in RowsOf(m) : m.computed[r] = req[r].computed
    BY <2>1 DEF Output, RowsOf
  <2>6. CASE L = 0
    <3>1. \A r \in Scheduled \ Admitted :
            IF Executing
            THEN req[r].computed = kvLen[r] + execState.m.n[r]
            ELSE \/ req[r].computed = kvLen[r]
                 \/ /\ r \in ToSet(rows) /\ requests[r].prevDraft > 0
                    /\ req[r].computed = gpuComputed[prevIndex[r]] + 1
                                         + requests[r].prevDraft
      BY <1>2, <1>4, <2>6, PlacedOutput
    <3>2. L + 1 = 1 /\ inbox'[1] = m
      BY <1>4, <2>1, <2>6
    <3>3. Apart(1)'
      BY <2>4, <3>2
    <3>4. Placed(1)'
      BY <1>2, <1>3, <2>2, <2>3, <2>5, <3>1, <3>2, <3>3
      DEF Placed, Drafted, Emitting, RowsOf, FromPrefix
    <3> QED BY <3>2, <3>4
  <2>7. CASE L = 1
    <3>1. \A r \in Scheduled \ Admitted :
            req[r].computed = inbox[1].n[r]
                + (IF r \in FromPrefix(inbox[1])
                   THEN inbox[1].computed[r] ELSE kvLen[r])
      <4>1. Len(inbox) # 0
        BY <1>4, <2>7
      <4> QED BY <1>2, <4>1, PlacedOutput
    <3>2. L + 1 = 2 /\ inbox'[2] = m /\ 2 # 1 /\ 2 - 1 = 1 /\ inbox'[1] = inbox[1]
      BY <1>4, <2>1, <2>7
    <3>3. Apart(2)'
      BY <2>4, <3>2
    <3>4. Placed(2)'
      BY <1>2, <1>3, <2>2, <2>3, <2>5, <3>1, <3>2, <3>3
      DEF Placed, Drafted, Emitting, RowsOf, FromPrefix
    <3> QED BY <3>2, <3>4
  <2> QED BY <1>4, <2>6, <2>7
<1>8. \A k \in 1..Len(inbox') : Placed(k)'
  <2>1. \A k \in 1..(L + 1) : k \in 1..L \/ k = L + 1
    BY <1>4
  <2> QED BY <1>4, <1>6, <1>7, <2>1
<1>9. AheadIsCorrected'
  BY <1>2 DEF Grounds, AheadIsCorrected
<1> QED BY <1>5, <1>8, <1>9 DEF Grounds

\* A row starts where the KV of its request ends: from its cached prefix,
\* from where the scheduler says it is, or, if it had drafts in the step
\* before, from where that step really ended.
LEMMA StartsRight ==
  ASSUME EInv, Ahead, Grounds, Runner!ExecuteModel, NEW i \in DOMAIN rows'
  PROVE  /\ gpuComputed'[i] = kvLen'[rows'[i]] /\ i \in DOMAIN gpuComputed'
         /\ inbox[1].computed[rows'[i]] # gpuComputed'[i] =>
              requests'[rows'[i]].computed = gpuComputed'[i]
<1>1. /\ Shape /\ Pipeline /\ Worker /\ Deliverable /\ Grounded
  BY DEF EInv, IInv, Grounds
<1>2. /\ ~Executing /\ inbox # <<>> /\ ToSet(rows') = RowsOf(inbox[1])
      /\ rows' \in Seq(Requests)
  BY <1>1, ExecuteEffect
<1>3. PICK m \in Messages : m = inbox[1] /\ 1 \in 1..Len(inbox)
  BY <1>1, <1>2, Stages
<1>4. PICK r \in RowsOf(m) : r = rows'[i] /\ r \in Requests
  BY <1>2, <1>3 DEF ToSet, RowsOf
<1>5. /\ kvLen'[r] = (IF r \in FromPrefix(m) THEN m.computed[r] ELSE kvLen[r])
      /\ gpuComputed'[i] = Runner!StartOf(m, rows', i)
      /\ i \in DOMAIN gpuComputed'
      /\ requests' = Corrections
  BY <1>1, <1>3, <1>4, TakeUp
<1>6. /\ Runner!InStep(m) = RowsOf(m) /\ r \notin m.finished
      /\ r \in m.new \/ r \in DOMAIN requests
  <2>1. Runner!InStep(m) = RowsOf(m)
    BY DEF Runner!InStep, RowsOf
  <2> QED BY <1>1, <1>2, <1>3, <2>1, Oldest
<1>7. r \in Runner!KeepRow(m) <=> r \in ToSet(rows) /\ r \notin m.resumed
  BY <1>6, SameOperators DEF Runner!KeepRow
<1>8. Placed(1)
  BY <1>3 DEF Grounds
<1>9. CASE r \notin Runner!Deferred(m)
  <2>1. gpuComputed'[i] = m.computed[r]
    BY <1>4, <1>5, <1>9 DEF Runner!StartOf
  <2>2. m.computed[r] = kvLen'[r]
    <3>1. CASE r \in FromPrefix(m)
      BY <1>5, <3>1
    <3>2. CASE r \notin FromPrefix(m)
      <4>1. r \notin m.new /\ r \notin m.resumed
        BY <3>2 DEF FromPrefix
      <4>2. ~(r \in ToSet(rows) /\ requests[r].prevDraft > 0)
        BY <1>6, <1>7, <1>9, <4>1 DEF Runner!Deferred, Runner!Assumed
      <4>3. m.computed[r] = kvLen[r]
        BY <1>2, <1>3, <1>8, <3>2, <4>2 DEF Placed
      <4> QED BY <1>5, <3>2, <4>3
    <3> QED BY <3>1, <3>2
  <2> QED BY <1>3, <1>4, <1>5, <2>1, <2>2
<1>10. CASE r \in Runner!Deferred(m)
  <2>1. /\ r \notin m.new /\ r \in Runner!KeepRow(m) /\ requests[r].prevDraft > 0
    <3>1. Runner!Assumed(m, r) > 0 /\ r \notin m.new
      BY <1>10 DEF Runner!Deferred
    <3>2. CASE r \in Runner!KeepRow(m)
      BY <3>1, <3>2 DEF Runner!Assumed
    <3>3. CASE r \notin Runner!KeepRow(m)
      <4>1. Runner!Assumed(m, r) = 0
        BY <3>3 DEF Runner!Assumed
      <4> QED BY <3>1, <4>1
    <3> QED BY <3>1, <3>2, <3>3
  <2>2. r \in ToSet(rows) /\ r \notin FromPrefix(m)
    BY <1>7, <2>1 DEF FromPrefix
  <2>3. /\ sampled # <<>> /\ r \in DOMAIN prevIndex /\ prevIndex[r] > 0
        /\ gpuComputed[prevIndex[r]] \in Int
        /\ kvLen[r] = gpuComputed[prevIndex[r]] + sampled.count[prevIndex[r]]
        /\ sampled.count[prevIndex[r]] \in Int
    BY <1>1, <1>2, <2>1, <2>2 DEF Grounded, Worker
  <2>4. PICK p, c, d \in Int :
          /\ p = gpuComputed[prevIndex[r]] /\ c = sampled.count[prevIndex[r]]
          /\ d = requests[r].prevDraft
    BY <1>1, <1>6, <2>1, <2>3 DEF Worker, Cached
  <2>5. r \in DOMAIN Runner!PrevIndex(m)
    <3>1. r \in DOMAIN prevIndex /\ r \in Runner!KeepRow(m)
      BY <2>1, <2>3
    <3> QED BY <3>1 DEF Runner!PrevIndex
  <2>6. gpuComputed'[i] = p + c
    <3>1. Runner!PrevPosition(m, rows', i) = prevIndex[r]
      BY <1>4, <2>5 DEF Runner!PrevPosition
    <3> QED BY <1>4, <1>5, <1>10, <2>3, <2>4, <3>1
            DEF Runner!StartOf, Runner!None
  <2>7. kvLen'[r] = p + c
    BY <1>5, <2>2, <2>3, <2>4
  <2>8. PICK w \in Int : w = m.computed[r] /\ (w = p + c \/ w = p + 1 + d)
    <3>1. m.computed[r] \in Int
      BY <1>4, MessageFacts
    <3>2. \/ m.computed[r] = kvLen[r]
          \/ m.computed[r] = gpuComputed[prevIndex[r]] + 1 + requests[r].prevDraft
      BY <1>2, <1>3, <1>8, <2>2 DEF Placed
    <3> QED BY <2>3, <2>4, <3>1, <3>2
  <2>9. requests'[r].computed = w - (d - (c - 1))
    <3>1. r \in DOMAIN States /\ States[r] \in Cached
      BY <1>1, <1>2, <1>3, UpdatedStates
    <3>2. States[r].computed = m.computed[r]
      BY <1>3, <1>6, <2>1 DEF States, Runner!UpdatedRequests, Runner!CachedState
    <3>3. Corrections[r] =
            [States[r] EXCEPT !.computed = @ - Runner!Correction(r)]
      BY <1>3, <1>10, <2>3, <2>5, <3>1
      DEF Corrections, Runner!CorrectedRequests, Runner!None
    <3>4. Runner!Correction(r) = d - (c - 1)
      BY <2>4 DEF Runner!Correction
    <3>5. Corrections[r].computed = States[r].computed - Runner!Correction(r)
      BY <3>1, <3>3 DEF Cached
    <3> QED BY <1>5, <2>8, <3>2, <3>4, <3>5
  <2>10. PICK e \in Int : e = p + c
    OBVIOUS
  <2>11. w # e => w - (d - (c - 1)) = e
    BY <2>8, <2>10
  <2> QED BY <1>3, <1>4, <1>5, <2>6, <2>7, <2>8, <2>9, <2>10, <2>11
<1> QED BY <1>9, <1>10

LEMMA ExecuteGrounds ==
  ASSUME EInv, Ahead, Grounds, Runner!ExecuteModel, UNCHANGED frames
  PROVE  Grounds'
<1>1. /\ Shape /\ FramesSound /\ Pipeline /\ Worker /\ Deliverable
  BY DEF EInv, IInv, Ledger
<1>2. /\ ~Executing /\ inbox # <<>> /\ ToSet(rows') = RowsOf(inbox[1])
      /\ rows' \in Seq(Requests) /\ inbox' = Tail(inbox)
      /\ \A r \in RowsOf(inbox[1]) : requests'[r].prevDraft = inbox[1].spec[r]
  BY <1>1, ExecuteEffect
<1>3. PICK m \in Messages : m = inbox[1] /\ 1 \in 1..Len(inbox)
  BY <1>1, <1>2, Stages
<1>4. /\ Placed(1) /\ Drafted(m) /\ FromPrefix(m) \subseteq RowsOf(m)
  BY <1>3 DEF Grounds, Placed
<1>5. \/ RowsOf(m) = {} /\ ~Executing'
      \/ RowsOf(m) # {} /\ Executing' /\ execState'.m = m
  BY <1>1, <1>3, ExecuteEffect DEF Executing
<1>6. ASSUME NEW r \in Requests
      PROVE  kvLen'[r] = IF r \in FromPrefix(m) THEN m.computed[r] ELSE kvLen[r]
  <2>1. CASE RowsOf(m) = {}
    BY <1>1, <1>3, <1>4, <2>1, TakeUp
  <2>2. CASE RowsOf(m) # {}
    BY <1>1, <1>3, <2>2, TakeUp
  <2> QED BY <2>1, <2>2
<1>8. \A i \in DOMAIN rows' : rows'[i] \in RowsOf(m)
  BY <1>2, <1>3 DEF ToSet
<1>9. Grounded'
  <2>1. CASE RowsOf(m) = {} /\ ~Executing'
    <3>1. \A r \in ToSet(rows)' : FALSE
      BY <1>2, <1>3, <2>1
    <3> QED BY <2>1, <3>1 DEF Grounded
  <2>2. CASE RowsOf(m) # {} /\ Executing' /\ execState'.m = m
    <3>1. \A i \in DOMAIN rows' :
            /\ i \in DOMAIN gpuComputed' /\ gpuComputed'[i] = kvLen'[rows'[i]]
            /\ requests'[rows'[i]].prevDraft = m.spec[rows'[i]]
      BY <1>2, <1>3, <1>8, StartsRight
    <3>2. Drafted(execState.m)'
      BY <1>4, <2>2 DEF Drafted, Emitting, RowsOf
    <3> QED BY <2>2, <3>1, <3>2 DEF Grounded
  <2> QED BY <1>5, <2>1, <2>2
<1>10. AheadIsCorrected'
  <2>1. CASE ~Executing'
    BY <2>1 DEF AheadIsCorrected, Executing
  <2>2. CASE execState'.m = m
    <3>1. \A i \in DOMAIN rows' :
            m.computed[rows'[i]] # gpuComputed'[i] =>
              requests'[rows'[i]].computed = gpuComputed'[i]
      BY <1>3, StartsRight
    <3> QED BY <2>2, <3>1 DEF AheadIsCorrected
  <2> QED BY <1>5, <2>1, <2>2
<1>11. ASSUME NEW k \in 1..Len(inbox')
       PROVE  Placed(k)'
  <2>1. /\ Len(inbox) = 2 /\ Len(inbox') = 1 /\ k = 1 /\ inbox'[1] = inbox[2]
        /\ 2 \in 1..Len(inbox)
    <3>1. /\ Len(inbox) \in {1, 2} /\ Len(inbox') = Len(inbox) - 1
          /\ \A j \in 1..Len(inbox') : inbox'[j] = inbox[j + 1]
      BY <1>1, <1>2, TakeOldest
    <3>2. Len(inbox) = 2 /\ Len(inbox') = 1 /\ k = 1 /\ 1 \in 1..Len(inbox')
      BY <3>1
    <3>3. inbox'[1] = inbox[1 + 1]
      BY <3>1, <3>2
    <3> QED BY <3>2, <3>3
  <2>2. Placed(2) /\ Apart(2)
    BY <2>1 DEF Grounds, Placed
  <2>3. PICK M \in Messages : M = inbox[2]
    BY <1>1, <2>1, Stages
  <2>4. Apart(1)'
    <3>1. PICK F \in Nat : F = Len(frames)
      BY <1>1, Stages
    <3>2. F - 1 + 1 - 1 = F - 2 + 2 - 1
      BY <3>1
    <3> QED BY <2>1, <2>2, <3>1, <3>2 DEF Apart, FromPrefix
  <2>5. /\ Drafted(M) /\ FromPrefix(M) \subseteq RowsOf(M)
        /\ \A r \in RowsOf(M) \ FromPrefix(M) :
             M.computed[r] = m.n[r] + (IF r \in FromPrefix(m) THEN m.computed[r]
                                       ELSE kvLen[r])
    <3>1. 2 # 1 /\ 2 - 1 = 1
      OBVIOUS
    <3> QED BY <1>3, <2>2, <2>3, <3>1 DEF Placed
  <2>6. ASSUME NEW r \in RowsOf(M) \ FromPrefix(M)
        PROVE  IF Executing' THEN M.computed[r] = kvLen'[r] + execState'.m.n[r]
               ELSE M.computed[r] = kvLen'[r]
    <3>1. r \in Requests
      BY DEF RowsOf
    <3>2. PICK n, b \in Int :
            /\ n = m.n[r]
            /\ b = IF r \in FromPrefix(m) THEN m.computed[r] ELSE kvLen[r]
      BY <3>1, MessageFacts DEF Ahead
    <3>3. M.computed[r] = n + b /\ kvLen'[r] = b
      BY <1>6, <2>5, <3>1, <3>2
    <3>4. CASE RowsOf(m) = {} /\ ~Executing'
      <4>1. frames[Len(frames) - 1].n[r] = n /\ Len(frames) - 1 \in 1..Len(frames)
        <5>1. PICK O \in Nat : O = Len(outbox) /\ Len(frames) = O + 0 + 2
          BY <1>1, <1>2, <2>1, Stages DEF InHand
        <5>2. Announces(m, frames[O + InHand + 1])
          BY <1>1, <1>3, <5>1, FramesAnnounced
        <5>3. O + InHand + 1 = O + 1 /\ Len(frames) - 1 = O + 1
          BY <1>2, <5>1 DEF InHand
        <5> QED BY <3>2, <5>1, <5>2, <5>3 DEF Announces
      <4>2. n >= 0
        BY <1>1, <3>1, <4>1, FramesLen DEF FramesSound
      <4>3. ~(n > 0)
        BY <3>1, <3>2, <3>4 DEF RowsOf
      <4>4. n = 0
        BY <4>2, <4>3
      <4>5. M.computed[r] = b
        BY <3>3, <4>4
      <4> QED BY <3>3, <3>4, <4>5
    <3>5. CASE Executing' /\ execState'.m = m
      <4>1. M.computed[r] = b + n
        BY <3>3
      <4> QED BY <3>2, <3>3, <3>5, <4>1
    <3> QED BY <1>5, <3>4, <3>5
  <2>7. Placed(1)'
    <3>1. inbox'[1] = M
      BY <2>1, <2>3
    <3> QED BY <2>4, <2>5, <2>6, <3>1 DEF Placed, Drafted, Emitting, RowsOf, FromPrefix
  <2> QED BY <2>1, <2>7
<1> QED BY <1>9, <1>10, <1>11 DEF Grounds

LEMMA SampleGrounds ==
  ASSUME EInv, Ahead, Grounds, Runner!SampleTokens, UNCHANGED frames
  PROVE  Grounds'
<1>1. /\ Shape /\ FramesSound /\ Pipeline /\ Worker /\ Grounded
  BY DEF EInv, IInv, Ledger, Grounds
<1>2. /\ Executing /\ ~Executing' /\ execState' = <<>>
      /\ UNCHANGED <<inbox, rows>>
      /\ \A r \in DOMAIN requests : requests'[r].prevDraft = requests[r].prevDraft
  BY <1>1, SampleEffect DEF Executing
<1>3. PICK m \in Messages : m = execState.m /\ ToSet(rows) = RowsOf(m)
  BY <1>1, <1>2 DEF Worker
<1>4. PICK g \in [RowsOf(m) -> Int] :
        /\ \A r \in RowsOf(m) :
             /\ g[r] \in 0..(m.spec[r] + 1)
             /\ g[r] > 0 <=> r \in Emitting(m)
             /\ outbox'[Len(outbox) + 1].generated[r] = g[r]
             /\ r \in Emitting(m) =>
                  /\ r \in DOMAIN prevIndex'
                  /\ prevIndex'[r] \in DOMAIN rows
                  /\ rows[prevIndex'[r]] = r
                  /\ sampled'.count[prevIndex'[r]] = g[r]
        /\ kvLen' = [r \in Requests |->
                       IF r \notin RowsOf(m) THEN kvLen[r]
                       ELSE IF g[r] = 0 THEN kvLen[r] + m.n[r]
                       ELSE kvLen[r] + m.n[r] - m.spec[r] - 1 + g[r]]
  <2>1. PICK g \in [RowsOf(m) -> Int] : Drawn(m, g)
    BY <1>1, <1>3, Sampling
  <2> QED BY <2>1 DEF Drawn
<1>5. sampled' # <<>> /\ gpuComputed' = gpuComputed
  BY <1>1, Sampling
<1>6. PICK O, L \in Nat :
        /\ O = Len(outbox) /\ L = Len(inbox) /\ Len(frames) = O + 1 + L
        /\ O + 1 \in 1..Len(frames) /\ L <= 1
        /\ Len(outbox') = O + 1
  <2>1. PICK O, L \in Nat : O = Len(outbox) /\ L = Len(inbox)
    BY <1>1, Stages
  <2>2. Len(frames) = O + 1 + L /\ Len(frames) <= 2
    <3>1. InHand = 1
      BY <1>2 DEF InHand
    <3>2. Len(frames) = O + 1 + L /\ Len(frames) \in {0, 1, 2}
      BY <1>1, <2>1, <3>1, Stages
    <3> QED BY <3>2
  <2>3. O + 1 \in 1..(O + 1 + L) /\ L <= 1
    BY <2>2
  <2>4. PICK o \in Answers : outbox' = Append(outbox, o)
    BY <1>1, SampleEffect
  <2>5. Len(outbox') = O + 1
    BY <1>1, <2>1, <2>4, AppendProperties DEF Pipeline
  <2> QED BY <2>1, <2>2, <2>3, <2>5
<1>7. Announces(m, frames[O + 1])
  BY <1>1, <1>2, <1>3, <1>6 DEF Pipeline
<1>8. ASSUME NEW r \in RowsOf(m)
      PROVE  /\ requests'[r].prevDraft = m.spec[r] /\ r \in Requests
             /\ m.spec[r] > 0 =>
                  /\ m.n[r] = m.spec[r] + 1 /\ r \in Emitting(m)
                  /\ r \in DOMAIN prevIndex' /\ prevIndex'[r] > 0
                  /\ gpuComputed[prevIndex'[r]] = kvLen[r]
                  /\ kvLen'[r] = gpuComputed[prevIndex'[r]]
                                 + sampled'.count[prevIndex'[r]]
                  /\ outbox'[O + 1].generated[r] = sampled'.count[prevIndex'[r]]
  <2>1. r \in DOMAIN requests /\ r \in Requests
    BY <1>1, <1>3 DEF Worker, RowsOf
  <2>2. PICK i \in DOMAIN rows : rows[i] = r
    BY <1>3 DEF ToSet
  <2>3. requests'[r].prevDraft = m.spec[r]
    BY <1>1, <1>2, <1>3, <2>1, <2>2 DEF Grounded
  <2>4. ASSUME m.spec[r] > 0
        PROVE  /\ m.n[r] = m.spec[r] + 1 /\ r \in Emitting(m)
               /\ r \in DOMAIN prevIndex' /\ prevIndex'[r] > 0
               /\ gpuComputed[prevIndex'[r]] = kvLen[r]
               /\ kvLen'[r] = gpuComputed[prevIndex'[r]]
                              + sampled'.count[prevIndex'[r]]
               /\ outbox'[O + 1].generated[r] = sampled'.count[prevIndex'[r]]
    <3>1. m.n[r] = m.spec[r] + 1 /\ r \in Emitting(m)
      BY <1>1, <1>2, <1>3, <2>1, <2>4 DEF Grounded, Drafted
    <3>2. PICK j \in DOMAIN rows :
            /\ j = prevIndex'[r] /\ r \in DOMAIN prevIndex'
            /\ rows[j] = r /\ sampled'.count[j] = g[r]
      BY <1>4, <3>1
    <3>3. j > 0
      BY <1>1 DEF Worker
    <3>4. gpuComputed[j] = kvLen[r]
      BY <1>1, <1>2, <3>2 DEF Grounded
    <3>5. PICK kv, s, c \in Int :
            kv = kvLen[r] /\ s = m.spec[r] /\ c = g[r] /\ c > 0
      <4>1. m.spec[r] \in Int /\ kvLen[r] \in Int
        BY <2>1, MessageFacts DEF Ahead
      <4>2. g[r] > 0 /\ g[r] \in Int
        BY <1>4, <3>1
      <4> QED BY <4>1, <4>2
    <3>6. kvLen'[r] = kv + (s + 1) - s - 1 + c
      <4>1. g[r] # 0
        BY <3>5
      <4>2. kvLen'[r] = kvLen[r] + m.n[r] - m.spec[r] - 1 + g[r]
        BY <1>4, <2>1, <4>1
      <4> QED BY <3>1, <3>5, <4>2
    <3>7. kv + (s + 1) - s - 1 + c = kv + c
      BY <3>5
    <3>8. outbox'[O + 1].generated[r] = c
      BY <1>4, <1>6, <3>5
    <3> QED BY <3>1, <3>2, <3>3, <3>4, <3>5, <3>6, <3>7, <3>8
  <2> QED BY <2>1, <2>3, <2>4
<1>9. Grounded'
  <2>1. ASSUME NEW r \in ToSet(rows)'
        PROVE  /\ requests'[r].prevDraft > 0 =>
                    /\ sampled' # <<>> /\ r \in DOMAIN prevIndex'
                    /\ prevIndex'[r] > 0
                    /\ gpuComputed'[prevIndex'[r]] \in Int
                    /\ kvLen'[r] = gpuComputed'[prevIndex'[r]]
                                   + sampled'.count[prevIndex'[r]]
               /\ frames'[Len(outbox')].spec[r] = requests'[r].prevDraft
               /\ requests'[r].prevDraft > 0 =>
                    /\ r \in frames'[Len(outbox')].emits
                    /\ outbox'[Len(outbox')].generated[r] =
                         sampled'.count[prevIndex'[r]]
    <3>1. r \in RowsOf(m) /\ r \in Requests
      BY <1>2, <1>3 DEF RowsOf
    <3>2. kvLen[r] \in Int
      BY <3>1 DEF Ahead
    <3>3. frames'[Len(outbox')].spec = m.spec /\ frames'[Len(outbox')].emits = Emitting(m)
      BY <1>6, <1>7 DEF Announces
    <3> QED BY <1>5, <1>6, <1>8, <3>1, <3>2, <3>3
  <2> QED BY <1>2, <2>1 DEF Grounded
<1>10. AheadIsCorrected'
  BY <1>2 DEF AheadIsCorrected
<1>11. ASSUME NEW k \in 1..Len(inbox')
       PROVE  Placed(k)'
  <2>1. k = 1 /\ 1 \in 1..Len(inbox) /\ L = 1
    BY <1>2, <1>6
  <2>2. PICK M \in Messages : M = inbox[1] /\ M = inbox'[1]
    BY <1>1, <1>2, <2>1, Stages
  <2>3. Placed(1) /\ Apart(1)
    BY <2>1 DEF Grounds, Placed
  <2>4. Apart(1)'
    BY <1>2, <2>3 DEF Apart, FromPrefix
  <2>5. /\ Drafted(M) /\ FromPrefix(M) \subseteq RowsOf(M)
        /\ \A r \in RowsOf(M) \ FromPrefix(M) :
             M.computed[r] = kvLen[r] + m.n[r]
    BY <1>2, <1>3, <2>2, <2>3 DEF Placed
  <2>6. ASSUME NEW r \in RowsOf(M) \ FromPrefix(M)
        PROVE  \/ M.computed[r] = kvLen'[r]
               \/ /\ r \in ToSet(rows) /\ requests'[r].prevDraft > 0
                  /\ M.computed[r] = gpuComputed'[prevIndex'[r]] + 1
                                     + requests'[r].prevDraft
    <3>1. PICK kv, n, s \in Int : /\ kv = kvLen[r] /\ n = m.n[r] /\ s = m.spec[r]
                                  /\ s >= 0 /\ n >= 0
      <4>1. r \in Requests
        BY DEF RowsOf
      <4>2. m.n[r] \in Int /\ m.spec[r] \in Nat /\ kvLen[r] \in Int
        BY <4>1, MessageFacts DEF Ahead
      <4>3. frames[O + 1].n[r] >= 0
        BY <1>1, <1>6, <4>1, FramesLen DEF FramesSound
      <4> QED BY <1>7, <4>2, <4>3 DEF Announces
    <3>2. M.computed[r] = kv + n /\ r \in Requests
      BY <2>5, <3>1 DEF RowsOf
    <3>3. CASE r \notin RowsOf(m)
      <4>1. n = 0
        BY <3>1, <3>2, <3>3 DEF RowsOf
      <4>2. kvLen'[r] = kv
        BY <1>4, <3>1, <3>2, <3>3
      <4>3. kv + n = kv
        BY <4>1
      <4> QED BY <3>2, <4>2, <4>3
    <3>4. CASE r \in RowsOf(m) /\ s > 0
      <4>1. /\ requests'[r].prevDraft = s /\ n = s + 1
            /\ gpuComputed'[prevIndex'[r]] = kv
        BY <1>5, <1>8, <3>1, <3>4
      <4>2. kv + n = kv + 1 + s
        BY <4>1
      <4> QED BY <1>3, <3>2, <3>4, <4>1, <4>2
    <3>5. CASE r \in RowsOf(m) /\ s = 0
      <4>1. PICK c \in Int : c = g[r] /\ c \in {0, 1}
        <5>1. g[r] \in 0..(s + 1)
          BY <1>4, <3>1, <3>5
        <5> QED BY <3>5, <5>1
      <4>2. kvLen'[r] = IF c = 0 THEN kv + n ELSE kv + n - s - 1 + c
        BY <1>4, <3>1, <3>2, <3>5, <4>1
      <4>3. c = 0 \/ kv + n - s - 1 + c = kv + n
        BY <3>5, <4>1
      <4> QED BY <3>2, <4>2, <4>3
    <3> QED BY <3>1, <3>3, <3>4, <3>5
  <2>7. Placed(1)'
    BY <1>2, <2>2, <2>4, <2>5, <2>6 DEF Placed, Drafted, Emitting, RowsOf, FromPrefix
  <2> QED BY <2>1, <2>7
<1> QED BY <1>9, <1>10, <1>11 DEF Grounds

-----------------------------------------------------------------------------
(* The positions agree.                                                    *)

LEMMA InitPositions ==
  ASSUME EngineInit
  PROVE  Positions
<1>1. /\ Init /\ inbox = <<>> /\ outbox = <<>> /\ rows = <<>> /\ execState = <<>>
      /\ kvLen = [r \in Requests |-> 0] /\ newReqs = {} /\ resumedReqs = {}
  BY DEF EngineInit, Runner!RunnerInit, Runner!None
<1>2. frames = <<>> /\ \A r \in Requests : req[r].status = "NEW"
  BY <1>1 DEF Init
<1>3. Len(<<>>) = 0 /\ \A k \in 1..0 : FALSE
  OBVIOUS
<1>4. Ahead
  BY <1>1, <1>2, <1>3 DEF Ahead, Admitted, Absent
<1>5. ToSet(rows) = {}
  BY <1>1 DEF ToSet
<1>6. Grounds
  BY <1>1, <1>3, <1>5 DEF Grounds, Grounded, AheadIsCorrected, Executing
<1> QED BY <1>4, <1>6 DEF Positions

LEMMA StepPositions ==
  ASSUME EInv, Positions, [EngineNext]_engineVars
  PROVE  Positions'
<1>1. Ahead /\ Grounds /\ \A k \in 1..Len(inbox) : Placed(k)
  BY DEF Positions, Grounds
<1>2. CASE UNCHANGED engineVars
  <2>1. /\ UNCHANGED <<runnerVars, frames>>
        /\ UNCHANGED <<kvLen, inbox, outbox, frames, req, phase, todo, sched,
                       newReqs, resumedReqs>>
    BY <1>2 DEF engineVars, vars, runnerVars, admitVars, stepVars
  <2>2. Grounds'
    BY <1>1, <2>1, GroundsSame
  <2>3. /\ Admitted' = Admitted /\ Scheduled' = Scheduled
        /\ \A r \in Requests : Lead(r)' = Lead(r)
    BY <2>1, SameLead DEF Admitted, Scheduled
  <2>4. Ahead'
    BY <1>1, <2>1, <2>3, AheadKept DEF Ahead
  <2> QED BY <2>2, <2>4 DEF Positions
<1>3. CASE Execute
  <2>1. /\ UNCHANGED <<vars, prevStep, admitVars>> /\ phase = "idle"
        /\ Runner!ExecuteModel \/ Runner!SampleTokens
        /\ UNCHANGED frames
    BY <1>3 DEF Execute, Runner!RunnerStep, vars
  <2>2. CASE Runner!ExecuteModel
    BY <1>1, <2>1, <2>2, ExecuteAhead, ExecuteGrounds DEF Positions
  <2>3. CASE Runner!SampleTokens
    BY <1>1, <2>1, <2>3, SampleAhead, SampleGrounds DEF Positions
  <2> QED BY <2>1, <2>2, <2>3
<1>4. CASE Send
  BY <1>1, <1>4, SendAhead, SendGrounds DEF Positions
<1>5. CASE EndReceive
  BY <1>1, <1>5, EndReceiveAhead, EndReceiveGrounds DEF Positions
<1>6. CASE EngineNext /\ ~Execute /\ ~Send /\ ~EndReceive
  <2>1. Grounds'
    BY <1>1, <1>6, Undisturbed, GroundsSame
  <2>2. ASSUME NEW r \in Requests, UpdateRow(r) \/ SkipRow(r)
        PROVE  Ahead'
    BY <1>1, <2>2, RowAhead
  <2>3. Ahead'
    BY <1>1, <1>6, <2>2, BeginAhead, RunningLoopAhead, AdmitHeadAhead, OutsideAhead
    DEF EngineNext
  <2> QED BY <2>1, <2>3 DEF Positions
<1> QED BY <1>2, <1>3, <1>4, <1>5, <1>6

\* In every state of the engine the scheduler is ahead of the worker by just
\* the drafts and steps in flight, the GPU counts the positions whose KV is there,
\* and every step on its way starts behind them, drafts taken for accepted.
THEOREM PositionsHold == EngineSpec => []Positions
<1>1. EngineInit => Positions
  BY InitPositions
<1>2. EInv /\ Positions /\ [EngineNext]_engineVars => Positions'
  BY StepPositions
<1> QED BY <1>1, <1>2, EInvHolds, PTL DEF EngineSpec

(***************************************************************************)
(* However far num_computed_tokens runs ahead of what the step before      *)
(* accepted, correct_spec_decode_token_counts() brings the CPU to where    *)
(* the GPU started, for any number of drafts, rows and steps: the drafts   *)
(* the scheduler counted as accepted are exactly those the worker takes    *)
(* back.                                                                   *)
(***************************************************************************)
THEOREM CorrectionsMeet == EngineSpec => []AheadIsCorrected
<1>1. Positions => AheadIsCorrected
  BY DEF Positions, Grounds
<1> QED BY <1>1, PositionsHold, PTL

-----------------------------------------------------------------------------
(* The tokens of both sides.                                               *)

LEMMA SendTally ==
  ASSUME EInv, Ahead, Tally, Send
  PROVE  Tally'
<1>1. /\ Shape /\ Ledger /\ FramesSound /\ Pipeline /\ NextDeliverable
  BY DEF EInv, IInv, Ledger
<1>2. /\ UNCHANGED <<known, outbox>> /\ phase = "waiting" /\ phase' = "idle"
      /\ newReqs' = {}
      /\ req' = [r \in Requests |-> IF r \in Scheduled THEN Advanced(r) ELSE req[r]]
  BY <1>1, SendEffect DEF Send
<1>3. \A r \in Requests : req'[r].status = req[r].status /\ req'[r].out = req[r].out
  BY <1>2 DEF Advanced
<1>4. PICK F, L, O \in Nat :
        /\ F = Len(frames) /\ L = Len(inbox) /\ O = Len(outbox) /\ O <= F
        /\ \A k \in 1..F : frames'[k] = frames[k]
        /\ Len(inbox') = L + 1 /\ \A k \in 1..L : inbox'[k] = inbox[k]
        /\ inbox'[L + 1] = Output
  <2>1. PICK F, L, O \in Nat :
          F = Len(frames) /\ L = Len(inbox) /\ O = Len(outbox) /\ O <= F
    BY <1>1, Stages
  <2> QED BY <1>1, <2>1, SendEffect
<1>5. ASSUME NEW r \in Requests
      PROVE  Pending(r)' = Pending(r)
  <2>1. ASSUME NEW k \in {1, 2}
        PROVE  Unread(k, r)' = Unread(k, r)
    <3>1. CASE k <= O
      <4>1. frames'[k] = frames[k]
        <5>1. k \in 1..F
          BY <1>4, <3>1
        <5> QED BY <1>4, <5>1
      <4> QED BY <1>2, <4>1 DEF Unread
    <3>2. CASE ~(k <= O)
      BY <1>2, <1>4, <3>2 DEF Unread
    <3> QED BY <3>1, <3>2
  <2>2. Unread(1, r)' = Unread(1, r) /\ Unread(2, r)' = Unread(2, r)
    BY <2>1
  <2> QED BY <2>2 DEF Pending
<1>6. Output.new = newReqs
  BY DEF Output
<1>7. ASSUME NEW r \in Requests, req'[r].status \in Active
      PROVE  NumTokens(r)' + Pending(r)' = Told(r)'
  <2>1. NumTokens(r)' = NumTokens(r)
    BY <1>3 DEF NumTokens
  <2>2. CASE r \in newReqs
    <3>1. PICK pl \in Int : pl = PromptLen[r]
      BY <1>1, Numbers
    <3>2. req[r].out = 0
      BY <1>1, <2>2 DEF NextDeliverable
    <3>3. NumTokens(r) = pl + 0
      BY <3>1, <3>2 DEF NumTokens
    <3>4. Pending(r) = 0
      <4>1. r \in Admitted
        BY <2>2 DEF Admitted
      <4> QED BY <1>1, <4>1, PendingFacts DEF Ahead
    <3>5. Told(r)' = pl
      <4>1. L + 1 \in 1..Len(inbox') /\ r \in inbox'[L + 1].new
        BY <1>4, <1>6, <2>2
      <4> QED BY <3>1, <4>1 DEF Told
    <3> QED BY <1>5, <2>1, <3>1, <3>3, <3>4, <3>5
  <2>3. CASE r \notin newReqs
    <3>1. Told(r)' = Told(r)
      <4>1. (\E k \in 1..Len(inbox') : r \in inbox'[k].new)
              <=> \E k \in 1..Len(inbox) : r \in inbox[k].new
        <5>1. ASSUME NEW k \in 1..L
              PROVE  k \in 1..(L + 1) /\ inbox'[k] = inbox[k]
          BY <1>4
        <5>2. \A k \in 1..(L + 1) : k \in 1..L \/ k = L + 1
          OBVIOUS
        <5> QED BY <1>4, <1>6, <2>3, <5>1, <5>2
      <4> QED BY <1>2, <4>1 DEF Told
    <3>2. NumTokens(r) + Pending(r) = Told(r)
      BY <1>3, <1>7, <2>3 DEF Tally
    <3> QED BY <1>5, <2>1, <3>1, <3>2
  <2> QED BY <2>2, <2>3
<1> QED BY <1>2, <1>7 DEF Tally

\* What a step that is taken up leaves alone, and what it finds.

LEMMA SampleTally ==
  ASSUME EInv, Ahead, Tally, \A k \in 1..Len(inbox) : Placed(k),
         Runner!SampleTokens, phase = "idle", UNCHANGED <<vars, prevStep, admitVars>>
  PROVE  Tally'
<1>1. /\ Shape /\ FramesSound /\ Pipeline /\ Worker
  BY DEF EInv, IInv, Ledger
<1>2. /\ UNCHANGED <<req, frames, phase, todo, newReqs>>
  BY DEF vars, admitVars
<1>3. PICK m \in Messages : m = execState.m /\ Executing /\ inbox' = inbox
  BY <1>1, SampleEffect DEF Worker
<1>4. PICK O, L \in Nat :
        /\ O = Len(outbox) /\ L = Len(inbox) /\ Len(frames) = O + 1 + L
        /\ O + 1 \in 1..Len(frames) /\ Announces(m, frames[O + 1])
        /\ Len(outbox') = O + 1 /\ O + 1 \in {1, 2}
        /\ \A k \in 1..O : outbox'[k] = outbox[k]
  <2>1. PICK O, L \in Nat : O = Len(outbox) /\ L = Len(inbox)
    BY <1>1, Stages
  <2>2. Len(frames) = O + 1 + L /\ Len(frames) \in {0, 1, 2}
    BY <1>1, <1>3, <2>1, Stages DEF InHand
  <2>3. O + 1 \in 1..(O + 1 + L) /\ O + 1 \in {1, 2}
    BY <2>2
  <2>4. PICK o \in Answers : outbox' = Append(outbox, o)
    BY <1>1, SampleEffect
  <2>5. Len(outbox') = O + 1 /\ \A k \in 1..O : outbox'[k] = outbox[k]
    BY <1>1, <2>1, <2>4, AppendProperties DEF Pipeline
  <2> QED BY <1>1, <1>3, <2>1, <2>2, <2>3, <2>5 DEF Pipeline
<1>5. frames[O + 1].emits = Emitting(m) /\ frames[O + 1].n = m.n
  BY <1>4 DEF Announces
<1>6. known' = [r \in Requests |-> IF r \in RowsOf(m)
                                   THEN known[r] + Given(r) ELSE known[r]]
  BY <1>1, <1>3, Outcome
<1>7. ASSUME NEW r \in RowsOf(m)
      PROVE  Given(r) \in Int /\ (r \notin Emitting(m) => Given(r) = 0)
  <2>1. PICK g \in [RowsOf(m) -> Int] : Drawn(m, g)
    BY <1>1, <1>3, Sampling
  <2>2. /\ g[r] \in 0..(m.spec[r] + 1) /\ Given(r) = g[r]
        /\ g[r] > 0 <=> r \in Emitting(m)
    BY <2>1 DEF Drawn, Given
  <2> QED BY <2>1, <2>2
<1>8. ASSUME NEW r \in Requests
      PROVE  Pending(r)' = Pending(r) + (IF r \in RowsOf(m) THEN Given(r) ELSE 0)
  <2>1. \A k \in {1, 2} : Unread(k, r) \in Int /\ (O < k => Unread(k, r) = 0)
    BY <1>1, <1>4, UnreadFacts
  <2>2. Unread(O + 1, r)' = IF r \in RowsOf(m) THEN Given(r) ELSE 0
    <3>1. O + 1 <= Len(outbox') /\ phase' # "update"
      BY <1>2, <1>4
    <3>2. Unread(O + 1, r)' = IF r \in Emitting(m) THEN Given(r) ELSE 0
      BY <1>2, <1>4, <1>5, <3>1 DEF Unread, Given
    <3> QED BY <1>7, <3>2 DEF Emitting
  <2>3. PICK u \in Int :
          u = (IF r \in RowsOf(m) THEN Given(r) ELSE 0) /\ Unread(O + 1, r)' = u
    BY <1>7, <2>2
  <2>4. CASE O = 0
    <3>1. Unread(1, r)' = u
      BY <2>3, <2>4
    <3>2. Unread(2, r)' = 0
      <4>1. ~(2 <= Len(outbox'))
        BY <1>4, <2>4
      <4> QED BY <4>1 DEF Unread
    <3>3. Unread(1, r) = 0 /\ Unread(2, r) = 0
      BY <2>1, <2>4
    <3>4. Pending(r)' = u + 0 /\ Pending(r) = 0 + 0
      BY <3>1, <3>2, <3>3 DEF Pending
    <3> QED BY <2>3, <3>4
  <2>5. CASE O = 1
    <3>1. Unread(2, r)' = u
      BY <2>3, <2>5
    <3>2. Unread(1, r)' = Unread(1, r)
      <4>1. 1 <= Len(outbox') /\ 1 <= Len(outbox) /\ outbox'[1] = outbox[1]
        BY <1>4, <2>5
      <4> QED BY <1>2, <4>1 DEF Unread
    <3>3. PICK one \in Int : one = Unread(1, r)
      BY <2>1
    <3>4. Unread(2, r) = 0
      BY <2>1, <2>5
    <3>5. Pending(r)' = one + u /\ Pending(r) = one + 0
      BY <3>1, <3>2, <3>3, <3>4 DEF Pending
    <3> QED BY <2>3, <3>3, <3>5
  <2> QED BY <1>4, <2>4, <2>5
<1>9. ASSUME NEW r \in Requests, req'[r].status \in Active, r \notin newReqs'
      PROVE  NumTokens(r)' + Pending(r)' = Told(r)'
  <2>1. PICK t, p, k \in Int :
          /\ t = NumTokens(r) /\ p = Pending(r) /\ k = known[r]
          /\ t + p = Told(r)
    BY <1>1, <1>2, <1>9, Numbers, PendingFacts DEF Tally
  <2>2. NumTokens(r)' = t
    BY <1>2, <2>1 DEF NumTokens
  <2>3. CASE \E j \in 1..Len(inbox) : r \in inbox[j].new
    <3>1. PICK j \in 1..Len(inbox) : r \in inbox[j].new
      BY <2>3
    <3>2. frames[O + 1].n[r] = 0
      <4>1. O + 1 \in 1..(Len(frames) - Len(inbox) + j - 1)
        BY <1>4
      <4> QED BY <3>1, <4>1 DEF Placed, Apart, FromPrefix
    <3>3. r \notin RowsOf(m)
      BY <1>5, <3>2 DEF RowsOf
    <3>4. Pending(r)' = p
      BY <1>8, <2>1, <3>3
    <3>5. Told(r)' = Told(r)
      BY <1>3, <3>1 DEF Told
    <3> QED BY <2>1, <2>2, <3>4, <3>5
  <2>4. CASE ~\E j \in 1..Len(inbox) : r \in inbox[j].new
    <3>1. PICK u \in Int : u = IF r \in RowsOf(m) THEN Given(r) ELSE 0
      BY <1>7
    <3>2. Told(r) = k /\ Told(r)' = known'[r]
      BY <1>3, <2>1, <2>4 DEF Told
    <3>3. known'[r] = k + u
      BY <1>6, <2>1, <3>1
    <3>4. Pending(r)' = p + u
      BY <1>8, <2>1, <3>1
    <3> QED BY <2>1, <2>2, <3>2, <3>3, <3>4
  <2> QED BY <2>3, <2>4
<1>10. known' \in [Requests -> Int]
  BY <1>6, <1>7 DEF Tally
<1> QED BY <1>9, <1>10 DEF Tally

-----------------------------------------------------------------------------
(* How far a message on its way runs ahead of the tokens there are.        *)

\* The tokens of r that message m counts, and those its step may add.
Tokens(m, r) == PromptLen[r] + m.outputs[r]
Yield(m, r) == IF r \in Emitting(m) THEN m.spec[r] + 1 ELSE 0

\* A row that samples ends, but for its drafts, with the tokens counted.
Exact(m) ==
  \A r \in Emitting(m) : m.computed[r] + m.n[r] - m.spec[r] = Tokens(m, r)

\* The tokens the k-th message on its way counts for r: all there are, and
\* all that the step before may add; or as many too many as positions.
Expects(k, r) ==
  LET m == inbox[k]
  IN  IF k = 1
      THEN IF Executing THEN Tokens(m, r) = known[r] + Yield(execState.m, r)
           ELSE IF r \in m.resumed THEN Tokens(m, r) = known[r]
           ELSE Tokens(m, r) - known[r] = m.computed[r] - kvLen[r]
      ELSE Tokens(m, r) = (IF r \in inbox[1].new THEN PromptLen[r] ELSE known[r])
                          + Yield(inbox[1], r)

Reckoned(k) ==
  Exact(inbox[k]) /\ \A r \in RowsOf(inbox[k]) \ inbox[k].new : Expects(k, r)

Reckonings == \A k \in 1..Len(inbox) : Reckoned(k)

LEMMA ReckoningsKept ==
  ASSUME Reckonings, UNCHANGED <<inbox, execState, known, kvLen>>
  PROVE  Reckonings'
BY DEF Reckonings, Reckoned, Exact, Expects, Executing, Yield, Tokens, Emitting, RowsOf

LEMMA YieldType ==
  ASSUME NEW m \in Messages, NEW r \in Requests
  PROVE  /\ Yield(m, r) \in Int
         /\ r \notin RowsOf(m) => Yield(m, r) = 0
<1>1. m.spec[r] \in Int
  BY MessageFacts
<1> QED BY <1>1 DEF Yield, Emitting

\* The row of a new message in the books of the scheduler.
LEMMA SentTokens ==
  ASSUME EInv, Ahead, Tally, phase = "waiting", Len(frames) < 2,
         NEW r \in Scheduled, r \notin newReqs
  PROVE  IF Len(inbox) = 0
         THEN IF Executing
              THEN Tokens(Output, r) = known[r] + Yield(execState.m, r)
              ELSE IF r \in resumedReqs THEN Tokens(Output, r) = known[r]
              ELSE Tokens(Output, r) - known[r] = req[r].computed - kvLen[r]
         ELSE Tokens(Output, r) =
                (IF r \in inbox[1].new THEN PromptLen[r] ELSE known[r])
                + Yield(inbox[1], r)
<1>1. /\ Shape /\ Ledger /\ FramesSound /\ Pipeline /\ NextDeliverable /\ Worker
      /\ r \in Requests
  BY DEF EInv, IInv, Ledger, Scheduled
<1>2. req[r].status = "RUNNING" /\ Books(r)
  BY <1>1 DEF Ledger, Books, StepBooked, Scheduled
<1>3. PICK t, p, ph, pend, kv, kn \in Int :
        /\ t = NumTokens(r) /\ p = PromptLen[r] /\ ph = req[r].ph
        /\ pend = Pending(r) /\ kv = kvLen[r] /\ kn = known[r]
        /\ t = p + req[r].out /\ req[r].out \in Int
  BY <1>1, Numbers, PendingFacts DEF Tally, Ahead, NumTokens
<1>4. Tokens(Output, r) = t + ph
  <2>1. Output.outputs[r] = req[r].out + req[r].ph
    BY <1>1, OutputFields
  <2> QED BY <1>3, <2>1 DEF Tokens
<1>5. t + pend = Told(r)
  BY <1>1, <1>2, <1>3 DEF Tally, Active
<1>6. ph = InFlight(r)
  BY <1>2, <1>3 DEF Books, Counted, Unfinished
<1>7. /\ Len(frames) \in {0, 1} /\ Len(inbox) \in {0, 1} /\ Len(outbox) \in {0, 1}
      /\ Len(frames) = Len(outbox) + InHand + Len(inbox) /\ InHand \in {0, 1}
  <2>1. PICK f, i, o \in {0, 1, 2} :
          f = Len(frames) /\ i = Len(inbox) /\ o = Len(outbox)
    BY <1>1, Stages
  <2>2. InHand \in {0, 1} /\ Len(frames) = Len(outbox) + InHand + Len(inbox)
    BY <1>1, Stages
  <2>3. f < 2 /\ f = o + InHand + i
    BY <2>1, <2>2
  <2>4. f \in {0, 1} /\ i \in {0, 1} /\ o \in {0, 1}
    BY <2>2, <2>3
  <2> QED BY <2>1, <2>2, <2>4
<1>8. ASSUME Len(frames) = 1, frames[1].stale = {}
      PROVE  ph = IF r \in frames[1].emits THEN 1 + frames[1].spec[r] ELSE 0
  <2>1. 1 \in 1..Len(frames)
    BY <1>8
  <2>2. PICK o \in Int :
          /\ o = Owed(frames[1], r)
          /\ o = IF r \in frames[1].emits THEN 1 + frames[1].spec[r] ELSE 0
    <3>1. frames[1].spec[r] \in Int /\ Owes(frames[1]) = frames[1].emits
      BY <1>1, <1>8, <2>1, OwedFacts DEF Owes
    <3>2. Owed(frames[1], r) =
            IF r \in Owes(frames[1]) THEN 1 + frames[1].spec[r] ELSE 0
      BY <1>1, <2>1, OwedFacts
    <3> QED BY <3>1, <3>2
  <2>3. InFlight(r) = o + 0
    BY <1>8, <2>2 DEF InFlight
  <2> QED BY <1>6, <2>2, <2>3
<1>9. CASE Len(inbox) = 1
  <2>1. /\ Len(outbox) = 0 /\ Len(frames) = 1 /\ InHand = 0
        /\ 1 \in 1..Len(frames) /\ 1 \in 1..Len(inbox)
    BY <1>7, <1>9
  <2>2. Announces(inbox[1], frames[1])
    <3>1. Len(outbox) + InHand + 1 = 1
      BY <2>1
    <3>2. Announces(inbox[1], frames[Len(outbox) + InHand + 1])
      BY <1>1, <2>1, FramesAnnounced
    <3> QED BY <3>1, <3>2
  <2>3. ph = Yield(inbox[1], r)
    <3>1. inbox[1] \in Messages /\ inbox[1].spec[r] \in Int
      BY <1>1, <2>1, Stages, MessageFacts
    <3> QED BY <1>8, <2>1, <2>2, <3>1 DEF Announces, Yield
  <2>4. pend = 0
    <3>1. Unread(1, r) = 0 /\ Unread(2, r) = 0
      <4>1. ~(1 <= Len(outbox)) /\ ~(2 <= Len(outbox))
        BY <2>1
      <4> QED BY <4>1 DEF Unread
    <3> QED BY <1>3, <3>1 DEF Pending
  <2>5. Told(r) = IF r \in inbox[1].new THEN PromptLen[r] ELSE known[r]
    <3>1. \A k \in 1..Len(inbox) : k = 1
      BY <1>9
    <3> QED BY <2>1, <3>1 DEF Told
  <2>6. Len(inbox) # 0
    BY <1>9
  <2>7. Told(r) = t
    BY <1>3, <1>5, <2>4
  <2> QED BY <1>4, <2>3, <2>5, <2>6, <2>7
<1>10. CASE Len(inbox) = 0
  <2>1. t + pend = kn
    <3>1. \A k \in 1..Len(inbox) : FALSE
      BY <1>10
    <3>2. Told(r) = known[r]
      BY <3>1 DEF Told
    <3> QED BY <1>3, <1>5, <3>2
  <2>2. CASE Executing
    <3>1. /\ InHand = 1 /\ Len(outbox) = 0 /\ Len(frames) = 1
      BY <1>7, <1>10, <2>2 DEF InHand
    <3>2. Announces(execState.m, frames[1])
      <4>1. Announces(execState.m, frames[Len(outbox) + 1])
        BY <1>1, <2>2 DEF Pipeline
      <4>2. Len(outbox) + 1 = 1
        BY <3>1
      <4> QED BY <4>1, <4>2
    <3>3. ph = Yield(execState.m, r)
      <4>1. execState.m \in Messages /\ execState.m.spec[r] \in Int
        BY <1>1, <2>2, MessageFacts DEF Worker
      <4> QED BY <1>8, <3>1, <3>2, <4>1 DEF Announces, Yield
    <3>4. pend = 0
      <4>1. Unread(1, r) = 0 /\ Unread(2, r) = 0
        <5>1. ~(1 <= Len(outbox)) /\ ~(2 <= Len(outbox))
          BY <3>1
        <5> QED BY <5>1 DEF Unread
      <4> QED BY <1>3, <4>1 DEF Pending
    <3>5. t = kn
      BY <2>1, <3>4
    <3> QED BY <1>3, <1>4, <1>10, <2>2, <3>3, <3>5
  <2>3. CASE ~Executing /\ Len(outbox) = 0
    <3>1. Len(frames) = 0
      BY <1>7, <1>10, <2>3 DEF InHand
    <3>2. ph = 0
      BY <1>6, <3>1 DEF InFlight
    <3>3. pend = 0
      <4>1. Unread(1, r) = 0 /\ Unread(2, r) = 0
        <5>1. ~(1 <= Len(outbox)) /\ ~(2 <= Len(outbox))
          BY <2>3
        <5> QED BY <5>1 DEF Unread
      <4> QED BY <1>3, <4>1 DEF Pending
    <3>4. Tokens(Output, r) = kn
      BY <1>4, <2>1, <3>2, <3>3
    <3>5. ASSUME r \notin resumedReqs
          PROVE  req[r].computed = kv
      <4>1. req[r].computed = Base(r) + Lead(r)
        BY <1>1, <1>2, <3>5 DEF Ahead, Admitted
      <4>2. Lead(r) = 0 + 0
        BY <3>1 DEF Lead
      <4>3. Base(r) = kv
        BY <1>3, <1>10 DEF Base
      <4> QED BY <4>1, <4>2, <4>3
    <3>6. r \notin resumedReqs => Tokens(Output, r) - known[r] = req[r].computed - kvLen[r]
      BY <1>3, <3>4, <3>5
    <3> QED BY <1>3, <1>10, <2>3, <3>4, <3>6
  <2>4. CASE ~Executing /\ Len(outbox) = 1
    <3>1. Len(frames) = 1 /\ 1 \in 1..Len(frames) /\ 1 \in 1..Len(outbox)
      BY <1>7, <1>10, <2>4 DEF InHand
    <3>2. frames[1].stale = {}
      BY <1>1, <3>1 DEF Pipeline, Reports
    <3>3. pend = IF r \in frames[1].emits THEN outbox[1].generated[r] ELSE 0
      <4>1. 1 <= Len(outbox) /\ ~(2 <= Len(outbox)) /\ phase # "update"
        BY <2>4
      <4>2. PICK u \in Int : u = Unread(1, r)
        BY <1>1, UnreadFacts
      <4>3. Unread(2, r) = 0
        BY <4>1 DEF Unread
      <4>4. pend = u + 0
        BY <1>3, <4>2, <4>3 DEF Pending
      <4>5. u = IF r \in frames[1].emits THEN outbox[1].generated[r] ELSE 0
        BY <4>1, <4>2 DEF Unread
      <4> QED BY <4>4, <4>5
    <3>4. ASSUME r \in resumedReqs
          PROVE  Tokens(Output, r) = known[r]
      <4>1. frames[1].n[r] = 0
        BY <3>1, <3>4 DEF Ahead, Absent, Admitted
      <4>2. r \notin frames[1].emits
        BY <1>1, <3>1, <4>1, FramesLen DEF FramesSound
      <4>3. ph = 0 /\ pend = 0
        BY <1>8, <3>1, <3>2, <3>3, <4>2
      <4> QED BY <1>3, <1>4, <2>1, <4>3
    <3>5. ASSUME r \notin resumedReqs
          PROVE  Tokens(Output, r) - known[r] = req[r].computed - kvLen[r]
      <4>1. req[r].computed = Base(r) + Lead(r)
        BY <1>1, <1>2, <3>5 DEF Ahead, Admitted
      <4>2. PICK s \in Int : s = Share(1, r)
        BY <1>1, <3>1, ShareFacts
      <4>3. Lead(r) = s + 0
        BY <3>1, <4>2 DEF Lead
      <4>4. Base(r) = kv
        BY <1>3, <1>10 DEF Base
      <4>5. req[r].computed = kv + s
        BY <4>1, <4>3, <4>4
      <4>6. ph - pend = s
        <5>1. s = IF r \in frames[1].emits
                  THEN frames[1].spec[r] + 1 - outbox[1].generated[r] ELSE 0
          <6>1. 1 <= Len(outbox)
            BY <2>4
          <6> QED BY <4>2, <6>1 DEF Share
        <5>2. r \in frames[1].emits =>
                frames[1].spec[r] \in Int /\ outbox[1].generated[r] \in Int
          <6>1. 1 <= Len(outbox)
            BY <2>4
          <6> QED BY <1>1, <3>1, <6>1, ShareFacts
        <5> QED BY <1>8, <3>1, <3>2, <3>3, <5>1, <5>2
      <4>7. (t + ph) - kn = (kv + s) - kv
        BY ONLY <2>1, <4>6, t \in Int, ph \in Int, pend \in Int, kn \in Int,
                kv \in Int, s \in Int
      <4> QED BY <1>3, <1>4, <4>5, <4>7
    <3> QED BY <1>10, <2>4, <3>4, <3>5
  <2> QED BY <1>7, <2>2, <2>3, <2>4
<1> QED BY <1>7, <1>9, <1>10

LEMMA SendReckonings ==
  ASSUME EInv, Ahead, Tally, Reckonings, Send
  PROVE  Reckonings'
<1>1. /\ Shape /\ Ledger /\ Pipeline /\ NextDeliverable
  BY DEF EInv, IInv
<1>2. /\ UNCHANGED <<execState, known, kvLen>> /\ phase = "waiting" /\ Len(frames) < 2
  BY <1>1, SendEffect DEF Send
<1>3. PICK L \in {0, 1} :
        /\ L = Len(inbox) /\ Len(inbox') = L + 1
        /\ \A k \in 1..L : inbox'[k] = inbox[k]
        /\ inbox'[L + 1] = Output
  <2>1. Len(inbox) \in {0, 1}
    <3>1. PICK f, i, o, h \in {0, 1, 2} :
            f = Len(frames) /\ i = Len(inbox) /\ o = Len(outbox) /\ h = InHand
      BY <1>1, Stages
    <3>2. f < 2 /\ f = o + h + i
      BY <1>1, <1>2, <3>1, Stages
    <3> QED BY <3>1, <3>2
  <2>2. PICK L \in {0, 1} : L = Len(inbox)
    BY <2>1
  <2> QED BY <1>1, <2>2, SendEffect
<1>4. ASSUME NEW k \in 1..L
      PROVE  Reckoned(k)'
  <2>1. k = 1 /\ inbox'[k] = inbox[k] /\ Reckoned(k)
    BY <1>3 DEF Reckonings
  <2> QED BY <1>2, <2>1
      DEF Reckoned, Exact, Expects, Executing, Yield, Tokens, Emitting, RowsOf
<1>5. PICK m \in Messages : m = Output /\ m = inbox'[L + 1]
  BY <1>1, <1>3, OutputFields
<1>6. Exact(m)
  <2>1. SUFFICES ASSUME NEW r \in Emitting(m)
                 PROVE  m.computed[r] + m.n[r] - m.spec[r] = Tokens(m, r)
    BY DEF Exact
  <2>2. r \in Requests /\ sched[r] > 0 /\ Emitting(m) = SampledRows
    BY <1>1, <1>5, OutputFields DEF Emitting, RowsOf
  <2>3. PICK c, n, s, t, ph, p, o \in Int :
          /\ c = req[r].computed /\ n = sched[r] /\ s = schedSpec[r]
          /\ t = NumTokens(r) /\ ph = req[r].ph /\ p = PromptLen[r] /\ o = req[r].out
          /\ t = p + o
    <3>1. /\ req[r].computed \in Int /\ sched[r] \in Int /\ schedSpec[r] \in Int
          /\ NumTokens(r) \in Int /\ req[r].ph \in Int /\ PromptLen[r] \in Int
          /\ req[r].out \in Int
      BY <1>1, <2>2, Numbers
    <3>2. PICK c, n, s, t \in Int :
            /\ c = req[r].computed /\ n = sched[r] /\ s = schedSpec[r]
            /\ t = NumTokens(r)
      BY <3>1
    <3>3. NumTokens(r) = PromptLen[r] + req[r].out
      BY DEF NumTokens
    <3> QED BY <3>1, <3>2, <3>3
  <2>4. c + n >= t + ph
    <3>1. r \in SampledRows
      BY <2>2
    <3>2. ~(c + n < t + ph)
      BY <2>3, <3>1 DEF SampledRows, Advanced
    <3> QED BY <2>3, <3>2
  <2>5. c + n = t + ph + s
    <3>1. StepBooked(r)
      BY <1>1, <2>2 DEF Ledger, Books
    <3> QED BY <2>2, <2>3, <2>4, <3>1 DEF StepBooked
  <2>6. /\ m.computed[r] = c /\ m.n[r] = n /\ m.spec[r] = s
        /\ m.outputs[r] = o + ph
    <3>1. m.computed[r] = req[r].computed
      BY <1>5, <2>2 DEF Output
    <3> QED BY <1>1, <1>5, <2>2, <2>3, <3>1, OutputFields
  <2> QED BY <2>3, <2>5, <2>6 DEF Tokens
<1>7. RowsOf(m) = Scheduled /\ m.new = newReqs /\ m.resumed = resumedReqs
  BY <1>1, <1>5, OutputFields
<1>8. ASSUME NEW r \in Scheduled, r \notin newReqs
      PROVE  Expects(L + 1, r)'
  <2>1. m.computed[r] = req[r].computed /\ r \in Requests
    BY <1>5 DEF Output, Scheduled
  <2>2. CASE L = 0
    <3>1. IF Executing
          THEN Tokens(m, r) = known[r] + Yield(execState.m, r)
          ELSE IF r \in m.resumed THEN Tokens(m, r) = known[r]
          ELSE Tokens(m, r) - known[r] = m.computed[r] - kvLen[r]
      BY <1>2, <1>3, <1>5, <1>7, <1>8, <2>1, <2>2, SentTokens
    <3>2. L + 1 = 1 /\ inbox'[1] = m
      BY <1>3, <1>5, <2>2
    <3> QED BY <1>2, <3>1, <3>2
        DEF Expects, Executing, Yield, Tokens, Emitting, RowsOf
  <2>3. CASE L = 1
    <3>1. Tokens(m, r) = (IF r \in inbox[1].new THEN PromptLen[r] ELSE known[r])
                         + Yield(inbox[1], r)
      <4>1. Len(inbox) # 0
        BY <1>3, <2>3
      <4> QED BY <1>2, <1>5, <1>8, <4>1, SentTokens
    <3>2. L + 1 = 2 /\ inbox'[2] = m /\ 2 # 1 /\ inbox'[1] = inbox[1]
      BY <1>3, <1>5, <2>3
    <3> QED BY <1>2, <3>1, <3>2
        DEF Expects, Executing, Yield, Tokens, Emitting, RowsOf
  <2> QED BY <2>2, <2>3
<1>9. Reckoned(L + 1)'
  <2>1. Exact(inbox[L + 1])'
    BY <1>5, <1>6 DEF Exact, Tokens, Emitting, RowsOf
  <2>2. (RowsOf(inbox[L + 1]) \ inbox[L + 1].new)' = Scheduled \ newReqs
    BY <1>5, <1>7 DEF RowsOf
  <2> QED BY <1>8, <2>1, <2>2 DEF Reckoned
<1>10. \A k \in 1..(L + 1) : k \in 1..L \/ k = L + 1
  BY <1>3
<1> QED BY <1>3, <1>4, <1>9, <1>10 DEF Reckonings

\* Length and tokens of the rows of a step nobody runs.
LEMMA ExecuteReckonings ==
  ASSUME EInv, Ahead, Grounds, Tally, Reckonings, Runner!ExecuteModel,
         UNCHANGED frames
  PROVE  Reckonings'
<1>1. /\ Shape /\ FramesSound /\ Pipeline /\ Worker /\ Deliverable
  BY DEF EInv, IInv, Ledger
<1>2. /\ ~Executing /\ inbox # <<>> /\ ToSet(rows') = RowsOf(inbox[1])
      /\ rows' \in Seq(Requests) /\ inbox' = Tail(inbox)
  BY <1>1, ExecuteEffect
<1>3. PICK m \in Messages : m = inbox[1] /\ 1 \in 1..Len(inbox)
  BY <1>1, <1>2, Stages
<1>4. \/ RowsOf(m) = {} /\ ~Executing'
      \/ RowsOf(m) # {} /\ Executing' /\ execState'.m = m
  BY <1>1, <1>3, ExecuteEffect DEF Executing
<1>5. \A r \in Requests :
        known'[r] = IF r \in m.new THEN PromptLen[r] ELSE known[r]
  BY <1>1, <1>3, TakeUpTokens DEF Tally
<1>6. ASSUME NEW k \in 1..Len(inbox')
      PROVE  Reckoned(k)'
  <2>1. /\ Len(inbox) = 2 /\ Len(inbox') = 1 /\ k = 1 /\ inbox'[1] = inbox[2]
        /\ 2 \in 1..Len(inbox)
    <3>1. /\ Len(inbox) \in {1, 2} /\ Len(inbox') = Len(inbox) - 1
          /\ \A j \in 1..Len(inbox') : inbox'[j] = inbox[j + 1]
      BY <1>1, <1>2, TakeOldest
    <3>2. Len(inbox) = 2 /\ Len(inbox') = 1 /\ k = 1 /\ 1 \in 1..Len(inbox')
      BY <3>1
    <3>3. inbox'[1] = inbox[1 + 1]
      BY <3>1, <3>2
    <3> QED BY <3>2, <3>3
  <2>2. Reckoned(2)
    BY <2>1 DEF Reckonings
  <2>3. PICK M \in Messages : M = inbox[2] /\ M = inbox'[1]
    BY <1>1, <2>1, Stages
  <2>4. Exact(M)' /\ Exact(M)
    BY <2>2, <2>3 DEF Reckoned, Exact, Tokens, Emitting, RowsOf
  <2>5. ASSUME NEW r \in RowsOf(M) \ M.new
        PROVE  Expects(1, r)'
    <3>1. r \in Requests
      BY DEF RowsOf
    <3>2. PICK y, kn, t \in Int :
            y = Yield(m, r) /\ kn = known'[r] /\ t = Tokens(M, r)
      <4>1. known'[r] \in Int
        BY <1>1, <3>1, TakeUpTokens DEF Tally
      <4>2. PromptLen[r] \in Int /\ M.outputs[r] \in Int
        BY <1>1, <3>1, Numbers, MessageFacts
      <4> QED BY <3>1, <4>1, <4>2, YieldType DEF Tokens
    <3>3. t = kn + y
      <4>1. Expects(2, r) /\ 2 # 1
        BY <2>2, <2>3, <2>5 DEF Reckoned
      <4> QED BY <1>3, <1>5, <2>3, <3>1, <3>2, <4>1 DEF Expects
    <3>4. CASE Executing' /\ execState'.m = m
      BY <2>3, <3>2, <3>3, <3>4 DEF Expects, Yield, Tokens, Emitting, RowsOf
    <3>5. CASE RowsOf(m) = {} /\ ~Executing'
      <4>1. t = kn
        <5>1. y = 0
          BY <3>1, <3>2, <3>5, YieldType
        <5> QED BY <3>3, <5>1
      <4>2. ASSUME r \notin M.resumed
            PROVE  M.computed[r] = kvLen'[r] /\ kvLen'[r] \in Int
        <5>1. Grounds' /\ kvLen' = kvLen
          BY <1>1, <1>3, <3>5, TakeUp, ExecuteGrounds
        <5>2. Placed(1)'
          BY <2>1, <5>1 DEF Grounds
        <5>3. r \notin ToSet(rows)'
          BY <1>2, <1>3, <3>5
        <5>4. r \in RowsOf(M) \ FromPrefix(M)
          BY <2>5, <4>2 DEF FromPrefix
        <5>5. M.computed[r] = kvLen'[r]
          BY <2>3, <3>5, <5>2, <5>3, <5>4 DEF Placed, RowsOf, FromPrefix
        <5> QED BY <3>1, <5>1, <5>5 DEF Ahead
      <4>3. r \notin M.resumed => Tokens(M, r) - kn = M.computed[r] - kvLen'[r]
        BY <3>2, <4>1, <4>2
      <4> QED BY <2>3, <3>2, <3>5, <4>1, <4>3 DEF Expects, Tokens
    <3> QED BY <1>4, <3>4, <3>5
  <2>6. (RowsOf(inbox[1]) \ inbox[1].new)' = RowsOf(M) \ M.new
    BY <2>3 DEF RowsOf
  <2>7. Reckoned(1)'
    BY <2>3, <2>4, <2>5, <2>6 DEF Reckoned
  <2> QED BY <2>1, <2>7
<1> QED BY <1>6 DEF Reckonings

\* What the step in execution adds, or does not, and what it computes.
LEMMA SampleReckonings ==
  ASSUME EInv, Ahead, Grounds, Tally, Reckonings, Runner!SampleTokens
  PROVE  Reckonings'
<1>1. /\ Shape /\ FramesSound /\ Pipeline /\ Worker
  BY DEF EInv, IInv, Ledger
<1>2. Executing /\ ~Executing' /\ UNCHANGED <<inbox, rows>>
  BY <1>1, SampleEffect DEF Executing
<1>3. PICK m \in Messages : m = execState.m /\ ToSet(rows) = RowsOf(m)
  BY <1>1, <1>2 DEF Worker
<1>4. PICK g \in [RowsOf(m) -> Int] : Drawn(m, g)
  BY <1>1, <1>3, Sampling
<1>5. \A r \in Requests :
        known'[r] = IF r \in RowsOf(m) THEN known[r] + g[r] ELSE known[r]
  <2>1. known' = [r \in Requests |-> IF r \in RowsOf(m)
                                     THEN known[r] + Given(r) ELSE known[r]]
    BY <1>1, <1>3, Outcome
  <2>2. \A r \in RowsOf(m) : Given(r) = g[r]
    BY <1>4 DEF Drawn, Given
  <2> QED BY <2>1, <2>2
<1>6. PICK O, L \in Nat :
        /\ O = Len(outbox) /\ L = Len(inbox) /\ Len(frames) = O + 1 + L
        /\ O + 1 \in 1..Len(frames) /\ L <= 1
  <2>1. PICK O, L \in Nat : O = Len(outbox) /\ L = Len(inbox)
    BY <1>1, Stages
  <2>2. Len(frames) = O + 1 + L /\ Len(frames) <= 2
    <3>1. InHand = 1
      BY <1>2 DEF InHand
    <3>2. Len(frames) = O + 1 + L /\ Len(frames) \in {0, 1, 2}
      BY <1>1, <2>1, <3>1, Stages
    <3> QED BY <3>2
  <2>3. O + 1 \in 1..(O + 1 + L) /\ L <= 1
    BY <2>2
  <2> QED BY <2>1, <2>2, <2>3
<1>7. Announces(m, frames[O + 1])
  BY <1>1, <1>2, <1>3, <1>6 DEF Pipeline
<1>8. ASSUME NEW k \in 1..Len(inbox')
      PROVE  Reckoned(k)'
  <2>1. k = 1 /\ 1 \in 1..Len(inbox) /\ L = 1
    BY <1>2, <1>6
  <2>2. PICK M \in Messages : M = inbox[1] /\ M = inbox'[1]
    BY <1>1, <1>2, <2>1, Stages
  <2>3. Reckoned(1) /\ Placed(1) /\ Apart(1)
    BY <2>1 DEF Reckonings, Grounds, Placed
  <2>4. Exact(M)'
    BY <2>2, <2>3 DEF Reckoned, Exact, Tokens, Emitting, RowsOf
  <2>5. ASSUME NEW r \in RowsOf(M) \ M.new
        PROVE  Expects(1, r)'
    <3>1. r \in Requests
      BY DEF RowsOf
    <3>2. PICK t, kn, y, n, s, kv, c \in Int :
            /\ t = Tokens(M, r) /\ kn = known[r] /\ y = Yield(m, r)
            /\ n = m.n[r] /\ s = m.spec[r] /\ kv = kvLen[r] /\ c = M.computed[r]
            /\ n >= 0
      <4>1. PromptLen[r] \in Int /\ M.outputs[r] \in Int
        BY <1>1, <3>1, Numbers, MessageFacts
      <4>2. known[r] \in Int /\ kvLen[r] \in Int /\ Yield(m, r) \in Int
        BY <3>1, YieldType DEF Tally, Ahead
      <4>3. m.n[r] \in Int /\ m.spec[r] \in Int /\ M.computed[r] \in Int
        BY <3>1, MessageFacts
      <4>4. frames[O + 1].n[r] >= 0
        BY <1>1, <1>6, <3>1, FramesLen DEF FramesSound
      <4>5. Tokens(M, r) \in Int /\ m.n[r] >= 0
        BY <1>7, <4>1, <4>4 DEF Announces, Tokens
      <4>6. PICK t, kn, y \in Int :
              t = Tokens(M, r) /\ kn = known[r] /\ y = Yield(m, r)
        BY <4>2, <4>5
      <4> QED BY <4>2, <4>3, <4>5, <4>6
    <3>3. t = kn + y
      <4>1. Expects(1, r)
        BY <2>2, <2>3, <2>5 DEF Reckoned
      <4> QED BY <1>2, <1>3, <2>2, <3>2, <4>1 DEF Expects
    <3>4. CASE r \in M.resumed
      <4>1. frames[O + 1].n[r] = 0
        <5>1. O + 1 \in 1..(Len(frames) - Len(inbox) + 1 - 1)
          BY <1>6, <2>1
        <5> QED BY <2>2, <2>3, <3>4, <5>1 DEF Apart, FromPrefix
      <4>2. n = 0
        BY <1>7, <3>2, <4>1 DEF Announces
      <4>3. r \notin RowsOf(m)
        <5>1. ~(m.n[r] > 0)
          BY <3>2, <4>2
        <5> QED BY <5>1 DEF RowsOf
      <4>4. y = 0 /\ known'[r] = kn
        BY <1>5, <3>1, <3>2, <4>3, YieldType
      <4>5. t = known'[r]
        BY <3>3, <4>4
      <4> QED BY <1>2, <2>2, <3>2, <3>4, <4>5 DEF Expects, Tokens
    <3>5. CASE r \notin M.resumed
      <4>1. c = kv + n
        BY <1>2, <1>3, <2>2, <2>3, <2>5, <3>2, <3>5 DEF Placed, FromPrefix
      <4>2. CASE r \notin RowsOf(m)
        <5>1. n = 0
          BY <3>1, <3>2, <4>2 DEF RowsOf
        <5>2. y = 0 /\ known'[r] = kn /\ kvLen'[r] = kv
          BY <1>4, <1>5, <3>1, <3>2, <4>2, YieldType DEF Drawn
        <5>3. t - kn = c - kv
          BY <3>3, <4>1, <5>1, <5>2
        <5> QED BY <1>2, <2>2, <3>2, <3>5, <5>2, <5>3 DEF Expects, Tokens
      <4>3. CASE r \in RowsOf(m)
        <5>1. PICK d \in Int : /\ d = g[r] /\ d >= 0
                               /\ d > 0 <=> r \in Emitting(m)
          BY <1>3, <1>4, <3>1, <3>2, <4>3 DEF Drawn
        <5>2. known'[r] = kn + d
          BY <1>5, <3>1, <3>2, <4>3, <5>1
        <5>3. kvLen'[r] = IF d = 0 THEN kv + n ELSE kv + n - s - 1 + d
          BY <1>4, <3>1, <3>2, <4>3, <5>1 DEF Drawn
        <5>4. y = IF d > 0 THEN s + 1 ELSE 0
          BY <3>2, <5>1 DEF Yield
        <5>5. t - (kn + d) = c - (IF d = 0 THEN kv + n ELSE kv + n - s - 1 + d)
          BY <3>3, <4>1, <5>1, <5>4
        <5> QED BY <1>2, <2>2, <3>2, <3>5, <5>2, <5>3, <5>5 DEF Expects, Tokens
      <4> QED BY <4>2, <4>3
    <3> QED BY <3>4, <3>5
  <2>6. (RowsOf(inbox[1]) \ inbox[1].new)' = RowsOf(M) \ M.new
    BY <2>2 DEF RowsOf
  <2>7. Reckoned(1)'
    BY <2>2, <2>4, <2>5, <2>6 DEF Reckoned
  <2> QED BY <2>1, <2>7
<1> QED BY <1>8 DEF Reckonings

-----------------------------------------------------------------------------
(* The token each row goes on with.                                        *)

\* The row r has in the batch: its token is on the GPU, with drafts behind it,
\* or all its tokens are on the CPU.
Ready(r) ==
  IF r \in DOMAIN prevIndex
  THEN LET p == prevIndex[r]
       IN  /\ sampled # <<>> /\ drafts # <<>> /\ p \in DOMAIN rows
           /\ sampled.next[p] = <<r, kvLen[r]>> /\ known[r] = kvLen[r] + 1
           /\ \A j \in 1..NumSpecTokens :
                drafts[p][j] \in {<<r, kvLen[r] + j>>, Runner!Zero}
  ELSE PromptLen[r] + requests[r].real = known[r]

Feeds ==
  /\ \A r \in DOMAIN requests : 0 <= requests[r].real
  /\ ~Executing =>
       DOMAIN prevIndex \subseteq ToSet(rows) /\ \A r \in ToSet(rows) : Ready(r)
  /\ Executing =>
       /\ InputsRight
       /\ \A i \in execState.discarded :
            PromptLen[rows[i]] + requests[rows[i]].real = known[rows[i]]

\* Requests of message m whose token is on the GPU.
OnGpu(m) == DOMAIN prevIndex \intersect Runner!KeepRow(m)

LEMMA FeedsKept ==
  ASSUME Feeds,
         UNCHANGED <<requests, rows, prevIndex, sampled, gpuComputed, drafts,
                     execState, known, kvLen>>
  PROVE  Feeds'
<1>1. \A r \in ToSet(rows) : Ready(r) => Ready(r)'
  BY DEF Ready
<1>2. \A i : Fed(i)' = Fed(i)
  BY DEF Fed
<1>3. \A i : Runner!VerifiedIds(execState.m, execState.ids, rows, i)'
               = Runner!VerifiedIds(execState.m, execState.ids, rows, i)
  OBVIOUS
<1>4. InputsRight => InputsRight'
  BY <1>2, <1>3 DEF InputsRight
<1> QED BY <1>1, <1>4 DEF Feeds, Executing

\* Where a row of the last batch goes on.
LEMMA Continues ==
  ASSUME EInv, Ahead, Grounds, Tally, Reckonings, NewOnce, Feeds,
         Runner!ExecuteModel, NEW m \in Messages, m = inbox[1],
         NEW r \in OnGpu(m)
  PROVE  /\ Ready(r) /\ r \in Emitting(m)
         /\ m.spec[r] \in Nat /\ m.n[r] = m.spec[r] + 1
         /\ kvLen'[r] = kvLen[r] /\ known'[r] = known[r]
<1>1. /\ Shape /\ Pipeline /\ Worker /\ Deliverable
  BY DEF EInv, IInv
<1>2. ~Executing /\ inbox # <<>> /\ 1 \in 1..Len(inbox)
  <2>1. ~Executing /\ inbox # <<>>
    BY <1>1, ExecuteEffect
  <2> QED BY <1>1, <2>1, Stages
<1>3. /\ r \in ToSet(rows) /\ r \notin m.resumed /\ r \in RowsOf(m)
      /\ r \in DOMAIN prevIndex
  BY SameOperators DEF OnGpu, Runner!KeepRow, Runner!InStep, RowsOf
<1>4. r \in Requests /\ r \notin m.new /\ r \notin FromPrefix(m)
  BY <1>1, <1>2, <1>3 DEF NewOnce, Worker, RowsOf, FromPrefix
<1>5. Ready(r)
  BY <1>2, <1>3 DEF Feeds
<1>6. PICK kv, kn, c, n, s, t \in Int :
        /\ kv = kvLen[r] /\ kn = known[r] /\ c = m.computed[r]
        /\ n = m.n[r] /\ s = m.spec[r] /\ t = Tokens(m, r)
  <2>1. PromptLen[r] \in Int /\ m.outputs[r] \in Int
    BY <1>1, <1>4, Numbers, MessageFacts
  <2>2. Tokens(m, r) \in Int
    BY <2>1 DEF Tokens
  <2>3. kvLen[r] \in Int /\ known[r] \in Int
    BY <1>4 DEF Ahead, Tally
  <2>4. m.computed[r] \in Int /\ m.n[r] \in Int /\ m.spec[r] \in Int
    BY <1>4, MessageFacts
  <2> QED BY <2>2, <2>3, <2>4
<1>7. t - kn = c - kv /\ kn = kv + 1
  <2>1. Expects(1, r)
    BY <1>2, <1>3, <1>4 DEF Reckonings, Reckoned
  <2> QED BY <1>2, <1>3, <1>5, <1>6, <2>1 DEF Expects, Ready
<1>8. n > 0
  BY <1>3, <1>6 DEF RowsOf
<1>9. r \in Emitting(m)
  <2>1. c + n >= t
    BY <1>7, <1>8
  <2> QED BY <1>3, <1>6, <2>1 DEF Emitting, Tokens
<1>10. c + n - s = t
  BY <1>2, <1>6, <1>9 DEF Reckonings, Reckoned, Exact
<1>11. n = s + 1
  BY <1>7, <1>10
<1>12. kvLen'[r] = kvLen[r] /\ known'[r] = known[r]
  <2>1. RowsOf(m) # {}
    BY <1>3
  <2>2. kvLen'[r] = kvLen[r]
    BY <1>1, <1>4, <2>1, TakeUp
  <2>3. known'[r] = known[r]
    BY <1>1, <1>4, TakeUpTokens DEF Tally
  <2> QED BY <2>2, <2>3
<1>13. m.spec[r] \in Nat
  BY <1>4, MessageFacts
<1> QED BY <1>5, <1>6, <1>9, <1>11, <1>12, <1>13

\* How much of a row the CPU has, in the state that it takes over.
LEMMA CachedReal ==
  ASSUME EInv, NewOnce, \A r \in DOMAIN requests : 0 <= requests[r].real,
         ~Executing, inbox # <<>>, NEW m \in Messages, m = inbox[1]
  PROVE  /\ \A r \in DOMAIN States : 0 <= States[r].real
         /\ \A r \in RowsOf(m) :
              States[r].real =
                IF r \in m.new THEN 0
                ELSE IF r \in Runner!KeepRow(m) THEN
                  Runner!Lesser(requests[r].real, m.outputs[r])
                ELSE m.outputs[r]
<1>1. /\ Shape /\ Pipeline /\ Worker /\ Deliverable /\ 1 \in 1..Len(inbox)
  <2>1. Shape /\ Pipeline /\ Worker /\ Deliverable
    BY DEF EInv, IInv
  <2> QED BY <2>1, Stages
<1>2. /\ Runner!InStep(m) = RowsOf(m)
      /\ DOMAIN States = (DOMAIN requests \ m.finished) \union m.new
      /\ States = Runner!UpdatedRequests(m)
  BY <1>1, UpdatedStates DEF Runner!InStep, RowsOf, States
<1>3. ASSUME NEW r \in RowsOf(m)
      PROVE  /\ 0 <= States[r].real
             /\ States[r].real =
                  IF r \in m.new THEN 0
                  ELSE IF r \in Runner!KeepRow(m) THEN
                    Runner!Lesser(requests[r].real, m.outputs[r])
                  ELSE m.outputs[r]
  <2>1. r \in Requests /\ r \in DOMAIN States /\ States[r].outs = m.outputs[r]
    BY <1>1, UpdatedStates DEF RowsOf
  <2>2. CASE r \in m.new
    <3>1. States[r] = Runner!NewState(m, r)
      BY <1>2, <2>1, <2>2 DEF Runner!UpdatedRequests
    <3> QED BY <2>2, <3>1 DEF Runner!NewState
  <2>3. CASE r \notin m.new
    <3>1. States[r] = Runner!CachedState(m, r)
      BY <1>2, <2>1, <2>3 DEF Runner!UpdatedRequests
    <3>2. /\ r \in DOMAIN requests /\ m.outputs[r] >= 0
          /\ r \notin ToSet(rows) \/ r \in m.resumed => m.outputs[r] = m.out[r]
      <4>1. /\ r \in DOMAIN requests /\ m.outputs[r] >= 0 
        BY <1>1, <2>3, Oldest
      <4>2. r \notin ToSet(rows) \/ r \in m.resumed => m.outputs[r] = m.out[r]
        BY <1>1, <2>3 DEF Deliverable, Before
      <4> QED BY <4>1, <4>2
    <3>3. PICK u, w \in Int : u = requests[r].real /\ w = m.outputs[r] /\ u >= 0 /\ w >= 0
      <4>1. requests[r].real \in Int /\ 0 <= requests[r].real
        BY <1>1, <3>2 DEF Worker, Cached
      <4> QED BY <2>1, <3>2, <4>1, MessageFacts
    <3>4. \A x, y \in Int : x >= 0 /\ y >= 0 =>
            /\ 0 <= Runner!Lesser(x, y)
            /\ Runner!Lesser(x, 0) = 0
      BY DEF Runner!Lesser
    <3>5. CASE r \in Runner!KeepRow(m) \/ m.outputs[r] = 0
      <4>1. States[r].real = Runner!Lesser(u, w)
        BY <2>1, <3>1, <3>3, <3>5 DEF Runner!CachedState
      <4>2. r \notin Runner!KeepRow(m) => Runner!Lesser(u, w) = w
        BY <3>3, <3>4, <3>5
      <4> QED BY <2>3, <3>3, <3>4, <4>1, <4>2
    <3>6. CASE ~(r \in Runner!KeepRow(m) \/ m.outputs[r] = 0)
      <4>1. r \notin ToSet(rows) \/ r \in m.resumed
        <5>1. r \notin m.finished
          BY <1>1, Oldest
        <5> QED BY <1>2, <3>6, <5>1, SameOperators DEF Runner!KeepRow
      <4>2. States[r].real = m.out[r]
        BY <3>1, <3>2, <3>6, <4>1 DEF Runner!CachedState, Runner!Restored
      <4> QED BY <2>3, <3>2, <3>3, <3>6, <4>1, <4>2
    <3> QED BY <3>5, <3>6
  <2> QED BY <2>2, <2>3
<1>4. ASSUME NEW r \in DOMAIN States, r \notin RowsOf(m)
      PROVE  0 <= States[r].real
  <2>1. r \notin m.new /\ r \in DOMAIN requests
    BY <1>1, <1>2, <1>4, Oldest
  <2>2. States[r] = requests[r]
    BY <1>2, <1>4, <2>1 DEF Runner!UpdatedRequests
  <2> QED BY <2>1, <2>2
<1> QED BY <1>3, <1>4

\* Where any other row goes on: with what the CPU has.
LEMMA Enters ==
  ASSUME EInv, Ahead, Grounds, Tally, Reckonings, NewOnce, Feeds,
         Runner!ExecuteModel, NEW m \in Messages, m = inbox[1],
         NEW r \in RowsOf(m) \ OnGpu(m)
  PROVE  /\ m.computed[r] = kvLen'[r] /\ Tokens(m, r) = known'[r]
         /\ PromptLen[r] + States[r].real = known'[r]
<1>1. /\ Shape /\ Pipeline /\ Worker /\ Deliverable /\ Grounded
  BY DEF EInv, IInv, Grounds
<1>2. ~Executing /\ inbox # <<>> /\ 1 \in 1..Len(inbox)
  <2>1. ~Executing /\ inbox # <<>>
    BY <1>1, ExecuteEffect
  <2> QED BY <1>1, <2>1, Stages
<1>3. r \in Requests /\ RowsOf(m) # {}
  BY DEF RowsOf
<1>4. PICK pl, kv, kn, c, o, re \in Int :
        /\ pl = PromptLen[r] /\ kv = kvLen[r] /\ kn = known[r]
        /\ c = m.computed[r] /\ o = m.outputs[r] /\ re = States[r].real
        /\ Tokens(m, r) = pl + o
  <2>1. PromptLen[r] \in Int /\ m.outputs[r] \in Int /\ m.computed[r] \in Int
    BY <1>1, <1>3, Numbers, MessageFacts
  <2>2. kvLen[r] \in Int /\ known[r] \in Int
    BY <1>3 DEF Ahead, Tally
  <2>3. States[r].real \in Int
    BY <1>1, <1>2, UpdatedStates DEF Cached
  <2> QED BY <2>1, <2>2, <2>3 DEF Tokens
<1>5. /\ kvLen'[r] = IF r \in FromPrefix(m) THEN c ELSE kv
      /\ known'[r] = IF r \in m.new THEN pl ELSE kn
  <2>1. kvLen'[r] = IF r \in FromPrefix(m) THEN c ELSE kv
    BY <1>1, <1>3, <1>4, TakeUp
  <2>2. known'[r] = IF r \in m.new THEN pl ELSE kn
    BY <1>1, <1>3, <1>4, TakeUpTokens DEF Tally
  <2> QED BY <2>1, <2>2
<1>6. re = IF r \in m.new THEN 0
           ELSE IF r \in Runner!KeepRow(m) THEN
             Runner!Lesser(requests[r].real, o)
           ELSE o
  <2>1. \A q \in DOMAIN requests : 0 <= requests[q].real
    BY DEF Feeds
  <2> QED BY <1>2, <1>4, <2>1, CachedReal
<1>7. CASE r \in m.new
  <2>1. o = 0
    BY <1>1, <1>2, <1>4, <1>7, Oldest
  <2>2. r \in FromPrefix(m)
    BY <1>7 DEF FromPrefix
  <2> QED BY <1>4, <1>5, <1>6, <1>7, <2>1, <2>2
<1>8. CASE r \notin m.new
  <2>1. /\ r \in DOMAIN requests /\ r \notin m.finished
        /\ Runner!InStep(m) = RowsOf(m)
    BY <1>1, <1>2, <1>8, Oldest DEF Runner!InStep, RowsOf
  <2>2. r \in Runner!KeepRow(m) <=> r \in ToSet(rows) /\ r \notin m.resumed
    BY <2>1, SameOperators DEF Runner!KeepRow
  <2>3. Expects(1, r) /\ Placed(1)
    BY <1>2, <1>8 DEF Reckonings, Reckoned, Grounds
  <2>4. CASE r \in m.resumed
    <3>1. pl + o = kn
      BY <1>2, <1>4, <2>3, <2>4 DEF Expects
    <3>2. r \in FromPrefix(m) /\ r \notin Runner!KeepRow(m)
      BY <2>2, <2>4 DEF FromPrefix
    <3> QED BY <1>4, <1>5, <1>6, <1>8, <3>1, <3>2
  <2>5. CASE r \notin m.resumed
    <3>1. r \notin FromPrefix(m)
      BY <1>8, <2>5 DEF FromPrefix
    <3>2. ~(r \in ToSet(rows) /\ requests[r].prevDraft > 0)
      BY <1>1, <1>2, <2>2, <2>5 DEF Grounded, OnGpu
    <3>3. c = kv
      BY <1>2, <1>4, <2>3, <3>1, <3>2 DEF Placed
    <3>4. pl + o = kn
      <4>1. (pl + o) - kn = c - kv
        BY <1>2, <1>4, <2>3, <2>5 DEF Expects
      <4> QED BY <3>3, <4>1
    <3>5. CASE r \notin Runner!KeepRow(m)
      BY <1>4, <1>5, <1>6, <1>8, <3>1, <3>3, <3>4, <3>5
    <3>6. CASE r \in Runner!KeepRow(m)
      <4>1. r \in ToSet(rows) /\ r \notin DOMAIN prevIndex
        BY <2>2, <3>6 DEF OnGpu
      <4>2. Ready(r)
        BY <1>2, <4>1 DEF Feeds
      <4>3. PICK u \in Int : u = requests[r].real
        BY <1>1, <2>1 DEF Worker, Cached
      <4>4. pl + u = kn
        BY <1>4, <4>1, <4>2, <4>3 DEF Ready
      <4>5. u = o
        BY <3>4, <4>4
      <4>6. Runner!Lesser(u, o) = o
        BY <4>5 DEF Runner!Lesser
      <4> QED BY <1>4, <1>5, <1>6, <1>8, <3>1, <3>3, <3>4, <3>6, <4>3, <4>6
    <3> QED BY <3>5, <3>6
  <2> QED BY <2>4, <2>5
<1> QED BY <1>7, <1>8

LEMMA CorrectedReal ==
  ASSUME Shape, Pipeline, Worker, Deliverable, ~Executing, inbox # <<>>
  PROVE  \A r \in DOMAIN States : Corrections[r].real = States[r].real
<1>1. PICK m \in Messages : m = inbox[1]
  BY Stages
<1>2. Corrections =
        [r \in DOMAIN States |->
           IF /\ sampled # <<>>
              /\ r \in Runner!Deferred(m) \intersect DOMAIN Runner!PrevIndex(m)
           THEN [States[r] EXCEPT !.computed = @ - Runner!Correction(r)]
           ELSE States[r]]
  BY <1>1 DEF Corrections, Runner!CorrectedRequests, Runner!None
<1>3. \A r \in DOMAIN States : States[r] \in Cached
  BY UpdatedStates
<1>4. ASSUME NEW r \in DOMAIN States, NEW d
      PROVE  [States[r] EXCEPT !.computed = @ - d].real = States[r].real
  BY <1>3 DEF Cached
<1> QED BY <1>2, <1>4

LEMMA OnGpuFacts ==
  ASSUME EInv, Feeds, ~Executing, ForgetsRemoved, NEW m
  PROVE  /\ OnGpu(m) \subseteq RowsOf(m)
         /\ Runner!PrevIndex(m) = [r \in OnGpu(m) |-> prevIndex[r]]
         /\ \A r \in OnGpu(m) : Ready(r) /\ prevIndex[r] \in Nat /\ prevIndex[r] > 0
<1>1. DOMAIN prevIndex \subseteq ToSet(rows) /\ \A r \in ToSet(rows) : Ready(r)
  BY DEF Feeds
<1>2. OnGpu(m) \subseteq RowsOf(m)
  BY DEF OnGpu, Runner!KeepRow, Runner!InStep, RowsOf
<1>3. DOMAIN prevIndex \ (Runner!ToSet(rows) \ Runner!KeepRow(m)) = OnGpu(m)
  BY <1>1, SameOperators DEF OnGpu
<1>4. Runner!PrevIndex(m) = [r \in OnGpu(m) |-> prevIndex[r]]
  BY <1>3 DEF Runner!PrevIndex
<1>5. ASSUME NEW r \in OnGpu(m)
      PROVE  Ready(r) /\ prevIndex[r] \in Nat /\ prevIndex[r] > 0
  <2>1. Ready(r) /\ prevIndex[r] \in DOMAIN rows
    BY <1>1, <1>5 DEF OnGpu, Ready
  <2>2. DOMAIN rows = 1..Len(rows) /\ Len(rows) \in Nat
    <3>1. rows \in Seq(Requests)
      BY DEF EInv, Worker
    <3> QED BY <3>1, LenProperties
  <2>3. prevIndex[r] \in Nat /\ prevIndex[r] > 0
    BY <2>1, <2>2
  <2> QED BY <2>1, <2>3
<1> QED BY <1>2, <1>4, <1>5

\* What the k-th token of a row is read from.
LEMMA RowRead ==
  ASSUME EInv, Ahead, Grounds, Tally, Reckonings, NewOnce, Feeds,
         ForgetsRemoved, Runner!ExecuteModel,
         NEW m \in Messages, m = inbox[1], NEW i \in DOMAIN rows',
         NEW r \in RowsOf(m), r = rows'[i]
  PROVE  /\ i \in Runner!Common(m, rows') <=> r \in OnGpu(m)
         /\ \E lo \in Int :
              /\ Runner!CuNumTokens(m, rows', i) = lo + m.n[r]
              /\ \A k \in Int : 0 < k /\ k <= m.n[r] =>
                   Runner!InputIds(m, States, rows')[lo + k] =
                     IF r \notin OnGpu(m)
                     THEN CpuId(States, r, m.computed[r] + (k - 1))
                     ELSE IF k = 1 THEN sampled.next[prevIndex[r]]
                     ELSE drafts[prevIndex[r]][k - 1]
<1>1. /\ Shape /\ Pipeline /\ Worker /\ Deliverable
  BY DEF EInv, IInv
<1>2. /\ ~Executing /\ inbox # <<>> /\ ToSet(rows') = RowsOf(m)
      /\ rows' \in Seq(Requests)
  BY <1>1, ExecuteEffect
<1>3. PICK batch \in Seq(Requests) : batch = rows' /\ ToSet(batch) = RowsOf(m)
  BY <1>2
<1>4. \A j \in DOMAIN batch : batch[j] \in RowsOf(m) /\ batch[j] \in Requests
  BY <1>3 DEF ToSet, RowsOf
<1>5. Filled(m, batch)
  <2>1. \A q \in RowsOf(m) : m.n[q] \in Nat \ {0}
    <3>1. \A q \in RowsOf(m) : q \in Requests /\ m.n[q] > 0
      BY DEF RowsOf
    <3>2. \A q \in RowsOf(m) : m.n[q] \in Int
      BY <3>1, MessageFacts
    <3> QED BY <3>1, <3>2
  <2> QED BY <1>3, <1>4, <2>1 DEF Filled
<1>6. ASSUME NEW j \in DOMAIN batch
      PROVE  /\ Runner!PrevPosition(m, batch, j) =
                  IF batch[j] \in OnGpu(m) THEN prevIndex[batch[j]] ELSE 0
             /\ j \in Runner!Common(m, batch) <=> batch[j] \in OnGpu(m)
  <2>1. Runner!PrevPosition(m, batch, j) =
          IF batch[j] \in OnGpu(m) THEN prevIndex[batch[j]] ELSE 0
    BY <1>2, OnGpuFacts DEF Runner!PrevPosition
  <2>2. j \in Runner!Common(m, batch) <=> Runner!PrevPosition(m, batch, j) > 0
    BY DEF Runner!Common
  <2>3. batch[j] \in OnGpu(m) => prevIndex[batch[j]] \in Nat /\ prevIndex[batch[j]] > 0
    BY <1>2, OnGpuFacts
  <2> QED BY <2>1, <2>2, <2>3
<1>7. \A j \in Runner!Common(m, batch) : j \in DOMAIN batch /\ batch[j] \in OnGpu(m)
  BY <1>6 DEF Runner!Common
<1>8. Decodes(m, batch)
  BY <1>7, Continues DEF Decodes
<1>9. Runner!Common(m, batch) # {} => sampled # <<>> /\ drafts # <<>>
  BY <1>2, <1>7, OnGpuFacts DEF OnGpu, Ready
<1>10. PICK lo, n \in Int :
         /\ lo = Runner!CuNumTokens(m, batch, i - 1) /\ n = m.n[r]
         /\ Runner!CuNumTokens(m, batch, i) = lo + n
  <2>1. PICK l \in Nat : l = Len(batch) /\ DOMAIN batch = 1..l
    BY <1>5, Layout
  <2>2. i \in 1..l /\ i - 1 \in 0..l
    BY <1>3, <2>1
  <2>3. Runner!CuNumTokens(m, batch, i - 1) \in Nat
    BY <1>5, <2>1, <2>2, Layout
  <2>4. Runner!CuNumTokens(m, batch, i) =
          Runner!CuNumTokens(m, batch, i - 1) + m.n[batch[i]]
    BY <1>5, <2>1, <2>2, Layout
  <2>5. m.n[r] \in Int
    BY <1>3, <1>4, MessageFacts
  <2> QED BY <1>3, <2>3, <2>4, <2>5
<1>11. ASSUME NEW k \in Int, 0 < k, k <= n
       PROVE  Runner!InputIds(m, States, batch)[lo + k] =
                IF r \notin OnGpu(m)
                THEN CpuId(States, r, m.computed[r] + (k - 1))
                ELSE IF k = 1 THEN sampled.next[prevIndex[r]]
                ELSE drafts[prevIndex[r]][k - 1]
  <2>1. PICK at \in Int : at = lo + k
    OBVIOUS
  <2>2. /\ lo < at /\ at <= lo + n /\ at - lo - 1 = k - 1
        /\ at = lo + 1 <=> k = 1
    BY <1>11, <2>1
  <2>3. i \in DOMAIN batch /\ at <= Runner!CuNumTokens(m, batch, i)
    BY <1>3, <1>10, <2>2
  <2>4. Runner!InputIds(m, States, batch)[at] =
          IF i \notin Runner!Common(m, batch)
          THEN CpuId(States, batch[i], m.computed[batch[i]] + (at - lo - 1))
          ELSE IF at = lo + 1
          THEN sampled.next[Runner!PrevPosition(m, batch, i)]
          ELSE drafts[Runner!PrevPosition(m, batch, i)][at - lo - 1]
    BY <1>5, <1>8, <1>9, <1>10, <2>2, <2>3, InputIdAt
  <2> QED BY <1>3, <1>6, <2>1, <2>2, <2>3, <2>4
<1> QED BY <1>3, <1>6, <1>10, <1>11

\* The tokens of r from flat index lo on, its first position being start.
Carries(ids, m, r, start, lo) ==
  LET plain == m.n[r] - m.spec[r]
  IN  /\ \A k \in 1..plain : ids[lo + k] = <<r, start + k - 1>>
      /\ \A j \in 1..m.spec[r] :
           ids[lo + plain + j]
             \in {<<r, start + plain + j - 1>>,
                  IF r \in OnGpu(m) THEN Runner!Zero ELSE Runner!Placeholder}

\* A row with tokens to go on with: those, and the drafts it verifies.
LEMMA RowFedRight ==
  ASSUME EInv, Ahead, Grounds, Tally, Reckonings, NewOnce, Feeds,
         ForgetsRemoved, Runner!ExecuteModel,
         NEW m \in Messages, m = inbox[1], NEW i \in DOMAIN rows',
         NEW r \in RowsOf(m), r = rows'[i]
  PROVE  /\ kvLen'[r] \in Int /\ m.n[r] \in Int /\ m.spec[r] \in Nat
         /\ \E lo \in Int :
              /\ Runner!CuNumTokens(m, rows', i) = lo + m.n[r]
              /\ Carries(Runner!InputIds(m, States, rows'), m, r, kvLen'[r], lo)
         /\ IF r \in Emitting(m)
            THEN kvLen'[r] + (m.n[r] - m.spec[r]) = known'[r]
            ELSE /\ kvLen'[r] + (m.n[r] - m.spec[r]) < known'[r]
                 /\ PromptLen[r] + States[r].real = known'[r]
<1>0. PICK start, n \in Int, s \in Nat :
        start = kvLen'[r] /\ n = m.n[r] /\ s = m.spec[r]
  <2>1. r \in Requests /\ Shape /\ Pipeline /\ Worker /\ Deliverable
    BY DEF RowsOf, EInv, IInv
  <2>2. m.n[r] \in Int /\ m.spec[r] \in Nat /\ m.computed[r] \in Int
    BY <2>1, MessageFacts
  <2>3. kvLen'[r] = (IF r \in FromPrefix(m) THEN m.computed[r] ELSE kvLen[r])
    BY <2>1, TakeUp
  <2>4. kvLen[r] \in Int
    BY <2>1 DEF Ahead
  <2> QED BY <2>2, <2>3, <2>4
<1>1. /\ Shape /\ Pipeline /\ Worker /\ Deliverable
  BY DEF EInv, IInv
<1>2. ~Executing /\ inbox # <<>> /\ 1 \in 1..Len(inbox)
  <2>1. ~Executing /\ inbox # <<>>
    BY <1>1, ExecuteEffect
  <2> QED BY <1>1, <2>1, Stages
<1>3. /\ r \in Requests /\ n > 0 /\ s <= NumSpecTokens /\ NumSpecTokens \in Nat
      /\ s > 0 => n = s + 1 /\ r \in Emitting(m)
  <2>1. r \in Requests /\ n > 0
    BY <1>0 DEF RowsOf
  <2>2. Drafted(m)
    BY <1>2 DEF Grounds, Placed
  <2> QED BY <1>0, <2>1, <2>2, MessageFacts, SchedulerAssumption DEF Drafted
<1>4. PICK lo \in Int :
        /\ Runner!CuNumTokens(m, rows', i) = lo + n
        /\ \A k \in Int : 0 < k /\ k <= n =>
             Runner!InputIds(m, States, rows')[lo + k] =
               IF r \notin OnGpu(m)
               THEN CpuId(States, r, m.computed[r] + (k - 1))
               ELSE IF k = 1 THEN sampled.next[prevIndex[r]]
               ELSE drafts[prevIndex[r]][k - 1]
  BY <1>0, RowRead
<1>5. PICK p \in Int : p = n - s /\ p > 0 /\ p <= n
  <2>1. CASE s > 0
    BY <1>0, <1>3, <2>1
  <2>2. CASE s = 0
    BY <1>0, <1>3, <2>2
  <2> QED BY <2>1, <2>2
<1>6. CASE r \in OnGpu(m)
  <2>1. /\ Ready(r) /\ r \in Emitting(m) /\ n = s + 1 /\ start = kvLen[r]
        /\ known'[r] = known[r] /\ r \in DOMAIN prevIndex
    BY <1>0, <1>6, Continues DEF OnGpu
  <2>2. /\ sampled.next[prevIndex[r]] = <<r, start>> /\ known'[r] = start + 1
        /\ \A j \in 1..NumSpecTokens :
             drafts[prevIndex[r]][j] \in {<<r, start + j>>, Runner!Zero}
    BY <2>1 DEF Ready
  <2>3. p = 1
    BY <1>5, <2>1
  <2>4. ASSUME NEW k \in 1..p
        PROVE  Runner!InputIds(m, States, rows')[lo + k] = <<r, start + k - 1>>
    <3>1. k = 1 /\ start + k - 1 = start /\ k <= n /\ k \in Int
      BY <1>5, <2>3
    <3> QED BY <1>4, <1>6, <2>2, <3>1
  <2>5. ASSUME NEW j \in 1..s
        PROVE  Runner!InputIds(m, States, rows')[lo + p + j]
                 \in {<<r, start + p + j - 1>>, Runner!Zero}
    <3>1. PICK k \in Int : k = p + j
      OBVIOUS
    <3>2. /\ 0 < k /\ k <= n /\ k # 1 /\ k - 1 = j /\ lo + p + j = lo + k
          /\ start + p + j - 1 = start + j /\ j \in 1..NumSpecTokens
      BY <1>3, <2>1, <2>3, <3>1
    <3>3. Runner!InputIds(m, States, rows')[lo + k] = drafts[prevIndex[r]][j]
      BY <1>4, <1>6, <3>2
    <3> QED BY <2>2, <3>2, <3>3
  <2>6. start + p = known'[r]
    BY <2>2, <2>3
  <2>7. Carries(Runner!InputIds(m, States, rows'), m, r, start, lo)
    BY <1>0, <1>5, <1>6, <2>4, <2>5 DEF Carries
  <2> QED BY <1>0, <1>4, <1>5, <2>1, <2>6, <2>7
<1>7. CASE r \notin OnGpu(m)
  <2>1. PICK t, u \in Int :
          /\ t = Tokens(m, r) /\ t = known'[r] /\ u = PromptLen[r] + States[r].real
          /\ u = t /\ m.computed[r] = start
    <3>1. /\ m.computed[r] = start /\ Tokens(m, r) = known'[r]
          /\ PromptLen[r] + States[r].real = known'[r]
      BY <1>0, <1>7, Enters
    <3>2. PromptLen[r] \in Int /\ m.outputs[r] \in Int
      BY <1>1, <1>3, Numbers, MessageFacts
    <3>3. Tokens(m, r) \in Int
      BY <3>2 DEF Tokens
    <3> QED BY <3>1, <3>3
  <2>2. r \in Emitting(m) => start + p = t
    <3>1. r \in Emitting(m) => start + n - s = t
      BY <1>0, <1>2, <2>1 DEF Reckonings, Reckoned, Exact
    <3> QED BY <1>5, <3>1
  <2>3. r \notin Emitting(m) => start + p < t
    <3>1. r \notin Emitting(m) => ~(start + n >= t)
      BY <1>0, <1>3, <2>1 DEF Emitting, Tokens
    <3>2. r \notin Emitting(m) => p = n
      BY <1>3, <1>5
    <3> QED BY <3>1, <3>2
  <2>4. start + p <= t
    BY <1>5, <2>2, <2>3
  <2>5. ASSUME NEW k \in 1..p
        PROVE  Runner!InputIds(m, States, rows')[lo + k] = <<r, start + k - 1>>
    <3>1. /\ 0 < k /\ k <= n /\ k \in Int
          /\ start + (k - 1) = start + k - 1 /\ start + (k - 1) < t
      BY <1>5, <2>4
    <3>2. Runner!InputIds(m, States, rows')[lo + k] =
            CpuId(States, r, start + (k - 1))
      BY <1>4, <1>7, <2>1, <3>1
    <3> QED BY <2>1, <3>1, <3>2 DEF CpuId
  <2>6. ASSUME NEW j \in 1..s
        PROVE  Runner!InputIds(m, States, rows')[lo + p + j]
                 \in {<<r, start + p + j - 1>>, Runner!Placeholder}
    <3>1. PICK k \in Int : k = p + j
      OBVIOUS
    <3>2. 0 < k /\ k <= n /\ lo + p + j = lo + k
      BY <1>5, <3>1
    <3>3. Runner!InputIds(m, States, rows')[lo + k] =
            CpuId(States, r, start + (k - 1))
      BY <1>4, <1>7, <2>1, <3>2
    <3>4. start + p + j - 1 = start + (k - 1)
      BY <3>1
    <3> QED BY <3>2, <3>3, <3>4 DEF CpuId
  <2>7. Carries(Runner!InputIds(m, States, rows'), m, r, start, lo)
    BY <1>0, <1>5, <1>7, <2>5, <2>6 DEF Carries
  <2> QED BY <1>0, <1>4, <1>5, <2>1, <2>2, <2>3, <2>7
<1> QED BY <1>6, <1>7

LEMMA ExecuteFeeds ==
  ASSUME EInv, Ahead, Grounds, Tally, Reckonings, NewOnce, Feeds,
         ForgetsRemoved, Runner!ExecuteModel
  PROVE  Feeds'
<1>1. /\ Shape /\ Pipeline /\ Worker /\ Deliverable
  BY DEF EInv, IInv
<1>2. /\ ~Executing /\ inbox # <<>> /\ ToSet(rows') = RowsOf(inbox[1])
      /\ rows' \in Seq(Requests)
  BY <1>1, ExecuteEffect
<1>3. PICK m \in Messages : m = inbox[1]
  BY <1>1, <1>2, Stages
<1>4. \A r \in DOMAIN States : 0 <= States[r].real
  <2>1. \A r \in DOMAIN requests : 0 <= requests[r].real
    BY DEF Feeds
  <2> QED BY <1>2, <1>3, <2>1, CachedReal
<1>5. CASE RowsOf(m) = {}
  <2>1. /\ ~Executing' /\ rows' = <<>> /\ requests' = States
        /\ prevIndex' = Runner!PrevIndex(m)
    BY <1>1, <1>3, <1>5, ExecuteEffect, TakeUpTokens, TakeUp DEF Executing
  <2>2. DOMAIN prevIndex' = {}
    <3>1. /\ OnGpu(m) \subseteq RowsOf(m)
          /\ Runner!PrevIndex(m) = [r \in OnGpu(m) |-> prevIndex[r]]
      BY <1>2, OnGpuFacts
    <3> QED BY <1>5, <2>1, <3>1
  <2>3. ToSet(rows)' = {}
    BY <1>2, <1>3, <1>5
  <2> QED BY <1>4, <2>1, <2>2, <2>3 DEF Feeds
<1>6. CASE RowsOf(m) # {}
  <2>1. /\ Executing' /\ execState'.m = m
        /\ execState'.discarded = {i \in DOMAIN rows' : rows'[i] \notin Emitting(m)}
    BY <1>1, <1>3, <1>6, ExecuteEffect DEF Executing
  <2>2. /\ execState'.common = Runner!Common(m, rows')
        /\ execState'.ids = Runner!InputIds(m, States, rows')
        /\ requests' = Corrections
    BY <1>1, <1>3, <1>6, TakeUpTokens, TakeUp
  <2>3. /\ DOMAIN requests' = DOMAIN States /\ RowsOf(m) \subseteq DOMAIN States
        /\ \A r \in DOMAIN States : requests'[r].real = States[r].real
    BY <1>1, <1>2, <1>3, <2>2, CorrectedStates, CorrectedReal, UpdatedStates
  <2>4. \A i \in DOMAIN rows' : rows'[i] \in RowsOf(m)
    BY <1>2, <1>3 DEF ToSet
  <2>6. ASSUME NEW i \in DOMAIN rows'
        PROVE  LET r == rows'[i]
                   start == gpuComputed'[i]
                   plain == m.n[r] - m.spec[r]
               IN  /\ start = kvLen'[r]
                   /\ \A j \in 1..plain : Fed(i)'[j] = <<r, start + j - 1>>
                   /\ \A j \in 1..m.spec[r] :
                        Runner!VerifiedIds(m, execState'.ids, rows', i)[j]
                          \in {<<r, start + plain + j - 1>>,
                               IF i \in execState'.common THEN Runner!Zero
                               ELSE Runner!Placeholder}
                   /\ IF i \in execState'.discarded
                      THEN /\ start + plain < known'[r]
                           /\ PromptLen[r] + requests'[r].real = known'[r]
                      ELSE start + plain = known'[r]
    <3>1. PICK r \in RowsOf(m) : r = rows'[i] /\ r \in Requests
      BY <2>4 DEF RowsOf
    <3>2. gpuComputed'[i] = kvLen'[r]
      BY <3>1, StartsRight
    <3>3. PICK start, n, plain \in Int, s \in Nat :
            start = kvLen'[r] /\ n = m.n[r] /\ s = m.spec[r] /\ plain = n - s
      <4>1. kvLen'[r] \in Int /\ m.n[r] \in Int /\ m.spec[r] \in Nat
        BY <1>3, <3>1, RowFedRight
      <4>2. m.n[r] - m.spec[r] \in Int
        BY <4>1
      <4> QED BY <4>1, <4>2
    <3>4. PICK lo \in Int :
            /\ Runner!CuNumTokens(m, rows', i) = lo + n
            /\ Carries(execState'.ids, m, r, start, lo)
      <4>1. \E lo \in Int :
              /\ Runner!CuNumTokens(m, rows', i) = lo + m.n[r]
              /\ Carries(Runner!InputIds(m, States, rows'), m, r, kvLen'[r], lo)
        BY <1>3, <3>1, RowFedRight
      <4> QED BY <2>2, <3>3, <4>1
    <3>5. i \in execState'.common <=> r \in OnGpu(m)
      BY <1>3, <2>2, <3>1, RowRead
    <3>6. IF i \in execState'.discarded
          THEN /\ start + plain < known'[r]
               /\ PromptLen[r] + requests'[r].real = known'[r]
          ELSE start + plain = known'[r]
      <4>1. IF r \in Emitting(m) THEN start + plain = known'[r]
            ELSE /\ start + plain < known'[r]
                 /\ PromptLen[r] + States[r].real = known'[r]
        BY <1>3, <3>1, <3>3, RowFedRight
      <4>2. requests'[r].real = States[r].real
        BY <2>3
      <4> QED BY <2>1, <3>1, <4>1, <4>2
    <3>7. /\ \A j \in 1..plain : execState'.ids[lo + j] = <<r, start + j - 1>>
          /\ \A j \in 1..s :
               execState'.ids[lo + plain + j]
                 \in {<<r, start + plain + j - 1>>,
                      IF i \in execState'.common THEN Runner!Zero
                      ELSE Runner!Placeholder}
      BY <3>3, <3>4, <3>5 DEF Carries
    <3>8. ASSUME NEW j \in 1..plain
          PROVE  Fed(i)'[j] = <<r, start + j - 1>>
      <4>1. j \in 1..n
        BY <3>3
      <4>2. Fed(i)'[j] = execState'.ids[(lo + n) - n + j]
        BY <2>1, <3>1, <3>3, <3>4, <4>1 DEF Fed
      <4>3. (lo + n) - n + j = lo + j
        OBVIOUS
      <4> QED BY <3>7, <4>2, <4>3
    <3>9. ASSUME NEW j \in 1..s
          PROVE  Runner!VerifiedIds(m, execState'.ids, rows', i)[j]
                   = execState'.ids[lo + plain + j]
      <4>1. j + 1 \in 1..(s + 1)
        OBVIOUS
      <4>2. Runner!LogitsIndices(m, rows', i)[j + 1] = (lo + n) - (s + 1) + (j + 1)
        BY <3>1, <3>3, <3>4, <4>1 DEF Runner!LogitsIndices
      <4>3. (lo + n) - (s + 1) + (j + 1) = lo + plain + j
        BY <3>3
      <4> QED BY <3>1, <3>3, <4>2, <4>3 DEF Runner!VerifiedIds
    <3>10. \A j \in 1..s :
             Runner!VerifiedIds(m, execState'.ids, rows', i)[j]
               \in {<<r, start + plain + j - 1>>,
                    IF i \in execState'.common THEN Runner!Zero
                    ELSE Runner!Placeholder}
      BY <3>7, <3>9
    <3> QED BY <3>1, <3>2, <3>3, <3>6, <3>8, <3>10
  <2>7. InputsRight'
    BY <2>1, <2>6 DEF InputsRight
  <2>8. \A i \in execState'.discarded :
          PromptLen[rows'[i]] + requests'[rows'[i]].real = known'[rows'[i]]
    BY <2>1, <2>6
  <2>9. \A r \in DOMAIN requests' : 0 <= requests'[r].real
    BY <1>4, <2>3
  <2> QED BY <2>1, <2>7, <2>8, <2>9 DEF Feeds
<1> QED BY <1>5, <1>6

\* What a sampled row leaves is what it goes on with.
LEMMA SampleFeeds ==
  ASSUME EInv, Ahead, Grounds, Tally, Feeds, Runner!SampleTokens
  PROVE  Feeds'
<1>1. Pipeline /\ Worker /\ Grounded
  BY DEF EInv, Grounds
<1>2. /\ Executing /\ ~Executing' /\ rows' = rows
      /\ DOMAIN requests' = DOMAIN requests
  BY <1>1, SampleEffect DEF Executing
<1>3. PICK m \in Messages : m = execState.m /\ ToSet(rows) = RowsOf(m)
  BY <1>1, <1>2 DEF Worker
<1>4. PICK g \in [RowsOf(m) -> Int] : Drawn(m, g)
  BY <1>1, <1>3, Sampling
<1>5. /\ DOMAIN prevIndex' = Emitting(m)
      /\ sampled' # <<>> /\ (rows # <<>> => drafts' # <<>>)
      /\ known' = [r \in Requests |-> IF r \in RowsOf(m)
                                      THEN known[r] + Given(r) ELSE known[r]]
      /\ \A r \in Emitting(m) :
           /\ prevIndex'[r] \in DOMAIN rows /\ rows[prevIndex'[r]] = r
           /\ Noted(m, prevIndex'[r])
      /\ \A r \in DOMAIN requests : requests'[r].real = requests[r].real
  BY <1>1, <1>3, Outcome
<1>6. /\ InputsRight /\ ToSet(rows) \subseteq DOMAIN requests
      /\ execState.discarded = {i \in DOMAIN rows : rows[i] \notin Emitting(m)}
      /\ \A i \in execState.discarded :
           PromptLen[rows[i]] + requests[rows[i]].real = known[rows[i]]
  BY <1>1, <1>2, <1>3 DEF Feeds, Worker
<1>7. ASSUME NEW r \in RowsOf(m)
      PROVE  Ready(r)'
  <2>1. r \in Requests /\ known[r] \in Int
    BY DEF RowsOf, Tally
  <2>2. PICK d, kn \in Int :
          /\ d = g[r] /\ d = Given(r) /\ d >= 0 /\ kn = known[r]
          /\ d > 0 <=> r \in Emitting(m)
          /\ known'[r] = kn + d
    <3>1. /\ g[r] \in 0..(m.spec[r] + 1)
          /\ g[r] > 0 <=> r \in Emitting(m)
          /\ g[r] = Given(r)
      BY <1>4 DEF Drawn, Given
    <3>2. known'[r] = known[r] + g[r]
      BY <1>5, <2>1, <3>1
    <3> QED BY <2>1, <3>1, <3>2
  <2>3. CASE r \in Emitting(m)
    <3>1. PICK p \in DOMAIN rows :
            p = prevIndex'[r] /\ rows[p] = r /\ Noted(m, p)
      BY <1>5, <2>3
    <3>2. PICK kv, n, s, pl \in Int :
            /\ kv = kvLen[r] /\ n = m.n[r] /\ s = m.spec[r]
            /\ gpuComputed[p] = kv
      BY <1>1, <1>2, <2>1, <3>1, MessageFacts DEF Ahead, Grounded
    <3>3. p \notin execState.discarded
      BY <1>6, <2>3, <3>1
    <3>4. kv + (n - s) = kn
      <4>1. gpuComputed[p] + (m.n[r] - m.spec[r]) = known[r]
        BY <1>2, <1>3, <1>6, <3>1, <3>3 DEF InputsRight, Executing
      <4> QED BY <2>2, <3>2, <4>1
    <3>5. kvLen'[r] = kv + n - s - 1 + d
      <4>1. kvLen'[r] = IF g[r] = 0 THEN kvLen[r] + m.n[r]
                         ELSE kvLen[r] + m.n[r] - m.spec[r] - 1 + g[r]
        BY <1>4, <2>1 DEF Drawn
      <4>2. d # 0
        BY <2>2, <2>3
      <4> QED BY <2>2, <3>2, <4>1, <4>2
    <3>6. LastOf(m, p) = kv + n - s - 1 + d
      BY <2>2, <3>1, <3>2 DEF LastOf
    <3>7. PICK last \in Int :
            last = kvLen'[r] /\ last = LastOf(m, p) /\ known'[r] = last + 1
      BY <2>2, <3>2, <3>4, <3>5, <3>6
    <3>8. /\ sampled'.next[p] = <<r, last>>
          /\ \A j \in 1..NumSpecTokens :
               drafts'[p][j] \in {<<r, last + j>>, Runner!Zero}
      BY <3>1, <3>7 DEF Noted
    <3>9. rows # <<>>
      <4>1. DOMAIN <<>> = {}
        OBVIOUS
      <4> QED BY <3>1, <4>1
    <3> QED BY <1>2, <1>5, <2>3, <3>1, <3>7, <3>8, <3>9 DEF Ready
  <2>4. CASE r \notin Emitting(m)
    <3>1. PICK i \in DOMAIN rows : rows[i] = r
      BY <1>3 DEF ToSet
    <3>2. PromptLen[r] + requests[r].real = known[r]
      BY <1>6, <2>4, <3>1
    <3>3. requests'[r].real = requests[r].real
      BY <1>3, <1>5, <1>6
    <3>4. known'[r] = known[r]
      BY <2>2, <2>4
    <3>5. r \notin DOMAIN prevIndex'
      BY <1>5, <2>4
    <3> QED BY <3>2, <3>3, <3>4, <3>5 DEF Ready
  <2> QED BY <2>3, <2>4
<1>8. \A r \in DOMAIN requests' : 0 <= requests'[r].real
  BY <1>2, <1>5 DEF Feeds
<1>9. Emitting(m) \subseteq RowsOf(m) /\ ToSet(rows)' = RowsOf(m)
  BY <1>2, <1>3 DEF Emitting
<1> QED BY <1>2, <1>5, <1>7, <1>8, <1>9 DEF Feeds

-----------------------------------------------------------------------------
(* In every state.                                                         *)

\* Counts and feeds of the worker, as the scheduler has them.
Inputs == Tally /\ Reckonings /\ NewOnce /\ Feeds

LEMMA InitInputs ==
  ASSUME EngineInit
  PROVE  Inputs
<1>1. /\ Init /\ inbox = <<>> /\ rows = <<>> /\ execState = <<>>
      /\ requests = <<>> /\ prevIndex = <<>>
      /\ known = [r \in Requests |-> 0] /\ newReqs = {}
  BY DEF EngineInit, Runner!RunnerInit, Runner!None
<1>2. \A r \in Requests : req[r].status = "NEW"
  BY <1>1 DEF Init
<1>3. Len(<<>>) = 0 /\ DOMAIN <<>> = {} /\ 1..0 = {}
  OBVIOUS
<1>4. Tally
  BY <1>1, <1>2 DEF Tally, Active
<1>5. Reckonings /\ NewOnce
  BY <1>1, <1>3 DEF Reckonings, NewOnce, Unmet
<1>6. ToSet(rows) = {}
  BY <1>1, <1>3 DEF ToSet
<1>7. Feeds
  BY <1>1, <1>3, <1>6 DEF Feeds, Executing
<1> QED BY <1>4, <1>5, <1>7 DEF Inputs

LEMMA QuietTally ==
  ASSUME EInv, Tally, EngineNext, ~Execute, ~Send, ~EndReceive
  PROVE  Tally'
<1>1. ASSUME NEW r \in Requests, UpdateRow(r) \/ SkipRow(r)
      PROVE  Tally'
  BY <1>1, RowTally
<1> QED BY <1>1, BeginTally, RunningLoopTally, AdmitHeadTally, OutsideTally
        DEF EngineNext

LEMMA QuietNewOnce ==
  ASSUME EInv, NewOnce, EngineNext, ~Execute, ~Send
  PROVE  NewOnce'
BY ScheduleNewOnce, OutsideNewOnce, ReceiveNewOnce DEF EngineNext

LEMMA StepInputs ==
  ASSUME EInv, Positions, Inputs, ForgetsRemoved, [EngineNext]_engineVars
  PROVE  Inputs'
<1>1. /\ Ahead /\ Grounds /\ \A k \in 1..Len(inbox) : Placed(k)
      /\ Tally /\ Reckonings /\ NewOnce /\ Feeds
  BY DEF Positions, Grounds, Inputs
<1>2. CASE UNCHANGED engineVars
  <2>1. /\ UNCHANGED <<inbox, outbox, frames, phase, todo, req, newReqs>>
        /\ UNCHANGED <<requests, rows, prevIndex, sampled, gpuComputed, drafts,
                       execState, known, kvLen>>
    BY <1>2 DEF engineVars, vars, runnerVars, admitVars, stepVars
  <2>2. \A r \in Requests : Pending(r)' = Pending(r) /\ NumTokens(r)' = NumTokens(r)
    BY <2>1, SamePending DEF NumTokens
  <2>3. Tally'
    BY <1>1, <2>1, <2>2, TallyKept
  <2>4. Reckonings' /\ NewOnce' /\ Feeds'
    BY <1>1, <2>1, ReckoningsKept, NewOnceKept, FeedsKept
  <2> QED BY <2>3, <2>4 DEF Inputs
<1>3. CASE Execute
  <2>1. /\ UNCHANGED <<vars, prevStep, admitVars>> /\ phase = "idle"
        /\ Runner!ExecuteModel \/ Runner!SampleTokens
        /\ UNCHANGED frames
    BY <1>3 DEF Execute, Runner!RunnerStep, vars
  <2>2. NewOnce'
    BY <1>1, <1>3, ExecuteNewOnce
  <2>3. CASE Runner!ExecuteModel
    <3>1. Tally'
      BY <1>1, <2>1, <2>3, ExecuteTally
    <3>2. Reckonings'
      BY <1>1, <2>1, <2>3, ExecuteReckonings
    <3>3. Feeds'
      BY <1>1, <2>3, ExecuteFeeds
    <3> QED BY <2>2, <3>1, <3>2, <3>3 DEF Inputs
  <2>4. CASE Runner!SampleTokens
    <3>1. Tally'
      BY <1>1, <2>1, <2>4, SampleTally
    <3>2. Reckonings'
      BY <1>1, <2>4, SampleReckonings
    <3>3. Feeds'
      BY <1>1, <2>4, SampleFeeds
    <3> QED BY <2>2, <3>1, <3>2, <3>3 DEF Inputs
  <2> QED BY <2>1, <2>3, <2>4
<1>4. CASE Send
  <2>1. UNCHANGED <<requests, rows, prevIndex, sampled, gpuComputed, drafts,
                    execState, known, kvLen>>
    BY <1>4 DEF Send
  <2>2. Feeds'
    BY <1>1, <2>1, FeedsKept
  <2>3. Tally' /\ Reckonings' /\ NewOnce'
    BY <1>1, <1>4, SendTally, SendReckonings, SendNewOnce
  <2> QED BY <2>2, <2>3 DEF Inputs
<1>5. CASE EndReceive
  <2>1. /\ UNCHANGED <<requests, rows, prevIndex, sampled, gpuComputed, drafts,
                       execState, known, kvLen>>
        /\ UNCHANGED inbox
    BY <1>5 DEF EndReceive
  <2>2. Feeds' /\ Reckonings'
    BY <1>1, <2>1, FeedsKept, ReckoningsKept
  <2>3. Tally' /\ NewOnce'
    BY <1>1, <1>5, EndReceiveTally, ReceiveNewOnce
  <2> QED BY <2>2, <2>3 DEF Inputs
<1>6. CASE EngineNext /\ ~Execute /\ ~Send /\ ~EndReceive
  <2>1. /\ UNCHANGED <<requests, rows, prevIndex, sampled, gpuComputed, drafts,
                       execState, known, kvLen>>
        /\ UNCHANGED inbox
    BY <1>6, Undisturbed DEF runnerVars
  <2>2. Feeds' /\ Reckonings'
    BY <1>1, <2>1, FeedsKept, ReckoningsKept
  <2>3. Tally' /\ NewOnce'
    BY <1>1, <1>6, QuietTally, QuietNewOnce
  <2> QED BY <2>2, <2>3 DEF Inputs
<1> QED BY <1>2, <1>3, <1>4, <1>5, <1>6

(***************************************************************************)
(* If remove_request() drops a request from prev_req_id_to_index, every    *)
(* row of every batch goes on at the first position without KV, and is fed *)
(* the token that stands there, from the CPU or from whatever row sampled  *)
(* it in the step before, and verifies its own drafts, zeros or            *)
(* placeholders; just the rows that end before their tokens are discarded. *)
(* So it is for any number of requests, blocks, drafts and steps.          *)
(***************************************************************************)
THEOREM FeedsAreRight ==
  ASSUME ForgetsRemoved
  PROVE  EngineSpec => []InputsRight
<1>1. EngineInit => Inputs
  BY InitInputs
<1>2. EInv /\ Positions /\ Inputs /\ [EngineNext]_engineVars => Inputs'
  BY StepInputs
<1>3. Inputs => InputsRight
  BY DEF Inputs, Feeds, InputsRight, Executing
<1> QED BY <1>1, <1>2, <1>3, EInvHolds, PositionsHold, PTL DEF EngineSpec
=============================================================================
