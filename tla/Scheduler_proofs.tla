-------------------------- MODULE Scheduler_proofs --------------------------
(***************************************************************************)
(* Proofs about Scheduler, for every number of requests, KV blocks, draft  *)
(* tokens and every length limit, and whenever the prefix cache is reset.  *)
(*                                                                         *)
(* The invariant is proved in layers.  The first says that the variables   *)
(* have the right shape, with counters that are integers, and that the     *)
(* queues agree with the statuses: it is inductive without any accounting. *)
(* On it rest the KV block pool and the order of service that FcfsService  *)
(* promises, and, in the second half, the accounting of tokens: it makes   *)
(* the counters natural numbers, so type correctness needs both layers.    *)
(*                                                                         *)
(* The theorems about tokens hold for caches that are reset while nothing  *)
(* is in flight, or only steps without draft tokens (ResetModes \subseteq  *)
(* {"drained", "undrafted"}); Scheduler_stale.cfg shows that a reset with  *)
(* drafts in flight does break the accounting.                             *)
(***************************************************************************)
EXTENDS Scheduler, DataLemmas

-----------------------------------------------------------------------------
(* Layer 1: shape and queues.                                              *)

ShapedRecord ==
  [status : Statuses, computed : Int, out : Nat, ph : Int,
   spec : 0..NumSpecTokens, chunk : BOOLEAN]

ShapedFrame ==
  [n : [Requests -> Int], spec : [Requests -> 0..NumSpecTokens],
   emits : SUBSET Requests, stale : SUBSET Requests]

Shape ==
  /\ req \in [Requests -> ShapedRecord]
  /\ blocks \in [Requests -> Nat]
  /\ freeBlocks \in Nat
  /\ finishedReqIds \in SUBSET Requests
  /\ pauseState \in {"UNPAUSED", "PAUSED_NEW", "PAUSED_ALL"}
  /\ frames \in Seq(ShapedFrame)
  /\ Len(frames) <= 2
  /\ phase \in {"idle", "running", "waiting", "update"}
  /\ cursor \in Nat \ {0}
  /\ budget \in Nat
  /\ sched \in [Requests -> Int]
  /\ schedSpec \in [Requests -> 0..NumSpecTokens]
  /\ preempted \in SUBSET Requests
  /\ todo \in SUBSET Requests
  /\ phase = "update" => frames # <<>>
  /\ phase \in {"running", "waiting"} => Len(frames) < 2

Queued ==
  /\ IsQueue(running, Requests)
  /\ IsQueue(waiting, Requests)
  /\ ToSet(running) = {r \in Requests : req[r].status = "RUNNING"}
  /\ ToSet(waiting) =
       {r \in Requests : req[r].status \in {"WAITING", "PREEMPTED"}}


LEMMA MissingType ==
  ASSUME NEW r \in Requests, NEW n \in Int, blocks \in [Requests -> Nat]
  PROVE  Missing(r, n) \in Nat
<1>1. Least(n, MaxModelLen) \in Int
  BY SchedulerAssumption DEF Least
<1>2. BlocksFor(Least(n, MaxModelLen)) \in Int
  BY <1>1, SchedulerAssumption DEF BlocksFor
<1> QED BY <1>2 DEF Missing

LEMMA AllocateType ==
  ASSUME NEW r \in Requests, NEW n \in Int, blocks \in [Requests -> Nat],
         freeBlocks \in Nat, Missing(r, n) <= freeBlocks, Allocate(r, n)
  PROVE  blocks' \in [Requests -> Nat] /\ freeBlocks' \in Nat
<1>1. Missing(r, n) \in Nat
  BY MissingType
<1> QED BY <1>1 DEF Allocate

LEMMA FreeType ==
  ASSUME NEW r \in Requests, blocks \in [Requests -> Nat],
         freeBlocks \in Nat, Free(r)
  PROVE  blocks' \in [Requests -> Nat] /\ freeBlocks' \in Nat
BY DEF Free

\* The request at the cursor, and what it may be given.
LEMMA RunningRequest ==
  ASSUME Shape, Queued, InRunningLoop
  PROVE  /\ running # <<>>
         /\ cursor \in 1..Len(running)
         /\ running[cursor] \in Requests
         /\ req[running[cursor]].status = "RUNNING"
         /\ NumNewTokens(running[cursor]) \in Int
         /\ NumNewTokens(running[cursor]) <= budget
         /\ LookAhead(running[cursor]) \in Int
<1>1. Len(running) \in Nat /\ running \in Seq(Requests)
  BY Members DEF Queued, IsQueue
<1>2. cursor \in 1..Len(running)
  BY <1>1 DEF Shape, InRunningLoop
<1>3. running[cursor] \in Requests /\ running[cursor] \in ToSet(running)
  BY <1>1, <1>2, Members
<1>4. running # <<>>
  BY <1>1, <1>2, EmptySeq
<1> DEFINE r == running[cursor]
<1>5. req[r].status = "RUNNING"
  BY <1>3 DEF Queued
<1>6. /\ req[r].out \in Int /\ req[r].spec \in Int /\ req[r].ph \in Int
      /\ req[r].computed \in Int /\ PromptLen[r] \in Int
      /\ budget \in Int /\ MaxModelLen \in Int
      /\ LongPrefillThreshold \in Int /\ NumSpecTokens \in Int
  <2>1. req[r] \in ShapedRecord /\ budget \in Int
    BY <1>3 DEF Shape
  <2>2. /\ req[r].out \in Int /\ req[r].spec \in Int /\ req[r].ph \in Int
        /\ req[r].computed \in Int
    BY <2>1 DEF ShapedRecord
  <2>3. /\ PromptLen[r] \in Int /\ MaxModelLen \in Int
        /\ LongPrefillThreshold \in Int /\ NumSpecTokens \in Int
    BY <1>3, SchedulerAssumption
  <2> QED BY <2>1, <2>2, <2>3
<1> HIDE DEF r
<1>7. /\ NumNewTokens(r) \in Int
      /\ NumNewTokens(r) <= budget
  BY <1>6 DEF NumNewTokens, Least, Capped, NumTokens
<1>8. LookAhead(r) \in Int
  BY <1>6, <1>7 DEF LookAhead
<1> QED BY <1>2, <1>3, <1>4, <1>5, <1>7, <1>8 DEF r

LEMMA InitLayer1 ==
  ASSUME Init
  PROVE  Shape /\ Queued
<1>1. frames \in Seq(ShapedFrame) /\ Len(frames) = 0
  BY DEF Init
<1>2. Shape
  BY <1>1, SchedulerAssumption DEF Init, Shape, ShapedRecord, Statuses, Nothing
<1>3. /\ running = <<>> /\ waiting = <<>>
      /\ <<>> \in Seq(Requests) /\ DOMAIN <<>> = {}
  BY DEF Init
<1>4. IsQueue(<<>>, Requests) /\ ToSet(<<>>) = {}
  BY <1>3 DEF IsQueue, IsInjective, ToSet
<1>5. \A r \in Requests : req[r].status = "NEW"
  BY DEF Init
<1> QED BY <1>2, <1>3, <1>4, <1>5 DEF Queued

LEMMA AddRequestLayer1 ==
  ASSUME Shape, Queued, NEW r \in Requests, AddRequest(r)
  PROVE  Shape' /\ Queued'
<1>1. Shape'
  <2>1. req \in [Requests -> ShapedRecord] /\ req[r] \in ShapedRecord
    BY DEF Shape
  <2>2. [req[r] EXCEPT !.status = "WAITING"] \in ShapedRecord
    BY <2>1 DEF ShapedRecord, Statuses
  <2>3. req' = [req EXCEPT ![r] = [req[r] EXCEPT !.status = "WAITING"]]
    BY <2>1 DEF AddRequest
  <2>4. req' \in [Requests -> ShapedRecord]
    BY <2>1, <2>2, <2>3
  <2> QED BY <2>4 DEF AddRequest, Shape, kvVars, stepVars
<1>2. r \notin ToSet(waiting)
  BY DEF AddRequest, Queued
<1>3. IsQueue(waiting', Requests) /\ ToSet(waiting') = ToSet(waiting) \union {r}
  BY <1>2, AppendToQueue DEF AddRequest, Queued
<1>4. running' = running
  BY DEF AddRequest
<1>5. \A q \in Requests : req'[q].status = IF q = r THEN "WAITING" ELSE req[q].status
  BY DEF AddRequest, Shape, ShapedRecord
<1> QED BY <1>1, <1>3, <1>4, <1>5 DEF Queued, AddRequest

\* LeaveEngine, whoever calls it.
LEMMA LeaveEngineQueues ==
  ASSUME Shape, Queued, NEW r \in Requests, LeaveEngine(r),
         NEW record, record.status = "FINISHED",
         req' = [req EXCEPT ![r] = record]
  PROVE  Queued'
<1>1. /\ IsQueue(RemoveFirst(running, r), Requests)
      /\ ToSet(RemoveFirst(running, r)) = ToSet(running) \ {r}
      /\ IsQueue(RemoveFirst(waiting, r), Requests)
      /\ ToSet(RemoveFirst(waiting, r)) = ToSet(waiting) \ {r}
  BY RemoveFirstProperties DEF Queued
<1>2. \A q \in Requests :
        req'[q].status = IF q = r THEN "FINISHED" ELSE req[q].status
  BY DEF Shape
<1>3. CASE req[r].status = "RUNNING"
  <2>1. running' = RemoveFirst(running, r) /\ waiting' = waiting
    BY <1>3 DEF LeaveEngine
  <2> QED BY <1>1, <1>2, <1>3, <2>1 DEF Queued
<1>4. CASE req[r].status # "RUNNING"
  <2>1. waiting' = RemoveFirst(waiting, r) /\ running' = running
    BY <1>4 DEF LeaveEngine
  <2> QED BY <1>1, <1>2, <1>4, <2>1 DEF Queued
<1> QED BY <1>3, <1>4

LEMMA AbortLayer1 ==
  ASSUME Shape, Queued, NEW r \in Requests, Abort(r)
  PROVE  Shape' /\ Queued'
<1>1. /\ req[r].status \in Unfinished
      /\ req' = [req EXCEPT ![r] = Finished(req[r])]
      /\ LeaveEngine(r)
  BY DEF Abort
<1>2. Finished(req[r]) \in ShapedRecord /\ Finished(req[r]).status = "FINISHED"
  BY SchedulerAssumption DEF Finished, Shape, ShapedRecord, Statuses
<1>3. Queued'
  BY <1>1, <1>2, LeaveEngineQueues
<1>4. blocks' \in [Requests -> Nat] /\ freeBlocks' \in Nat
  BY <1>1, FreeType DEF LeaveEngine, Shape
<1>5. finishedReqIds' \in SUBSET Requests
  BY <1>1 DEF LeaveEngine, Shape
<1>6. Shape'
  BY <1>1, <1>2, <1>4, <1>5 DEF Shape, Abort, stepVars
<1> QED BY <1>3, <1>6

LEMMA SetPauseStateLayer1 ==
  ASSUME Shape, Queued, NEW p \in PauseStates, SetPauseState(p)
  PROVE  Shape' /\ Queued'
<1>1. Shape'
  BY SchedulerAssumption DEF SetPauseState, Shape, kvVars, stepVars, queueVars
<1>2. Queued'
  BY DEF SetPauseState, Queued, queueVars
<1> QED BY <1>1, <1>2

\* The running requests go to the head of the waiting queue, in order.
LEMMA ResetPrefixCacheLayer1 ==
  ASSUME Shape, Queued, ResetPrefixCache
  PROVE  Shape' /\ Queued'
<1>1. /\ waiting' = running \o waiting
      /\ running' = <<>>
      /\ req' = [r \in Requests |->
                   IF req[r].status = "RUNNING"
                   THEN [Preempted(req[r]) EXCEPT !.ph = 0]
                   ELSE req[r]]
  BY DEF ResetPrefixCache
<1>2. ASSUME NEW r \in Requests
      PROVE  /\ [Preempted(req[r]) EXCEPT !.ph = 0] \in ShapedRecord
             /\ [Preempted(req[r]) EXCEPT !.ph = 0].status = "PREEMPTED"
  <2>1. req[r] \in ShapedRecord
    BY DEF Shape
  <2> QED BY <2>1, SchedulerAssumption DEF Preempted, ShapedRecord, Statuses
<1>3. req' \in [Requests -> ShapedRecord]
  BY <1>1, <1>2 DEF Shape
<1>4. /\ frames' \in Seq(ShapedFrame)
      /\ Len(frames') = Len(frames)
  <2>1. /\ frames \in Seq(ShapedFrame)
        /\ DOMAIN frames = 1..Len(frames)
        /\ Len(frames) \in Nat
    BY LenProperties DEF Shape
  <2>2. ASSUME NEW i \in 1..Len(frames)
        PROVE  StaleFrame(frames[i]) \in ShapedFrame
    <3>1. frames[i] \in ShapedFrame
      BY <2>1, ElementOfSeq
    <3>2. frames[i].emits \in SUBSET Requests /\ frames[i].stale \in SUBSET Requests
      BY <3>1 DEF ShapedFrame
    <3> DEFINE more == {r \in frames[i].emits : req[r].status = "RUNNING"}
    <3>3. frames[i].stale \union more \in SUBSET Requests
      BY <3>2
    <3> QED BY <3>1, <3>3 DEF StaleFrame, ShapedFrame
  <2>3. frames' = [i \in 1..Len(frames) |-> StaleFrame(frames[i])]
    BY <2>1 DEF ResetPrefixCache
  <2> QED BY <2>1, <2>2, <2>3
<1>5. frames # <<>> => frames' # <<>>
  BY <1>4, EmptySeq DEF Shape
<1>6. Shape'
  BY <1>3, <1>4, <1>5, SchedulerAssumption
  DEF Shape, ResetPrefixCache, Nothing, stepVars
<1>7. Queued'
  <2>1. ToSet(running) \intersect ToSet(waiting) = {}
    BY DEF Queued
  <2>2. /\ IsQueue(waiting', Requests)
        /\ ToSet(waiting') = ToSet(running) \union ToSet(waiting)
    <3>1. /\ IsQueue(running \o waiting, Requests)
          /\ ToSet(running \o waiting) = ToSet(running) \union ToSet(waiting)
      <4>1. IsQueue(running, Requests) /\ IsQueue(waiting, Requests)
        BY DEF Queued
      <4>2. \A s, u : /\ IsQueue(s, Requests) /\ IsQueue(u, Requests)
                      /\ ToSet(s) \intersect ToSet(u) = {}
                      => /\ IsQueue(s \o u, Requests)
                         /\ ToSet(s \o u) = ToSet(s) \union ToSet(u)
        BY ConcatQueues
      <4> QED BY <2>1, <4>1, <4>2
    <3> QED BY <1>1, <3>1
  <2>3. IsQueue(running', Requests) /\ ToSet(running') = {}
    BY <1>1, EmptyQueue
  <2>4. \A r \in Requests :
          req'[r].status =
            IF req[r].status = "RUNNING" THEN "PREEMPTED" ELSE req[r].status
    BY <1>1, <1>2
  <2> QED BY <2>2, <2>3, <2>4 DEF Queued
<1> QED BY <1>6, <1>7

\* Steps that touch neither queues, statuses nor the shape of a record.
LEMMA LoopStepsLayer1 ==
  ASSUME Shape, Queued,
         BeginSchedule \/ SkipRunning \/ EndRunning \/ BeginUpdate
  PROVE  Shape' /\ Queued'
<1>1. CASE BeginSchedule
  <2>1. Shape'
    BY <1>1, SchedulerAssumption
    DEF Shape, BeginSchedule, BatchQueueOpen, Nothing, kvVars
  <2> QED BY <1>1, <2>1 DEF Queued, BeginSchedule, queueVars
<1>2. CASE SkipRunning
  <2>1. Shape'
    BY <1>2 DEF Shape, SkipRunning, kvVars
  <2> QED BY <1>2, <2>1 DEF Queued, SkipRunning, queueVars
<1>3. CASE EndRunning
  <2>1. Shape'
    BY <1>3 DEF Shape, EndRunning, kvVars, stepVars
  <2> QED BY <1>3, <2>1 DEF Queued, EndRunning, queueVars
<1>4. CASE BeginUpdate
  <2>1. Shape'
    BY <1>4 DEF Shape, BeginUpdate, kvVars, stepVars
  <2> QED BY <1>4, <2>1 DEF Queued, BeginUpdate, queueVars
<1> QED BY <1>1, <1>2, <1>3, <1>4

LEMMA ScheduleRunningLayer1 ==
  ASSUME Shape, Queued, ScheduleRunning
  PROVE  Shape' /\ Queued'
<1> DEFINE r == running[cursor]
           n == NumNewTokens(r)
<1>1. InRunningLoop
  BY DEF ScheduleRunning
<1>2. r \in Requests /\ n \in Int /\ n <= budget /\ LookAhead(r) \in Int
  BY <1>1, RunningRequest
<1>3. /\ Missing(r, LookAhead(r)) <= freeBlocks
      /\ Allocate(r, LookAhead(r))
      /\ sched' = [sched EXCEPT ![r] = n]
      /\ schedSpec' = [schedSpec EXCEPT ![r] = NumScheduledSpec(r, n)]
      /\ req' = [req EXCEPT ![r].spec = 0]
      /\ budget' = budget - n
      /\ cursor' = cursor + 1
      /\ UNCHANGED <<running, waiting, finishedReqIds, pauseState, frames,
                     phase, preempted, todo>>
  BY DEF ScheduleRunning, queueVars
<1> HIDE DEF r, n
<1>4. blocks' \in [Requests -> Nat] /\ freeBlocks' \in Nat
  BY <1>2, <1>3, AllocateType DEF Shape
<1>5. req' \in [Requests -> ShapedRecord]
  <2>1. 0 \in 0..NumSpecTokens
    BY SchedulerAssumption
  <2> QED BY <1>2, <1>3, <2>1 DEF Shape, ShapedRecord
<1>6. NumScheduledSpec(r, n) \in 0..NumSpecTokens
  <2>1. /\ req[r].spec \in 0..NumSpecTokens /\ req[r].computed \in Int
        /\ req[r].ph \in Int /\ req[r].out \in Int
        /\ PromptLen[r] \in Int /\ NumSpecTokens \in Nat
    BY <1>2, SchedulerAssumption DEF Shape, ShapedRecord
  <2> QED BY <1>2, <2>1 DEF NumScheduledSpec, Least, NumTokens
<1>7. budget' \in Nat
  BY <1>2, <1>3 DEF Shape
<1>8. Shape'
  <2>1. sched' \in [Requests -> Int]
    BY <1>2, <1>3 DEF Shape
  <2>2. schedSpec' \in [Requests -> 0..NumSpecTokens]
    BY <1>2, <1>3, <1>6 DEF Shape
  <2>3. cursor' \in Nat \ {0}
    BY <1>3 DEF Shape
  <2>4. /\ finishedReqIds' = finishedReqIds /\ pauseState' = pauseState
        /\ frames' = frames /\ phase' = phase /\ preempted' = preempted
        /\ todo' = todo
    BY <1>3
  <2> QED BY <1>4, <1>5, <1>7, <2>1, <2>2, <2>3, <2>4 DEF Shape
<1>9. \A q \in Requests : req'[q].status = req[q].status
  BY <1>2, <1>3 DEF Shape, ShapedRecord
<1>10. Queued'
  BY <1>3, <1>9 DEF Queued
<1> QED BY <1>8, <1>10

LEMMA PreemptLastLayer1 ==
  ASSUME Shape, Queued, PreemptLast
  PROVE  Shape' /\ Queued'
<1> DEFINE v == Last(running)
<1>1. running # <<>>
  BY RunningRequest DEF PreemptLast
<1>2. /\ v \in Requests /\ v \in ToSet(running)
      /\ IsQueue(Front(running), Requests)
      /\ ToSet(Front(running)) = ToSet(running) \ {v}
  BY <1>1, FrontOfQueue DEF Queued
<1>3. /\ running' = Front(running)
      /\ waiting' = <<v>> \o waiting
      /\ req' = [req EXCEPT ![v] = Preempted(req[v])]
      /\ Free(v)
      /\ preempted' = preempted \union {v}
  BY DEF PreemptLast, Requeued
<1> HIDE DEF v
<1>4. Preempted(req[v]) \in ShapedRecord /\ Preempted(req[v]).status = "PREEMPTED"
  <2>1. req[v] \in ShapedRecord
    BY <1>2 DEF Shape
  <2> QED BY <2>1, SchedulerAssumption DEF Preempted, ShapedRecord, Statuses
<1>5. blocks' \in [Requests -> Nat] /\ freeBlocks' \in Nat
  BY <1>2, <1>3, FreeType DEF Shape
<1>6. req' \in [Requests -> ShapedRecord]
  BY <1>2, <1>3, <1>4 DEF Shape
<1>7. Shape'
  BY <1>2, <1>3, <1>5, <1>6 DEF Shape, PreemptLast
<1>8. /\ IsQueue(waiting', Requests)
      /\ ToSet(waiting') = {v} \union ToSet(waiting)
  <2>1. IsQueue(<<v>>, Requests) /\ ToSet(<<v>>) = {v}
    BY <1>2, SingletonQueue
  <2>2. v \notin ToSet(waiting)
    BY <1>2 DEF Queued
  <2>3. /\ IsQueue(<<v>> \o waiting, Requests)
        /\ ToSet(<<v>> \o waiting) = ToSet(<<v>>) \union ToSet(waiting)
    <3>1. ToSet(<<v>>) \intersect ToSet(waiting) = {}
      BY <2>1, <2>2
    <3>2. IsQueue(waiting, Requests)
      BY DEF Queued
    <3> QED BY <2>1, <3>1, <3>2, ConcatQueues
  <2> QED BY <1>3, <2>1, <2>3
<1>9. \A q \in Requests :
        req'[q].status = IF q = v THEN "PREEMPTED" ELSE req[q].status
  BY <1>2, <1>3, <1>4 DEF Shape
<1> QED BY <1>2, <1>3, <1>7, <1>8, <1>9 DEF Queued

LEMMA WaitingRequest ==
  ASSUME Shape, Queued, InWaitingLoop
  PROVE  /\ Head(waiting) \in Requests
         /\ req[Head(waiting)].status \in {"WAITING", "PREEMPTED"}
         /\ IsQueue(Tail(waiting), Requests)
         /\ ToSet(Tail(waiting)) = ToSet(waiting) \ {Head(waiting)}
         /\ \A hit \in CachedPrefixes(Head(waiting)) :
              /\ hit \in Int /\ 0 <= hit
              /\ NumPrefillTokens(Head(waiting), hit) \in Int
              /\ NumPrefillTokens(Head(waiting), hit) <= budget
<1> DEFINE r == Head(waiting)
<1>1. /\ r \in Requests /\ r \in ToSet(waiting)
      /\ IsQueue(Tail(waiting), Requests)
      /\ ToSet(Tail(waiting)) = ToSet(waiting) \ {r}
  BY TailOfQueue DEF Queued, InWaitingLoop
<1> HIDE DEF r
<1>2. req[r].status \in {"WAITING", "PREEMPTED"}
  BY <1>1 DEF Queued
<1>3. NumTokens(r) \in Int /\ budget \in Int /\ LongPrefillThreshold \in Int
  BY <1>1, SchedulerAssumption DEF NumTokens, Shape, ShapedRecord
<1>4. ASSUME NEW hit \in CachedPrefixes(r)
      PROVE  /\ hit \in Int /\ 0 <= hit
             /\ NumPrefillTokens(r, hit) \in Int
             /\ NumPrefillTokens(r, hit) <= budget
  <2>1. hit \in Int /\ 0 <= hit
    BY <1>3 DEF CachedPrefixes
  <2> QED BY <1>3, <2>1 DEF NumPrefillTokens, Least, Capped
<1> QED BY <1>1, <1>2, <1>4 DEF r

LEMMA AdmitLayer1 ==
  ASSUME Shape, Queued, Admit
  PROVE  Shape' /\ Queued'
<1> DEFINE r == Head(waiting)
<1>1. InWaitingLoop
  BY DEF Admit
<1>2. PICK hit \in CachedPrefixes(r) :
        LET n == NumPrefillTokens(r, hit)
        IN  /\ Fits(r, hit)
            /\ Allocate(r, hit + n)
            /\ running' = Append(running, r)
            /\ waiting' = Tail(waiting)
            /\ sched' = [sched EXCEPT ![r] = n]
            /\ req' = [req EXCEPT ![r].status = "RUNNING", ![r].computed = hit]
            /\ budget' = budget - n
  BY DEF Admit
<1> DEFINE n == NumPrefillTokens(r, hit)
<1>3. /\ r \in Requests
      /\ req[r].status \in {"WAITING", "PREEMPTED"}
      /\ IsQueue(Tail(waiting), Requests)
      /\ ToSet(Tail(waiting)) = ToSet(waiting) \ {r}
      /\ hit \in Int /\ n \in Int /\ n <= budget
  BY <1>1, <1>2, WaitingRequest
<1>4. Missing(r, hit + n) <= freeBlocks
  BY <1>2 DEF Fits
<1> HIDE DEF r, n
<1>5. blocks' \in [Requests -> Nat] /\ freeBlocks' \in Nat
  <2>1. Allocate(r, hit + n) /\ hit + n \in Int
    BY <1>2, <1>3 DEF n
  <2> QED BY <1>3, <1>4, <2>1, AllocateType DEF Shape
<1>6. /\ running' = Append(running, r) /\ waiting' = Tail(waiting)
      /\ sched' = [sched EXCEPT ![r] = n]
      /\ req' = [req EXCEPT ![r].status = "RUNNING", ![r].computed = hit]
      /\ budget' = budget - n
  BY <1>2 DEF n
<1>7. req' \in [Requests -> ShapedRecord]
  <2>1. req \in [Requests -> ShapedRecord] /\ req[r] \in ShapedRecord
    BY <1>3 DEF Shape
  <2>2. [req[r] EXCEPT !.status = "RUNNING", !.computed = hit] \in ShapedRecord
    BY <1>3, <2>1 DEF ShapedRecord, Statuses
  <2>3. req' = [req EXCEPT ![r] =
                  [req[r] EXCEPT !.status = "RUNNING", !.computed = hit]]
    BY <1>6, <2>1
  <2> QED BY <1>3, <2>1, <2>2, <2>3
<1>8. budget' \in Nat
  BY <1>3, <1>6 DEF Shape
<1>9. Shape'
  <2>1. sched' \in [Requests -> Int]
    BY <1>3, <1>6 DEF Shape
  <2>2. /\ finishedReqIds' = finishedReqIds /\ pauseState' = pauseState
        /\ frames' = frames /\ phase' = phase /\ cursor' = cursor
        /\ schedSpec' = schedSpec /\ preempted' = preempted /\ todo' = todo
    BY DEF Admit
  <2> QED BY <1>5, <1>7, <1>8, <2>1, <2>2 DEF Shape
<1>10. /\ IsQueue(running', Requests)
       /\ ToSet(running') = ToSet(running) \union {r}
  <2>1. r \notin ToSet(running)
    BY <1>3 DEF Queued
  <2> QED BY <1>3, <1>6, <2>1, AppendToQueue DEF Queued
<1>11. \A q \in Requests :
         req'[q].status = IF q = r THEN "RUNNING" ELSE req[q].status
  BY <1>3, <1>6 DEF Shape, ShapedRecord
<1>12. Queued'
  <2>1. IsQueue(waiting', Requests) /\ ToSet(waiting') = ToSet(waiting) \ {r}
    BY <1>3, <1>6
  <2>2. ToSet(waiting') =
          {q \in Requests : req'[q].status \in {"WAITING", "PREEMPTED"}}
    BY <1>3, <1>11, <2>1 DEF Queued
  <2>3. ToSet(running') = {q \in Requests : req'[q].status = "RUNNING"}
    BY <1>3, <1>10, <1>11 DEF Queued
  <2> QED BY <1>10, <2>1, <2>2, <2>3 DEF Queued
<1> QED BY <1>9, <1>12

LEMMA EndScheduleLayer1 ==
  ASSUME Shape, Queued, EndSchedule
  PROVE  Shape' /\ Queued'
<1>1. /\ req' = [r \in Requests |->
                  IF r \in Scheduled THEN Advanced(r) ELSE req[r]]
      /\ frames' = Append(frames, [n |-> sched, spec |-> schedSpec,
                                   emits |-> SampledRows, stale |-> {}])
      /\ phase \in {"running", "waiting"}
      /\ UNCHANGED <<running, waiting, blocks, freeBlocks, pauseState, todo>>
      /\ finishedReqIds' = {} /\ phase' = "idle" /\ cursor' = 1
      /\ budget' = 0 /\ sched' = Nothing /\ schedSpec' = Nothing
      /\ preempted' = {}
  BY DEF EndSchedule, WaitingLoopOver, queueVars, kvVars
<1>2. 0 \in 0..NumSpecTokens /\ NumSpecTokens \in 0..NumSpecTokens
  BY SchedulerAssumption
<1>3. ASSUME NEW r \in Requests
      PROVE  /\ Advanced(r) \in ShapedRecord
             /\ Advanced(r).status = req[r].status
  <2>1. /\ req[r].status \in Statuses /\ req[r].out \in Nat
        /\ req[r].computed \in Int /\ req[r].ph \in Int
        /\ req[r].spec \in 0..NumSpecTokens
        /\ sched[r] \in Int /\ schedSpec[r] \in Int
    BY DEF Shape, ShapedRecord
  <2>2. (req[r].computed + sched[r] < NumTokens(r) + req[r].ph) \in BOOLEAN
    OBVIOUS
  <2> QED BY <1>2, <2>1, <2>2 DEF Advanced, ShapedRecord
<1>4. req' \in [Requests -> ShapedRecord]
  BY <1>1, <1>3 DEF Shape
<1>5. /\ frames' \in Seq(ShapedFrame)
      /\ Len(frames') <= 2
  <2>1. [n |-> sched, spec |-> schedSpec, emits |-> SampledRows, stale |-> {}]
          \in ShapedFrame
    BY DEF Shape, ShapedFrame, SampledRows, Scheduled
  <2>2. frames \in Seq(ShapedFrame) /\ Len(frames) < 2 /\ Len(frames) \in Nat
    BY <1>1, LenProperties DEF Shape
  <2> QED BY <1>1, <2>1, <2>2, AppendProperties
<1>6. Nothing \in [Requests -> Int] /\ Nothing \in [Requests -> 0..NumSpecTokens]
  BY <1>2 DEF Nothing
<1>7. Shape'
  BY <1>1, <1>4, <1>5, <1>6 DEF Shape
<1>8. \A r \in Requests : req'[r].status = req[r].status
  BY <1>1, <1>3
<1>9. Queued'
  BY <1>1, <1>8 DEF Queued
<1> QED BY <1>7, <1>9

\* What update_from_output does to the record of r, whichever row it visits.
LEMMA CorrectedShape ==
  ASSUME Shape, phase = "update", NEW r \in Requests,
         NEW generated \in 1..(Head(frames).spec[r] + 1)
  PROVE  /\ Head(frames) \in ShapedFrame
         /\ generated \in Int
         /\ NumRejected(r, generated) \in Int
         /\ Corrected(r, generated) \in ShapedRecord
         /\ Corrected(r, generated).status = req[r].status
         /\ Corrected(r, generated).out = req[r].out
<1>1. Head(frames) \in ShapedFrame
  BY HeadTailProperties DEF Shape
<1>2. Head(frames).spec[r] \in 0..NumSpecTokens
  BY <1>1 DEF ShapedFrame
<1>3. Head(frames).spec[r] \in Nat
  BY <1>2, SchedulerAssumption
<1>4. generated \in Int
  BY <1>3
<1>5. NumRejected(r, generated) \in Int
  BY <1>3, <1>4 DEF NumRejected
<1> DEFINE x == IF req[r].computed > 0
                THEN req[r].computed - NumRejected(r, generated)
                ELSE req[r].computed
           y == IF req[r].ph > 0
                THEN req[r].ph - NumRejected(r, generated)
                ELSE req[r].ph
<1>6. /\ req[r] \in ShapedRecord
      /\ req[r].computed \in Int /\ req[r].ph \in Int
  BY DEF Shape, ShapedRecord
<1>7. x \in Int /\ y \in Int
  BY <1>5, <1>6
<1>8. Corrected(r, generated) = [req[r] EXCEPT !.computed = x, !.ph = y]
  BY DEF Corrected
<1> HIDE DEF x, y
<1>9. /\ [req[r] EXCEPT !.computed = x, !.ph = y] \in ShapedRecord
      /\ [req[r] EXCEPT !.computed = x, !.ph = y].status = req[r].status
      /\ [req[r] EXCEPT !.computed = x, !.ph = y].out = req[r].out
  BY <1>6, <1>7 DEF ShapedRecord
<1> QED BY <1>1, <1>4, <1>5, <1>8, <1>9

LEMMA ResizedShape ==
  ASSUME NEW record \in ShapedRecord, NEW tokens \in Int,
         NEW d \in Reported(record)
  PROVE  /\ Resized(record, tokens, d) \in ShapedRecord
         /\ Resized(record, tokens, d).status = record.status
         /\ Resized(record, tokens, d).out = record.out
<1>1. d \in 0..NumSpecTokens
  BY SchedulerAssumption DEF Reported, ShapedRecord
<1> QED BY <1>1 DEF Resized, ShapedRecord

LEMMA UpdateRowShape ==
  ASSUME Shape, Queued, NEW r \in Requests, Visit(r),
         NEW record \in ShapedRecord, record.status = req[r].status,
         req' = [req EXCEPT ![r] = record],
         UNCHANGED <<queueVars, kvVars, finishedReqIds, pauseState, frames,
                     phase, stepVars>>
  PROVE  Shape' /\ Queued'
<1>1. Shape'
  BY DEF Shape, Visit, queueVars, kvVars, stepVars
<1>2. \A q \in Requests : req'[q].status = req[q].status
  BY DEF Shape
<1>3. Queued'
  BY <1>2 DEF Queued, queueVars
<1> QED BY <1>1, <1>3

\* The record of r once its generated tokens are corrected for and kept
\* tokens are appended to it.
Kept(r, generated, kept) ==
  [Corrected(r, generated) EXCEPT !.out = @ + kept, !.ph = @ - kept]

LEMMA KeptShape ==
  ASSUME Shape, phase = "update", NEW r \in Requests,
         NEW generated \in 1..(Head(frames).spec[r] + 1),
         NEW kept \in 1..generated
  PROVE  /\ kept \in Nat
         /\ Kept(r, generated, kept) \in ShapedRecord
         /\ Kept(r, generated, kept).status = req[r].status
         /\ Kept(r, generated, kept).out = req[r].out + kept
<1>1. /\ generated \in Int
      /\ Corrected(r, generated) \in ShapedRecord
      /\ Corrected(r, generated).status = req[r].status
      /\ Corrected(r, generated).out = req[r].out
  BY CorrectedShape
<1>2. kept \in Nat
  BY <1>1
<1>3. Corrected(r, generated).out \in Nat /\ Corrected(r, generated).ph \in Int
  BY <1>1 DEF ShapedRecord
<1>4. /\ Corrected(r, generated).out + kept \in Nat
      /\ Corrected(r, generated).ph - kept \in Int
  BY <1>2, <1>3
<1> QED BY <1>1, <1>2, <1>4 DEF Kept, ShapedRecord

LEMMA AcceptTokensLayer1 ==
  ASSUME Shape, Queued, NEW r \in Requests, AcceptTokens(r)
  PROVE  Shape' /\ Queued'
<1>1. PICK generated \in 1..(Head(frames).spec[r] + 1) :
      \E kept \in 1..generated :
        \/ /\ StopsAfter(r, generated, kept, TRUE)
           /\ req' = [req EXCEPT ![r] = Finished(Kept(r, generated, kept))]
           /\ LeaveEngine(r)
        \/ /\ StopsAfter(r, generated, kept, FALSE)
           /\ \E d \in Reported(Kept(r, generated, kept)) :
                req' = [req EXCEPT
                         ![r] = Resized(Kept(r, generated, kept), kept, d)]
           /\ UNCHANGED <<queueVars, kvVars, finishedReqIds>>
  BY DEF AcceptTokens, Kept
<1>2. PICK kept \in 1..generated :
        \/ /\ StopsAfter(r, generated, kept, TRUE)
           /\ req' = [req EXCEPT ![r] = Finished(Kept(r, generated, kept))]
           /\ LeaveEngine(r)
        \/ /\ StopsAfter(r, generated, kept, FALSE)
           /\ \E d \in Reported(Kept(r, generated, kept)) :
                req' = [req EXCEPT
                         ![r] = Resized(Kept(r, generated, kept), kept, d)]
           /\ UNCHANGED <<queueVars, kvVars, finishedReqIds>>
  BY <1>1
<1>3. /\ Visit(r) /\ phase = "update" /\ req[r].status # "FINISHED"
      /\ r \in Head(frames).emits \ Head(frames).stale
      /\ UNCHANGED <<pauseState, frames, phase, stepVars>>
  BY DEF AcceptTokens, Visit
<1> DEFINE record == Kept(r, generated, kept)
<1>4. /\ record \in ShapedRecord /\ record.status = req[r].status
      /\ kept \in Nat
  BY <1>3, KeptShape
<1> HIDE DEF record
<1>5. CASE /\ req' = [req EXCEPT ![r] = Finished(record)]
           /\ LeaveEngine(r)
  <2>1. Finished(record) \in ShapedRecord /\ Finished(record).status = "FINISHED"
    <3>1. 0 \in 0..NumSpecTokens /\ record.out \in Nat
      BY <1>4, SchedulerAssumption DEF ShapedRecord
    <3> QED BY <3>1 DEF Finished, ShapedRecord, Statuses
  <2>3. Queued'
    BY <1>5, <2>1, LeaveEngineQueues
  <2>4. blocks' \in [Requests -> Nat] /\ freeBlocks' \in Nat
    BY <1>5, FreeType DEF LeaveEngine, Shape
  <2>5. finishedReqIds' \in SUBSET Requests
    BY <1>5 DEF LeaveEngine, Shape
  <2>6. Shape'
    BY <1>3, <1>5, <2>1, <2>4, <2>5 DEF Shape, Visit, stepVars
  <2> QED BY <2>3, <2>6
<1>6. CASE /\ \E d \in Reported(record) :
                req' = [req EXCEPT ![r] = Resized(record, kept, d)]
           /\ UNCHANGED <<queueVars, kvVars, finishedReqIds>>
  <2>1. PICK d \in Reported(record) :
          req' = [req EXCEPT ![r] = Resized(record, kept, d)]
    BY <1>6
  <2>2. /\ Resized(record, kept, d) \in ShapedRecord
        /\ Resized(record, kept, d).status = req[r].status
    BY <1>4, ResizedShape
  <2> QED BY <1>3, <1>6, <2>1, <2>2, UpdateRowShape
<1> QED BY <1>2, <1>5, <1>6 DEF record

LEMMA OtherRowsLayer1 ==
  ASSUME Shape, Queued, NEW r \in Requests,
         SkipFinished(r) \/ EmptyRow(r) \/ DiscardTokens(r)
  PROVE  Shape' /\ Queued'
<1>1. CASE SkipFinished(r)
  <2>1. Shape'
    BY <1>1 DEF Shape, SkipFinished, Visit, kvVars, stepVars
  <2> QED BY <1>1, <2>1 DEF Queued, SkipFinished, queueVars
<1>2. CASE EmptyRow(r)
  <2>1. PICK d \in Reported(req[r]) : req' = [req EXCEPT ![r] = Resized(req[r], 0, d)]
    BY <1>2 DEF EmptyRow
  <2>2. req[r] \in ShapedRecord
    BY DEF Shape
  <2>3. /\ Resized(req[r], 0, d) \in ShapedRecord
        /\ Resized(req[r], 0, d).status = req[r].status
    BY <2>2, ResizedShape
  <2> QED BY <1>2, <2>1, <2>3, UpdateRowShape DEF EmptyRow
<1>3. CASE DiscardTokens(r)
  <2>1. PICK generated \in 1..(Head(frames).spec[r] + 1) :
          \E d \in Reported(Corrected(r, generated)) :
            req' = [req EXCEPT ![r] = Resized(Corrected(r, generated), 0, d)]
    BY <1>3 DEF DiscardTokens
  <2>2. PICK d \in Reported(Corrected(r, generated)) :
          req' = [req EXCEPT ![r] = Resized(Corrected(r, generated), 0, d)]
    BY <2>1
  <2>3. /\ Corrected(r, generated) \in ShapedRecord
        /\ Corrected(r, generated).status = req[r].status
    BY <1>3, CorrectedShape DEF DiscardTokens, Visit
  <2>4. /\ Resized(Corrected(r, generated), 0, d) \in ShapedRecord
        /\ Resized(Corrected(r, generated), 0, d).status = req[r].status
    <3> DEFINE c == Corrected(r, generated)
    <3>1. c \in ShapedRecord /\ c.status = req[r].status /\ d \in Reported(c)
      BY <2>2, <2>3
    <3> HIDE DEF c
    <3>2. 0 \in Int
      OBVIOUS
    <3>3. /\ Resized(c, 0, d) \in ShapedRecord
          /\ Resized(c, 0, d).status = c.status
      BY <3>1, <3>2, ResizedShape
    <3> QED BY <3>1, <3>3 DEF c
  <2> QED BY <1>3, <2>2, <2>4, UpdateRowShape DEF DiscardTokens
<1> QED BY <1>1, <1>2, <1>3

LEMMA EndUpdateLayer1 ==
  ASSUME Shape, Queued, EndUpdate
  PROVE  Shape' /\ Queued'
<1>1. frames \in Seq(ShapedFrame) /\ frames # <<>> /\ Len(frames) \in Nat
  BY LenProperties DEF Shape, EndUpdate
<1>2. Tail(frames) \in Seq(ShapedFrame) /\ Len(Tail(frames)) = Len(frames) - 1
  BY <1>1, HeadTailProperties
<1>3. Shape'
  BY <1>1, <1>2 DEF Shape, EndUpdate, kvVars, stepVars
<1>4. Queued'
  BY DEF Queued, EndUpdate, queueVars
<1> QED BY <1>3, <1>4

LEMMA StepLayer1 ==
  ASSUME Shape, Queued, [Next]_vars
  PROVE  Shape' /\ Queued'
<1>1. CASE ScheduleStep
  BY <1>1, LoopStepsLayer1, ScheduleRunningLayer1, PreemptLastLayer1,
     AdmitLayer1, EndScheduleLayer1 DEF ScheduleStep
<1>2. CASE UpdateStep
  BY <1>2, LoopStepsLayer1, OtherRowsLayer1, AcceptTokensLayer1,
     EndUpdateLayer1 DEF UpdateStep
<1>3. CASE ClientStep
  BY <1>3, AddRequestLayer1, AbortLayer1 DEF ClientStep
<1>4. CASE OperatorStep
  BY <1>4, SetPauseStateLayer1, ResetPrefixCacheLayer1 DEF OperatorStep
<1>5. CASE UNCHANGED vars
  <2>1. Shape'
    BY <1>5 DEF vars, Shape, kvVars, stepVars
  <2> QED BY <1>5, <2>1 DEF vars, Queued, queueVars
<1> QED BY <1>1, <1>2, <1>3, <1>4, <1>5 DEF Next, EngineStep

LEMMA Layer1 == Spec => [](Shape /\ Queued)
<1>1. Init => Shape /\ Queued
  BY InitLayer1
<1>2. (Shape /\ Queued) /\ [Next]_vars => (Shape /\ Queued)'
  BY StepLayer1
<1> QED BY <1>1, <1>2, PTL DEF Spec

(***************************************************************************)
(* Whatever the interleaving of schedule(), update_from_output(), aborts,  *)
(* pauses and cache resets (with steps in flight or not), each request is  *)
(* once in the queue its status names and in no other.                     *)
(***************************************************************************)
THEOREM QueuesAgree == Spec => []QueueAgreement
<1>1. Queued => QueueAgreement
  BY DEF Queued, QueueAgreement, IsQueue
<1> QED BY <1>1, Layer1, PTL

-----------------------------------------------------------------------------
(* The KV block pool.                                                      *)

\* The free blocks and those held by requests make up the pool.
Pool == freeBlocks + Total(blocks) = NumBlocks

\* A running request holds a slot for every token it has computed and for
\* every token this step adds, whatever their sign; any other holds none.  An
\* admission relies on the known tokens of a request fitting the context.
Covered(r) ==
  /\ NumTokens(r) <= MaxModelLen
  /\ IF req[r].status = "RUNNING"
     THEN /\ req[r].computed <= blocks[r] * BlockSize
          /\ req[r].computed + sched[r] <= blocks[r] * BlockSize
     ELSE blocks[r] = 0

KvInv == Shape /\ Queued /\ Pool /\ \A r \in Requests : Covered(r)

\* The numbers Covered relates are integers.
LEMMA KvNumbers ==
  ASSUME Shape, NEW r \in Requests
  PROVE  /\ req[r].computed \in Int /\ req[r].out \in Nat /\ req[r].ph \in Int
         /\ req[r].spec \in Nat /\ sched[r] \in Int /\ blocks[r] \in Nat
         /\ PromptLen[r] \in Nat /\ PromptLen[r] > 0
         /\ PromptLen[r] < MaxModelLen /\ MaxTokens[r] \in Nat
         /\ NumTokens(r) \in Nat
         /\ MaxModelLen \in Nat /\ BlockSize \in Nat /\ BlockSize > 0
         /\ NumSpecTokens \in Nat /\ LongPrefillThreshold \in Nat
         /\ budget \in Nat
<1>1. /\ PromptLen[r] \in Nat \ {0} /\ PromptLen[r] < MaxModelLen
      /\ MaxTokens[r] \in Nat \ {0}
      /\ MaxModelLen \in Nat /\ BlockSize \in Nat \ {0}
      /\ NumSpecTokens \in Nat /\ LongPrefillThreshold \in Nat
  BY SchedulerAssumption
<1>2. /\ req[r].computed \in Int /\ req[r].out \in Nat /\ req[r].ph \in Int
      /\ req[r].spec \in 0..NumSpecTokens
      /\ sched[r] \in Int /\ blocks[r] \in Nat /\ budget \in Nat
  BY DEF Shape, ShapedRecord
<1>3. NumTokens(r) \in Nat
  BY <1>1, <1>2 DEF NumTokens
<1> QED BY <1>1, <1>2, <1>3

\* BlocksFor rounds up.
LEMMA BlocksForCovers ==
  ASSUME NEW n \in Int
  PROVE  BlocksFor(n) \in Int /\ BlocksFor(n) * BlockSize >= n
<1> DEFINE q == (n + BlockSize - 1) \div BlockSize
<1>1. BlockSize \in Nat \ {0}
  BY SchedulerAssumption
<1>2. q \in Int
  BY <1>1
<1>3. /\ n + BlockSize - 1 = BlockSize * q + ((n + BlockSize - 1) % BlockSize)
      /\ (n + BlockSize - 1) % BlockSize \in 0..(BlockSize - 1)
  BY <1>1
<1>4. BlocksFor(n) = q
  BY DEF BlocksFor
<1> QED BY <1>1, <1>2, <1>3, <1>4

\* Blocks change hands between the pool and one request.
LEMMA PoolKept ==
  ASSUME Shape, Pool, NEW r \in Requests, NEW v \in Int,
         blocks' = [blocks EXCEPT ![r] = v],
         freeBlocks' = freeBlocks + blocks[r] - v
  PROVE  Pool'
<1> DEFINE held == Total(blocks)
<1>1. IsFiniteSet(Requests)
  BY SchedulerAssumption
<1>2. blocks \in [Requests -> Int]
  BY DEF Shape
<1>3. held' = held - blocks[r] + v /\ held \in Int
  BY <1>1, <1>2, SumChange
<1>4. freeBlocks + held = NumBlocks
  BY DEF Pool
<1>5. freeBlocks \in Int /\ blocks[r] \in Int /\ NumBlocks \in Int
  BY SchedulerAssumption DEF Shape
<1>6. freeBlocks' + held' = NumBlocks
  <2> DEFINE after == held'
  <2>1. after = held - blocks[r] + v
    BY <1>3
  <2> HIDE DEF after, held
  <2>2. freeBlocks' + after = NumBlocks
    BY <1>3, <1>4, <1>5, <2>1
  <2> QED BY <2>2 DEF after
<1> QED BY <1>6 DEF Pool

LEMMA AllocateKv ==
  ASSUME Shape, Pool, NEW r \in Requests, NEW n \in Int, Allocate(r, n)
  PROVE  /\ Pool'
         /\ \A q \in Requests \ {r} : blocks'[q] = blocks[q]
         /\ blocks'[r] \in Nat /\ blocks'[r] >= blocks[r]
         /\ blocks'[r] * BlockSize >= Least(n, MaxModelLen)
<1> DEFINE want == BlocksFor(Least(n, MaxModelLen))
           m == Missing(r, n)
<1>1. Least(n, MaxModelLen) \in Int
  BY SchedulerAssumption DEF Least
<1>2. want \in Int /\ want * BlockSize >= Least(n, MaxModelLen)
  BY <1>1, BlocksForCovers
<1>3. blocks[r] \in Nat /\ m \in Nat /\ freeBlocks \in Nat
  BY MissingType DEF Shape
<1>4. m = IF want > blocks[r] THEN want - blocks[r] ELSE 0
  BY DEF Missing
<1>5. /\ blocks' = [blocks EXCEPT ![r] = blocks[r] + m]
      /\ freeBlocks' = freeBlocks - m
  BY DEF Allocate
<1> HIDE DEF want, m
<1>6. blocks[r] + m >= want /\ blocks[r] + m \in Nat
  BY <1>2, <1>3, <1>4
<1>7. (blocks[r] + m) * BlockSize >= want * BlockSize
  <2>1. BlockSize \in Nat
    BY SchedulerAssumption
  <2> QED BY <1>2, <1>6, <2>1
<1>8. blocks'[r] = blocks[r] + m /\ \A q \in Requests \ {r} : blocks'[q] = blocks[q]
  BY <1>5 DEF Shape
<1>9. Pool'
  <2>1. freeBlocks' = freeBlocks + blocks[r] - (blocks[r] + m)
    BY <1>3, <1>5
  <2>2. blocks[r] + m \in Int
    BY <1>6
  <2> QED BY <1>5, <2>1, <2>2, PoolKept
<1>10. (blocks[r] + m) * BlockSize >= Least(n, MaxModelLen)
  <2> DEFINE x == (blocks[r] + m) * BlockSize
             y == want * BlockSize
  <2>1. x \in Int /\ y \in Int
    BY <1>2, <1>6, SchedulerAssumption
  <2>2. x >= y /\ y >= Least(n, MaxModelLen)
    BY <1>2, <1>7
  <2> HIDE DEF x, y
  <2>3. x >= Least(n, MaxModelLen)
    BY <1>1, <2>1, <2>2
  <2> QED BY <2>3 DEF x
<1> QED BY <1>3, <1>6, <1>8, <1>9, <1>10

LEMMA FreeKv ==
  ASSUME Shape, Pool, NEW r \in Requests, Free(r)
  PROVE  /\ Pool'
         /\ blocks'[r] = 0
         /\ \A q \in Requests \ {r} : blocks'[q] = blocks[q]
<1>1. blocks' = [blocks EXCEPT ![r] = 0] /\ freeBlocks' = freeBlocks + blocks[r]
  BY DEF Free
<1>2. freeBlocks' = freeBlocks + blocks[r] - 0 /\ 0 \in Int
  BY <1>1 DEF Shape
<1>3. Pool'
  BY <1>1, <1>2, PoolKept
<1> QED BY <1>1, <1>3 DEF Shape

\* A request that neither starts nor stops running keeps its blocks, computes
\* no more than before and is scheduled no more tokens.
LEMMA CoveredKept ==
  ASSUME Shape, NEW r \in Requests, Covered(r),
         NEW record \in ShapedRecord, req'[r] = record,
         record.status = req[r].status,
         PromptLen[r] + record.out <= MaxModelLen,
         record.computed <= req[r].computed,
         sched'[r] = sched[r] \/ sched'[r] = 0,
         blocks'[r] = blocks[r]
  PROVE  Covered(r)'
<1> DEFINE slots == blocks[r] * BlockSize
<1>1. NumTokens(r)' <= MaxModelLen
  BY DEF NumTokens
<1>2. CASE req[r].status = "RUNNING"
  <2>1. /\ req[r].computed \in Int /\ sched[r] \in Int /\ slots \in Int
        /\ record.computed \in Int
    BY KvNumbers DEF ShapedRecord
  <2>2. req[r].computed <= slots /\ req[r].computed + sched[r] <= slots
    BY <1>2 DEF Covered
  <2> HIDE DEF slots
  <2>3. record.computed <= slots /\ record.computed + sched'[r] <= slots
    BY <2>1, <2>2
  <2> QED BY <1>1, <1>2, <2>3 DEF Covered, slots
<1>3. CASE req[r].status # "RUNNING"
  BY <1>1, <1>3 DEF Covered
<1> QED BY <1>2, <1>3

\* A request untouched by the step.
LEMMA CoveredSame ==
  ASSUME Shape, NEW r \in Requests, Covered(r), req'[r] = req[r],
         sched'[r] = sched[r] \/ sched'[r] = 0, blocks'[r] = blocks[r]
  PROVE  Covered(r)'
<1>1. /\ req[r] \in ShapedRecord /\ req[r].computed \in Int
      /\ PromptLen[r] + req[r].out <= MaxModelLen
  BY DEF Shape, ShapedRecord, Covered, NumTokens
<1> QED BY <1>1, CoveredKept

\* A request that holds no blocks and does not run.
LEMMA CoveredIdle ==
  ASSUME NEW r \in Requests, blocks'[r] = 0, req'[r].status # "RUNNING",
         PromptLen[r] + req'[r].out <= MaxModelLen
  PROVE  Covered(r)'
BY DEF Covered, NumTokens

LEMMA InitKv ==
  ASSUME Init
  PROVE  KvInv
<1>1. Pool
  <2>1. blocks = [r \in Requests |-> 0] /\ freeBlocks = NumBlocks
    BY DEF Init, Nothing
  <2>2. Total(blocks) = 0
    BY <2>1, SumOfZeros, SchedulerAssumption
  <2> QED BY <2>1, <2>2, SchedulerAssumption DEF Pool
<1>2. ASSUME NEW r \in Requests
      PROVE  Covered(r)
  <2>1. /\ req[r].status = "NEW" /\ req[r].out = 0 /\ blocks[r] = 0
    BY DEF Init, Nothing
  <2>2. PromptLen[r] + 0 <= MaxModelLen
    BY SchedulerAssumption
  <2> QED BY <2>1, <2>2 DEF Covered, NumTokens
<1> QED BY <1>1, <1>2, InitLayer1 DEF KvInv

LEMMA ScheduleRunningKv ==
  ASSUME KvInv, ScheduleRunning
  PROVE  Pool' /\ \A r \in Requests : Covered(r)'
<1>1. Shape /\ Queued /\ InRunningLoop /\ Pool
  BY DEF ScheduleRunning, KvInv
<1> PICK r \in Requests : r = running[cursor]
  BY <1>1, RunningRequest
<1> DEFINE n == NumNewTokens(r)
<1>2. /\ r \in Requests /\ req[r].status = "RUNNING"
      /\ n \in Int /\ LookAhead(r) \in Int
  BY <1>1, RunningRequest
<1>3. /\ Allocate(r, LookAhead(r))
      /\ sched' = [sched EXCEPT ![r] = n]
      /\ req' = [req EXCEPT ![r].spec = 0]
  BY DEF ScheduleRunning
<1>4. n <= MaxModelLen - 1 - req[r].computed
  BY <1>2, <1>1, KvNumbers DEF NumNewTokens, Least, Capped
<1>5. LookAhead(r) = req[r].computed + n + NumSpecTokens
  BY DEF LookAhead
<1> HIDE DEF n
<1>6. /\ Pool'
      /\ \A q \in Requests \ {r} : blocks'[q] = blocks[q]
      /\ blocks'[r] \in Nat /\ blocks'[r] >= blocks[r]
      /\ blocks'[r] * BlockSize >= Least(LookAhead(r), MaxModelLen)
  BY <1>1, <1>2, <1>3, AllocateKv
<1>7. /\ req'[r].status = "RUNNING" /\ req'[r].computed = req[r].computed
      /\ req'[r].out = req[r].out
      /\ sched'[r] = n
      /\ \A q \in Requests \ {r} : req'[q] = req[q] /\ sched'[q] = sched[q]
  BY <1>1, <1>2, <1>3 DEF Shape, ShapedRecord
<1>8. ASSUME NEW q \in Requests, q # r
      PROVE  Covered(q)'
  BY <1>1, <1>6, <1>7, <1>8, CoveredSame DEF KvInv
<1>9. Covered(r)'
  <2> DEFINE old == blocks[r] * BlockSize
             new == blocks'[r] * BlockSize
  <2>1. /\ blocks[r] \in Nat /\ BlockSize \in Nat
        /\ req[r].computed \in Int /\ NumSpecTokens \in Nat /\ MaxModelLen \in Nat
    BY <1>1, <1>2, KvNumbers
  <2>2. new >= old /\ new \in Int /\ old \in Int
    BY <1>6, <2>1
  <2>3. req[r].computed <= old /\ NumTokens(r) <= MaxModelLen
    BY <1>2 DEF KvInv, Covered
  <2>4. NumTokens(r)' = NumTokens(r)
    BY <1>7 DEF NumTokens
  <2>5. new >= Least(req[r].computed + n + NumSpecTokens, MaxModelLen)
    BY <1>5, <1>6
  <2> HIDE DEF old, new
  <2>6. req[r].computed <= new
    BY <2>1, <2>2, <2>3
  <2>7. req[r].computed + n <= new
    BY <1>2, <1>4, <2>1, <2>2, <2>5 DEF Least
  <2> QED BY <1>7, <2>3, <2>4, <2>6, <2>7 DEF Covered, new
<1> QED BY <1>6, <1>8, <1>9

LEMMA AdmitKv ==
  ASSUME KvInv, Admit
  PROVE  Pool' /\ \A r \in Requests : Covered(r)'
<1>1. Shape /\ Queued /\ InWaitingLoop /\ Pool
  BY DEF Admit, KvInv
<1> PICK r \in Requests : r = Head(waiting)
  BY <1>1, TailOfQueue DEF Queued, InWaitingLoop
<1>2. PICK hit \in CachedPrefixes(r) :
        LET n == NumPrefillTokens(r, hit)
        IN  /\ Allocate(r, hit + n)
            /\ sched' = [sched EXCEPT ![r] = n]
            /\ req' = [req EXCEPT ![r].status = "RUNNING", ![r].computed = hit]
  BY DEF Admit
<1> DEFINE n == NumPrefillTokens(r, hit)
<1>3. r \in Requests /\ hit \in Int /\ n \in Int
  BY <1>1, <1>2, WaitingRequest
<1>4. /\ Allocate(r, hit + n)
      /\ sched' = [sched EXCEPT ![r] = n]
      /\ req' = [req EXCEPT ![r].status = "RUNNING", ![r].computed = hit]
  BY <1>2
<1>5. hit < NumTokens(r)
  <2>1. NumTokens(r) \in Nat /\ NumTokens(r) > 0
    BY <1>1, <1>3, KvNumbers DEF NumTokens
  <2> QED BY <1>2, <2>1 DEF CachedPrefixes
<1>6. 0 < n /\ n <= NumTokens(r) - hit
  <2>1. budget > 0 /\ budget \in Nat /\ NumTokens(r) \in Nat
        /\ LongPrefillThreshold \in Nat
    BY <1>1, <1>3, KvNumbers DEF InWaitingLoop
  <2> QED BY <1>3, <1>5, <2>1 DEF NumPrefillTokens, Least, Capped
<1> HIDE DEF n
<1>7. /\ Pool'
      /\ \A q \in Requests \ {r} : blocks'[q] = blocks[q]
      /\ blocks'[r] \in Nat
      /\ blocks'[r] * BlockSize >= Least(hit + n, MaxModelLen)
  BY <1>1, <1>3, <1>4, AllocateKv
<1>8. /\ req'[r].status = "RUNNING" /\ req'[r].computed = hit
      /\ req'[r].out = req[r].out /\ sched'[r] = n
      /\ \A q \in Requests \ {r} : req'[q] = req[q] /\ sched'[q] = sched[q]
  BY <1>1, <1>3, <1>4 DEF Shape, ShapedRecord
<1>9. ASSUME NEW q \in Requests, q # r
      PROVE  Covered(q)'
  BY <1>1, <1>7, <1>8, <1>9, CoveredSame DEF KvInv
<1>10. Covered(r)'
  <2> DEFINE new == blocks'[r] * BlockSize
  <2>1. /\ NumTokens(r) \in Nat /\ NumTokens(r) <= MaxModelLen
        /\ MaxModelLen \in Nat /\ BlockSize \in Nat
    BY <1>1, <1>3, KvNumbers DEF KvInv, Covered
  <2>2. new \in Int
    BY <1>7, <2>1
  <2>3. new >= Least(hit + n, MaxModelLen)
    BY <1>7
  <2> HIDE DEF new
  <2>4. hit <= new /\ hit + n <= new
    BY <1>3, <1>6, <2>1, <2>2, <2>3 DEF Least
  <2>5. NumTokens(r)' = NumTokens(r)
    BY <1>8 DEF NumTokens
  <2> QED BY <1>8, <2>1, <2>4, <2>5 DEF Covered, new
<1> QED BY <1>7, <1>9, <1>10

LEMMA PreemptLastKv ==
  ASSUME KvInv, PreemptLast
  PROVE  Pool' /\ \A r \in Requests : Covered(r)'
<1>1. Shape /\ Queued /\ Pool
  BY DEF KvInv
<1>2. PICK v \in Requests : v = Last(running)
  BY <1>1, RunningRequest, FrontOfQueue DEF PreemptLast, Queued
<1>3. /\ req' = [req EXCEPT ![v] = Preempted(req[v])]
      /\ Free(v) /\ sched' = sched
  BY <1>2 DEF PreemptLast
<1>4. /\ Pool' /\ blocks'[v] = 0
      /\ \A q \in Requests \ {v} : blocks'[q] = blocks[q]
  BY <1>1, <1>2, <1>3, FreeKv
<1>5. /\ req'[v].status = "PREEMPTED" /\ req'[v].out = req[v].out
      /\ \A q \in Requests \ {v} : req'[q] = req[q]
  BY <1>1, <1>2, <1>3 DEF Shape, Preempted
<1>6. Covered(v)'
  <2>1. PromptLen[v] + req'[v].out <= MaxModelLen
    BY <1>2, <1>5 DEF KvInv, Covered, NumTokens
  <2> QED BY <1>2, <1>4, <1>5, <2>1, CoveredIdle
<1>7. ASSUME NEW q \in Requests, q # v
      PROVE  Covered(q)'
  BY <1>1, <1>3, <1>4, <1>5, <1>7, CoveredSame DEF KvInv
<1> QED BY <1>4, <1>6, <1>7

\* LeaveEngine, whoever calls it.
LEMMA LeaveEngineKv ==
  ASSUME KvInv, NEW r \in Requests, LeaveEngine(r), sched' = sched,
         NEW record, PromptLen[r] + record.out <= MaxModelLen,
         req' = [req EXCEPT ![r] = Finished(record)]
  PROVE  Pool' /\ \A q \in Requests : Covered(q)'
<1>1. Shape /\ Pool
  BY DEF KvInv
<1>2. /\ Pool' /\ blocks'[r] = 0
      /\ \A q \in Requests \ {r} : blocks'[q] = blocks[q]
  BY <1>1, FreeKv DEF LeaveEngine
<1>3. /\ req'[r].status = "FINISHED" /\ req'[r].out = record.out
      /\ \A q \in Requests \ {r} : req'[q] = req[q]
  BY <1>1 DEF Shape, Finished
<1>4. Covered(r)'
  BY <1>2, <1>3, CoveredIdle
<1>5. ASSUME NEW q \in Requests, q # r
      PROVE  Covered(q)'
  BY <1>1, <1>2, <1>3, <1>5, CoveredSame DEF KvInv
<1> QED BY <1>2, <1>4, <1>5

LEMMA ResetPrefixCacheKv ==
  ASSUME KvInv, ResetPrefixCache
  PROVE  Pool' /\ \A r \in Requests : Covered(r)'
<1>1. /\ req' = [r \in Requests |->
                  IF req[r].status = "RUNNING"
                  THEN [Preempted(req[r]) EXCEPT !.ph = 0]
                  ELSE req[r]]
      /\ blocks' = Nothing /\ freeBlocks' = NumBlocks
  BY DEF ResetPrefixCache
<1>2. Pool'
  <2>1. Total(blocks') = 0
    BY <1>1, SumOfZeros, SchedulerAssumption DEF Nothing
  <2> QED BY <1>1, <2>1, SchedulerAssumption DEF Pool
<1>3. ASSUME NEW r \in Requests
      PROVE  Covered(r)'
  <2>1. req'[r].status # "RUNNING" /\ req'[r].out = req[r].out
    BY <1>1 DEF Preempted
  <2>2. blocks'[r] = 0
    BY <1>1 DEF Nothing
  <2>3. PromptLen[r] + req'[r].out <= MaxModelLen
    BY <2>1 DEF KvInv, Covered, NumTokens
  <2> QED BY <2>1, <2>2, <2>3, CoveredIdle
<1> QED BY <1>2, <1>3

\* _update_after_schedule turns the tokens scheduled into tokens computed.
LEMMA EndScheduleKv ==
  ASSUME KvInv, EndSchedule
  PROVE  Pool' /\ \A r \in Requests : Covered(r)'
<1>1. /\ req' = [r \in Requests |->
                  IF r \in Scheduled THEN Advanced(r) ELSE req[r]]
      /\ sched' = Nothing /\ UNCHANGED <<blocks, freeBlocks>>
  BY DEF EndSchedule, kvVars
<1>2. Pool'
  BY <1>1 DEF KvInv, Pool
<1>3. ASSUME NEW r \in Requests
      PROVE  Covered(r)'
  <2>1. Shape /\ Covered(r) /\ sched'[r] = 0
    BY <1>1 DEF KvInv, Nothing
  <2>2. CASE r \notin Scheduled
    BY <1>1, <2>1, <2>2, CoveredSame
  <2>3. CASE r \in Scheduled
    <3>1. /\ req'[r].status = req[r].status /\ req'[r].out = req[r].out
          /\ req'[r].computed = req[r].computed + sched[r]
      BY <1>1, <2>3 DEF Advanced
    <3>2. req'[r].computed + 0 = req'[r].computed
      BY <2>1, <3>1, KvNumbers
    <3> QED BY <1>1, <2>1, <3>1, <3>2 DEF Covered, NumTokens
  <2> QED BY <2>2, <2>3
<1> QED BY <1>2, <1>3

\* A row whose tokens are kept, dropped or absent: rejected drafts only lower
\* num_computed_tokens, and check_stop keeps the request within its context.
LEMMA RowKv ==
  ASSUME KvInv, NEW r \in Requests, phase = "update",
         NEW record \in ShapedRecord, record.status = req[r].status,
         record.computed <= req[r].computed,
         PromptLen[r] + record.out <= MaxModelLen,
         req' = [req EXCEPT ![r] = record],
         UNCHANGED <<blocks, freeBlocks, sched>>
  PROVE  Pool' /\ \A q \in Requests : Covered(q)'
<1>1. Pool' /\ Shape
  BY DEF KvInv, Pool
<1>2. req'[r] = record /\ \A q \in Requests \ {r} : req'[q] = req[q]
  BY <1>1 DEF Shape
<1>3. Covered(r)'
  BY <1>1, <1>2, CoveredKept DEF KvInv
<1>4. ASSUME NEW q \in Requests, q # r
      PROVE  Covered(q)'
  BY <1>1, <1>2, <1>4, CoveredSame DEF KvInv
<1> QED BY <1>1, <1>3, <1>4

LEMMA CorrectedComputed ==
  ASSUME Shape, phase = "update", NEW r \in Requests,
         NEW generated \in 1..(Head(frames).spec[r] + 1)
  PROVE  Corrected(r, generated).computed <= req[r].computed
<1>1. Head(frames) \in ShapedFrame /\ generated \in Int
  BY CorrectedShape
<1>2. Head(frames).spec[r] \in Nat
  BY <1>1, SchedulerAssumption DEF ShapedFrame
<1>3. NumRejected(r, generated) \in Nat
  BY <1>1, <1>2 DEF NumRejected
<1>4. req[r] \in ShapedRecord /\ req[r].computed \in Int
  BY DEF Shape, ShapedRecord
<1>5. Corrected(r, generated).computed =
        IF req[r].computed > 0
        THEN req[r].computed - NumRejected(r, generated) ELSE req[r].computed
  BY <1>4 DEF Corrected, ShapedRecord
<1> QED BY <1>3, <1>4, <1>5

LEMMA ResizedComputed ==
  ASSUME NEW record \in ShapedRecord, NEW tokens, NEW d
  PROVE  Resized(record, tokens, d).computed = record.computed
BY DEF Resized, ShapedRecord

LEMMA AcceptTokensKv ==
  ASSUME KvInv, NEW r \in Requests, AcceptTokens(r)
  PROVE  Pool' /\ \A q \in Requests : Covered(q)'
<1>1. /\ Shape /\ Queued /\ phase = "update"
      /\ UNCHANGED sched
  BY DEF KvInv, AcceptTokens, Visit, stepVars
<1>2. PICK generated \in 1..(Head(frames).spec[r] + 1) :
      \E kept \in 1..generated :
        \/ /\ StopsAfter(r, generated, kept, TRUE)
           /\ req' = [req EXCEPT ![r] = Finished(Kept(r, generated, kept))]
           /\ LeaveEngine(r)
        \/ /\ StopsAfter(r, generated, kept, FALSE)
           /\ \E d \in Reported(Kept(r, generated, kept)) :
                req' = [req EXCEPT
                         ![r] = Resized(Kept(r, generated, kept), kept, d)]
           /\ UNCHANGED <<queueVars, kvVars, finishedReqIds>>
  BY DEF AcceptTokens, Kept
<1>3. PICK kept \in 1..generated :
        \/ /\ StopsAfter(r, generated, kept, TRUE)
           /\ req' = [req EXCEPT ![r] = Finished(Kept(r, generated, kept))]
           /\ LeaveEngine(r)
        \/ /\ StopsAfter(r, generated, kept, FALSE)
           /\ \E d \in Reported(Kept(r, generated, kept)) :
                req' = [req EXCEPT
                         ![r] = Resized(Kept(r, generated, kept), kept, d)]
           /\ UNCHANGED <<queueVars, kvVars, finishedReqIds>>
  BY <1>2
<1> DEFINE record == Kept(r, generated, kept)
<1>4. /\ record \in ShapedRecord /\ record.status = req[r].status
      /\ record.out = req[r].out + kept /\ kept \in Nat
  BY <1>1, KeptShape
<1>5. record.computed <= req[r].computed
  <2>1. Corrected(r, generated) \in ShapedRecord
    BY <1>1, CorrectedShape
  <2>2. record.computed = Corrected(r, generated).computed
    BY <2>1 DEF Kept, ShapedRecord
  <2> QED BY <1>1, <2>2, CorrectedComputed
<1>6. PromptLen[r] + record.out <= MaxModelLen
  <2>1. kept <= Room(r)
    BY <1>3 DEF StopsAfter
  <2>2. /\ PromptLen[r] \in Nat /\ req[r].out \in Nat /\ MaxTokens[r] \in Nat
        /\ MaxModelLen \in Nat
    BY <1>1, KvNumbers
  <2> QED BY <1>4, <2>1, <2>2 DEF Room, Least, NumTokens
<1> HIDE DEF record
<1>7. CASE req' = [req EXCEPT ![r] = Finished(record)] /\ LeaveEngine(r)
  BY <1>1, <1>6, <1>7, LeaveEngineKv
<1>8. CASE /\ \E d \in Reported(record) :
                req' = [req EXCEPT ![r] = Resized(record, kept, d)]
           /\ UNCHANGED <<queueVars, kvVars, finishedReqIds>>
  <2>1. PICK d \in Reported(record) :
          req' = [req EXCEPT ![r] = Resized(record, kept, d)]
    BY <1>8
  <2>2. /\ Resized(record, kept, d) \in ShapedRecord
        /\ Resized(record, kept, d).status = req[r].status
        /\ Resized(record, kept, d).out = record.out
        /\ Resized(record, kept, d).computed = record.computed
    BY <1>4, ResizedShape, ResizedComputed
  <2>3. UNCHANGED <<blocks, freeBlocks, sched>>
    BY <1>1, <1>8 DEF kvVars
  <2> QED BY <1>1, <1>5, <1>6, <2>1, <2>2, <2>3, RowKv
<1> QED BY <1>3, <1>7, <1>8 DEF record

LEMMA OtherRowsKv ==
  ASSUME KvInv, NEW r \in Requests,
         SkipFinished(r) \/ EmptyRow(r) \/ DiscardTokens(r)
  PROVE  Pool' /\ \A q \in Requests : Covered(q)'
<1>1. /\ Shape /\ Queued /\ phase = "update"
      /\ UNCHANGED <<blocks, freeBlocks, sched>>
      /\ req[r] \in ShapedRecord /\ req[r].computed \in Int
      /\ PromptLen[r] + req[r].out <= MaxModelLen
  BY DEF KvInv, SkipFinished, EmptyRow, DiscardTokens, Visit, stepVars, kvVars,
         Shape, ShapedRecord, Covered, NumTokens
<1> req[r].computed <= req[r].computed
  BY <1>1
<1>2. CASE SkipFinished(r)
  <2>1. req' = [req EXCEPT ![r] = req[r]]
    BY <1>1, <1>2 DEF SkipFinished, Shape
  <2> QED BY <1>1, <2>1, RowKv
<1>3. CASE EmptyRow(r)
  <2>1. PICK d \in Reported(req[r]) :
          req' = [req EXCEPT ![r] = Resized(req[r], 0, d)]
    BY <1>3 DEF EmptyRow
  <2>2. /\ Resized(req[r], 0, d) \in ShapedRecord
        /\ Resized(req[r], 0, d).status = req[r].status
        /\ Resized(req[r], 0, d).out = req[r].out
        /\ Resized(req[r], 0, d).computed = req[r].computed
    BY <1>1, ResizedShape, ResizedComputed
  <2> QED BY <1>1, <2>1, <2>2, RowKv
<1>4. CASE DiscardTokens(r)
  <2>1. PICK generated \in 1..(Head(frames).spec[r] + 1) :
          \E d \in Reported(Corrected(r, generated)) :
            req' = [req EXCEPT ![r] = Resized(Corrected(r, generated), 0, d)]
    BY <1>4 DEF DiscardTokens
  <2> DEFINE c == Corrected(r, generated)
  <2>2. PICK d \in Reported(c) : req' = [req EXCEPT ![r] = Resized(c, 0, d)]
    BY <2>1
  <2>3. /\ c \in ShapedRecord /\ c.status = req[r].status
        /\ c.out = req[r].out /\ c.computed <= req[r].computed
    BY <1>1, CorrectedShape, CorrectedComputed
  <2> HIDE DEF c
  <2>4. /\ Resized(c, 0, d) \in ShapedRecord
        /\ Resized(c, 0, d).status = c.status
        /\ Resized(c, 0, d).out = c.out
        /\ Resized(c, 0, d).computed = c.computed
    BY <2>2, <2>3, ResizedShape, ResizedComputed
  <2> QED BY <1>1, <2>2, <2>3, <2>4, RowKv
<1> QED BY <1>2, <1>3, <1>4

\* Steps that change no record, no blocks and no tokens scheduled, or drop
\* the tokens of the step before.
LEMMA OtherStepsKv ==
  ASSUME KvInv, UNCHANGED <<req, blocks, freeBlocks>>,
         sched' = sched \/ sched' = Nothing
  PROVE  Pool' /\ \A q \in Requests : Covered(q)'
<1>1. Pool' /\ Shape
  BY DEF KvInv, Pool
<1>2. ASSUME NEW q \in Requests
      PROVE  Covered(q)'
  BY <1>1, CoveredSame DEF KvInv, Nothing
<1> QED BY <1>1, <1>2

LEMMA AddRequestKv ==
  ASSUME KvInv, NEW r \in Requests, AddRequest(r)
  PROVE  Pool' /\ \A q \in Requests : Covered(q)'
<1>1. /\ req' = [req EXCEPT ![r].status = "WAITING"] /\ req[r].status = "NEW"
      /\ UNCHANGED <<blocks, freeBlocks, sched>>
  BY DEF AddRequest, kvVars, stepVars
<1>2. Pool' /\ Shape
  BY <1>1 DEF KvInv, Pool
<1>3. /\ req'[r].status = "WAITING" /\ req'[r].out = req[r].out
      /\ \A q \in Requests \ {r} : req'[q] = req[q]
  BY <1>1, <1>2 DEF Shape, ShapedRecord
<1>4. Covered(r)'
  <2>1. blocks'[r] = 0 /\ PromptLen[r] + req'[r].out <= MaxModelLen
    BY <1>1, <1>3 DEF KvInv, Covered, NumTokens
  <2> QED BY <1>3, <2>1, CoveredIdle
<1>5. ASSUME NEW q \in Requests, q # r
      PROVE  Covered(q)'
  BY <1>1, <1>2, <1>3, <1>5, CoveredSame DEF KvInv
<1> QED BY <1>2, <1>4, <1>5

LEMMA AbortKv ==
  ASSUME KvInv, NEW r \in Requests, Abort(r)
  PROVE  Pool' /\ \A q \in Requests : Covered(q)'
<1>1. /\ req' = [req EXCEPT ![r] = Finished(req[r])] /\ LeaveEngine(r)
      /\ sched' = sched
  BY DEF Abort, stepVars
<1>2. PromptLen[r] + req[r].out <= MaxModelLen
  BY DEF KvInv, Covered, NumTokens
<1> QED BY <1>1, <1>2, LeaveEngineKv

LEMMA StepKv ==
  ASSUME KvInv, [Next]_vars
  PROVE  KvInv'
<1>1. Shape' /\ Queued'
  BY StepLayer1 DEF KvInv
<1> SUFFICES Pool' /\ \A r \in Requests : Covered(r)'
  BY <1>1 DEF KvInv
<1>2. CASE ScheduleRunning \/ PreemptLast \/ Admit \/ EndSchedule
  BY <1>2, ScheduleRunningKv, PreemptLastKv, AdmitKv, EndScheduleKv
<1>3. CASE BeginSchedule \/ SkipRunning \/ EndRunning
  <2>1. /\ UNCHANGED <<req, blocks, freeBlocks>>
        /\ sched' = sched \/ sched' = Nothing
    BY <1>3 DEF BeginSchedule, SkipRunning, EndRunning, kvVars, stepVars
  <2> QED BY <2>1, OtherStepsKv
<1>4. CASE BeginUpdate \/ EndUpdate
  <2>1. UNCHANGED <<req, blocks, freeBlocks, sched>>
    BY <1>4 DEF BeginUpdate, EndUpdate, kvVars, stepVars
  <2> QED BY <2>1, OtherStepsKv
<1>5. ASSUME NEW r \in Requests,
             \/ SkipFinished(r) \/ EmptyRow(r) \/ AcceptTokens(r)
             \/ DiscardTokens(r) \/ AddRequest(r) \/ Abort(r)
      PROVE  Pool' /\ \A q \in Requests : Covered(q)'
  BY <1>5, AcceptTokensKv, OtherRowsKv, AddRequestKv, AbortKv
<1>6. CASE OperatorStep
  <2>1. CASE ResetPrefixCache
    BY <2>1, ResetPrefixCacheKv
  <2>2. ASSUME NEW p \in PauseStates, SetPauseState(p)
        PROVE  UNCHANGED <<req, blocks, freeBlocks, sched>>
    BY <2>2 DEF SetPauseState, kvVars, stepVars
  <2> QED BY <1>6, <2>1, <2>2, OtherStepsKv DEF OperatorStep
<1>7. CASE UNCHANGED vars
  <2>1. UNCHANGED <<req, blocks, freeBlocks, sched>>
    BY <1>7 DEF vars, kvVars, stepVars
  <2> QED BY <2>1, OtherStepsKv
<1> QED BY <1>2, <1>3, <1>4, <1>5, <1>6, <1>7
    DEF Next, EngineStep, ScheduleStep, UpdateStep, ClientStep

(***************************************************************************)
(* No block leaks from the pool and none is freed twice, whatever order    *)
(* requests are admitted, preempted, aborted and stopped in; a running     *)
(* request holds a slot for every token computed or scheduled, drafts      *)
(* included, and a request that does not run holds none.                   *)
(***************************************************************************)
THEOREM KvIsSafe == Spec => []KvSafety
<1>1. Init => KvInv
  BY InitKv
<1>2. KvInv /\ [Next]_vars => KvInv'
  BY StepKv
<1>3. ASSUME KvInv
      PROVE  KvSafety
  <2>1. freeBlocks + FoldFunction(+, 0, blocks) = NumBlocks
    BY <1>3, Zenon DEF KvInv, Pool, Total
  <2>2. ASSUME NEW r \in Requests
        PROVE  IF req[r].status = "RUNNING"
               THEN req[r].computed + sched[r] <= blocks[r] * BlockSize
               ELSE blocks[r] = 0
    BY <1>3 DEF KvInv, Covered
  <2> QED BY <2>1, <2>2, Zenon DEF KvSafety
<1> QED BY <1>1, <1>2, <1>3, PTL DEF Spec

-----------------------------------------------------------------------------
(* First come, first served.                                               *)

\* What the refinement of FcfsService needs to know of a request: it has no
\* more tokens than it asked for, and nothing in the engine names it before
\* it arrives.
KnownRow(r) ==
  /\ req[r].out <= MaxTokens[r]
  /\ req[r].status = "NEW" =>
       sched[r] = 0 /\ \A i \in DOMAIN frames : r \notin frames[i].emits

Known == Len(running) <= MaxNumSeqs /\ \A r \in Requests : KnownRow(r)

ServiceInv == Shape /\ Queued /\ Known

\* A step of the scheduler as its clients see it.
ServiceStep == [Service!Next]_(Service!vars)

\* The operators FcfsService takes from the library are the scheduler's own.
LEMMA ServiceOperators ==
  ASSUME NEW s, NEW e
  PROVE  /\ Service!Contains(s, e) <=> Contains(s, e)
         /\ Service!RemoveFirst(s, e) = RemoveFirst(s, e)
<1>1. Service!Contains(s, e) <=> Contains(s, e)
  BY DEF Service!Contains, Contains
<1>2. Service!RemoveFirst(s, e) = RemoveFirst(s, e)
  BY DEF Service!RemoveFirst, RemoveFirst, Service!RemoveAt, RemoveAt,
         Service!SelectInSeq, SelectInSeq, Service!Min, Min
<1> QED BY <1>1, <1>2

LEMMA KnownKept ==
  ASSUME NEW r \in Requests, KnownRow(r), req'[r].out <= MaxTokens[r],
         req'[r].status = "NEW" => req[r].status = "NEW",
         sched'[r] = sched[r] \/ sched'[r] = 0, frames' = frames
  PROVE  KnownRow(r)'
BY DEF KnownRow

\* The queues of the scheduler as one line.
LEMMA LineFacts ==
  ASSUME Queued
  PROVE  /\ running \in Seq(Requests) /\ waiting \in Seq(Requests)
         /\ Len(running) \in Nat /\ Len(waiting) \in Nat
         /\ Len(running \o waiting) = Len(running) + Len(waiting)
         /\ ToSet(running) \intersect ToSet(waiting) = {}
         /\ \A r \in Requests :
              /\ Contains(running \o waiting, r) <=> req[r].status \in Unfinished
              /\ Contains(SubSeq(running \o waiting, 1, Len(running)), r)
                   <=> req[r].status = "RUNNING"
<1>1. running \in Seq(Requests) /\ waiting \in Seq(Requests)
  BY DEF Queued, IsQueue
<1>2. ASSUME NEW r \in Requests
      PROVE  /\ Contains(running \o waiting, r) <=> req[r].status \in Unfinished
             /\ Contains(SubSeq(running \o waiting, 1, Len(running)), r)
                   <=> req[r].status = "RUNNING"
             /\ Len(running \o waiting) = Len(running) + Len(waiting)
  <2>1. /\ Contains(SubSeq(running \o waiting, 1, Len(running)), r)
             <=> r \in ToSet(running)
        /\ Contains(running \o waiting, r)
             <=> r \in ToSet(running) \union ToSet(waiting)
        /\ Len(running \o waiting) = Len(running) + Len(waiting)
    BY <1>1, HeadOfLine
  <2> QED BY <2>1 DEF Queued, Unfinished
<1>3. Len(running \o waiting) = Len(running) + Len(waiting)
  BY <1>1, ConcatProperties
<1>4. Len(running) \in Nat /\ Len(waiting) \in Nat
  BY <1>1, LenProperties
<1> QED BY <1>1, <1>2, <1>3, <1>4 DEF Queued

\* Steps that leave the clients' view alone.
LEMMA Unseen ==
  ASSUME UNCHANGED <<running, waiting>>,
         \A r \in Requests :
           /\ req'[r].out = req[r].out
           /\ req'[r].status = "FINISHED" <=> req[r].status = "FINISHED"
  PROVE  ServiceStep
BY DEF ServiceStep, Service!vars

LEMMA AddRequestService ==
  ASSUME ServiceInv, NEW r \in Requests, AddRequest(r)
  PROVE  ServiceStep /\ Known'
<1>1. /\ req' = [req EXCEPT ![r].status = "WAITING"] /\ req[r].status = "NEW"
      /\ waiting' = Append(waiting, r)
      /\ UNCHANGED <<running, sched, frames>>
  BY DEF AddRequest, stepVars
<1>2. Shape /\ Queued /\ Known
  BY DEF ServiceInv
<1>3. /\ req'[r].status = "WAITING" /\ req'[r].out = req[r].out
      /\ \A q \in Requests \ {r} : req'[q] = req[q]
  BY <1>1, <1>2 DEF Shape, ShapedRecord
<1>4. (running \o waiting)' = Append(running \o waiting, r)
  BY <1>1, <1>2, LineFacts, LineKept
<1>5. ~Contains(running \o waiting, r)
  BY <1>1, <1>2, LineFacts DEF Unfinished
<1>6. Service!Arrive(r)
  <2>1. \A q \in Requests :
          /\ req'[q].out = req[q].out
          /\ req'[q].status = "FINISHED" <=> req[q].status = "FINISHED"
    BY <1>1, <1>3
  <2>2. /\ [q \in Requests |-> req[q].out]' = [q \in Requests |-> req[q].out]
        /\ {q \in Requests : req[q].status = "FINISHED"}'
             = {q \in Requests : req[q].status = "FINISHED"}
    BY <2>1
  <2> QED BY <1>1, <1>4, <1>5, <2>2, ServiceOperators DEF Service!Arrive
<1>7. Known'
  BY <1>1, <1>2, <1>3, KnownKept DEF Known, KnownRow
<1> QED BY <1>6, <1>7 DEF ServiceStep, Service!Next

\* LeaveEngine is a Leave of the line, wherever the request stands in it.
LEMMA LeaveEngineService ==
  ASSUME ServiceInv, NEW r \in Requests, LeaveEngine(r),
         req[r].status \in Unfinished, NEW k \in Nat,
         NEW record, record.out = req[r].out + k,
         record.out <= MaxTokens[r],
         req' = [req EXCEPT ![r] = Finished(record)],
         UNCHANGED <<sched, frames>>
  PROVE  ServiceStep /\ Known'
<1>1. Shape /\ Queued /\ Known
  BY DEF ServiceInv
<1>2. /\ req'[r].status = "FINISHED" /\ req'[r].out = req[r].out + k
      /\ \A q \in Requests \ {r} : req'[q] = req[q]
  BY <1>1 DEF Shape, Finished
<1>3. req[r].out \in Nat /\ MaxTokens[r] \in Nat /\ k \in 0..MaxTokens[r]
  <2>1. req[r].out \in Nat /\ MaxTokens[r] \in Nat
    BY <1>1, KvNumbers
  <2> QED BY <2>1
<1>4. [q \in Requests |-> req[q].out]'
        = [[q \in Requests |-> req[q].out] EXCEPT ![r] = @ + k]
  <2>1. \A q \in Requests :
          req'[q].out = IF q = r THEN req[q].out + k ELSE req[q].out
    BY <1>2
  <2> QED BY <2>1
<1>5. {q \in Requests : req[q].status = "FINISHED"}'
        = {q \in Requests : req[q].status = "FINISHED"} \union {r}
  BY <1>2
<1>6. /\ r \in ToSet(running) =>
           /\ RemoveFirst(running \o waiting, r) = RemoveFirst(running, r) \o waiting
           /\ Len(RemoveFirst(running, r)) = Len(running) - 1
      /\ r \in ToSet(waiting) =>
           RemoveFirst(running \o waiting, r) = running \o RemoveFirst(waiting, r)
  <2>1. /\ IsQueue(running, Requests) /\ IsQueue(waiting, Requests)
        /\ ToSet(running) \intersect ToSet(waiting) = {}
    BY <1>1, LineFacts DEF Queued
  <2> QED BY <2>1, RemoveFromLine
<1>7. /\ (running \o waiting)' = RemoveFirst(running \o waiting, r)
      /\ Len(running') = IF req[r].status = "RUNNING"
                         THEN Len(running) - 1 ELSE Len(running)
  <2>1. CASE req[r].status = "RUNNING"
    <3>1. running' = RemoveFirst(running, r) /\ waiting' = waiting
      BY <2>1 DEF LeaveEngine
    <3>2. r \in ToSet(running)
      BY <1>1, <2>1 DEF Queued
    <3> QED BY <1>6, <2>1, <3>1, <3>2
  <2>2. CASE req[r].status # "RUNNING"
    <3>1. waiting' = RemoveFirst(waiting, r) /\ running' = running
      BY <2>2 DEF LeaveEngine
    <3>2. r \in ToSet(waiting)
      BY <1>1, <2>2 DEF Queued, Unfinished
    <3> QED BY <1>6, <2>2, <3>1, <3>2
  <2> QED BY <2>1, <2>2
<1>8. Contains(running \o waiting, r)
  BY <1>1, LineFacts
<1>9. Len(running') = IF Contains(SubSeq(running \o waiting, 1, Len(running)), r)
                      THEN Len(running) - 1 ELSE Len(running)
  BY <1>1, <1>7, LineFacts
<1>10. Service!Leave(r, k)
  BY <1>2, <1>3, <1>4, <1>5, <1>7, <1>8, <1>9, ServiceOperators DEF Service!Leave
<1>11. Known'
  <2>1. Len(running) \in Nat /\ MaxNumSeqs \in Nat /\ Len(running) <= MaxNumSeqs
    BY <1>1, LineFacts, SchedulerAssumption DEF Known
  <2>2. Len(running') <= MaxNumSeqs
    BY <1>7, <2>1
  <2>3. ASSUME NEW q \in Requests
        PROVE  KnownRow(q)'
    <3>1. KnownRow(q)
      BY <1>1 DEF Known
    <3>2. req'[q].out <= MaxTokens[q]
      BY <1>2, <3>1 DEF KnownRow
    <3>3. req'[q].status = "NEW" => req[q].status = "NEW"
      BY <1>2
    <3> QED BY <3>1, <3>2, <3>3, KnownKept
  <2> QED BY <2>2, <2>3 DEF Known
<1> QED BY <1>3, <1>10, <1>11 DEF ServiceStep, Service!Next

LEMMA AbortService ==
  ASSUME ServiceInv, NEW r \in Requests, Abort(r)
  PROVE  ServiceStep /\ Known'
<1>1. /\ req' = [req EXCEPT ![r] = Finished(req[r])] /\ LeaveEngine(r)
      /\ req[r].status \in Unfinished /\ UNCHANGED <<sched, frames>>
  BY DEF Abort, stepVars
<1>2. req[r].out = req[r].out + 0 /\ req[r].out <= MaxTokens[r] /\ 0 \in Nat
  BY KvNumbers DEF ServiceInv, Known, KnownRow
<1> QED BY <1>1, <1>2, LeaveEngineService

LEMMA ResetPrefixCacheService ==
  ASSUME ServiceInv, ResetPrefixCache
  PROVE  ServiceStep /\ Known'
<1>1. /\ req' = [r \in Requests |->
                  IF req[r].status = "RUNNING"
                  THEN [Preempted(req[r]) EXCEPT !.ph = 0]
                  ELSE req[r]]
      /\ running # <<>> /\ running' = <<>> /\ waiting' = running \o waiting
      /\ frames' = [i \in DOMAIN frames |-> StaleFrame(frames[i])]
      /\ sched' = sched
  BY DEF ResetPrefixCache, stepVars
<1>2. Shape /\ Queued /\ Known
  BY DEF ServiceInv
<1>3. ASSUME NEW r \in Requests
      PROVE  /\ req'[r].out = req[r].out
             /\ req'[r].status = "FINISHED" <=> req[r].status = "FINISHED"
             /\ req'[r].status = "NEW" <=> req[r].status = "NEW"
  BY <1>1 DEF Preempted
<1>4. Len(running) \in Nat /\ Len(running) > 0 /\ running \o waiting \in Seq(Requests)
  BY <1>1, <1>2, LineFacts, EmptySeq, ConcatProperties
<1>5. (running \o waiting)' = running \o waiting /\ Len(running') = 0
  <2> DEFINE l == running \o waiting
  <2>1. <<>> \o l = l
    BY <1>4, ConcatEmptySeq
  <2> HIDE DEF l
  <2>2. waiting' = l
    BY <1>1 DEF l
  <2>3. running' \o waiting' = l
    BY <1>1, <2>1, <2>2
  <2> QED BY <1>1, <2>3 DEF l
<1>6. Service!LoseSeats(0)
  BY <1>3, <1>5 DEF Service!LoseSeats
<1>7. ServiceStep
  BY <1>4, <1>6 DEF ServiceStep, Service!Next
<1>8. Known'
  <2>1. Len(running') <= MaxNumSeqs
    BY <1>5, SchedulerAssumption
  <2>2. ASSUME NEW r \in Requests
        PROVE  KnownRow(r)'
    <3>1. ASSUME NEW i \in DOMAIN frames
          PROVE  frames'[i].emits = frames[i].emits
      <4>1. frames[i] \in ShapedFrame
        BY <1>2, LenProperties, ElementOfSeq DEF Shape
      <4> QED BY <1>1, <4>1 DEF StaleFrame, ShapedFrame
    <3>2. DOMAIN frames' = DOMAIN frames
      BY <1>1
    <3> QED BY <1>1, <1>2, <1>3, <3>1, <3>2 DEF Known, KnownRow
  <2> QED BY <2>1, <2>2 DEF Known
<1> QED BY <1>7, <1>8

\* A step that changes at most r's record, and neither its tokens nor its
\* status, is not seen.
LEMMA RowUnseen ==
  ASSUME ServiceInv, NEW r \in Requests, NEW record \in ShapedRecord,
         record.out = req[r].out, record.status = req[r].status,
         req' = [req EXCEPT ![r] = record],
         UNCHANGED <<running, waiting, frames, sched>>
  PROVE  ServiceStep /\ Known'
<1>1. \A q \in Requests :
        req'[q].out = req[q].out /\ req'[q].status = req[q].status
  BY DEF ServiceInv, Shape
<1>2. ServiceStep
  BY <1>1, Unseen
<1>3. Known'
  BY <1>1, KnownKept DEF ServiceInv, Known, KnownRow
<1> QED BY <1>2, <1>3

\* Steps that change no record and neither queue.
LEMMA OtherStepsUnseen ==
  ASSUME ServiceInv, UNCHANGED <<req, running, waiting>>,
         sched' = sched \/ sched' = Nothing,
         frames' = frames \/ EndUpdate
  PROVE  ServiceStep /\ Known'
<1>1. ServiceStep
  BY Unseen
<1>2. Known /\ Shape
  BY DEF ServiceInv
<1>3. ASSUME NEW r \in Requests
      PROVE  KnownRow(r)'
  <2>1. KnownRow(r) /\ (sched'[r] = sched[r] \/ sched'[r] = 0)
    BY <1>2 DEF Known, Nothing
  <2>2. CASE frames' = frames
    BY <2>1, <2>2 DEF KnownRow
  <2>3. CASE EndUpdate
    <3>1. frames \in Seq(ShapedFrame) /\ frames # <<>> /\ frames' = Tail(frames)
      BY <1>2, <2>3 DEF Shape, EndUpdate
    <3>2. /\ Tail(frames) \in Seq(ShapedFrame)
          /\ Len(Tail(frames)) = Len(frames) - 1
          /\ \A i \in 1..Len(Tail(frames)) : Tail(frames)[i] = frames[i + 1]
      BY <3>1, HeadTailProperties
    <3>3. /\ DOMAIN frames = 1..Len(frames) /\ Len(frames) \in Nat
          /\ DOMAIN frames' = 1..Len(frames')
      BY <3>1, <3>2, LenProperties
    <3>4. ASSUME NEW i \in DOMAIN frames'
          PROVE  i + 1 \in DOMAIN frames /\ frames'[i] = frames[i + 1]
      <4>1. i \in 1..Len(Tail(frames)) /\ i \in 1..(Len(frames) - 1)
        BY <3>1, <3>2, <3>3
      <4>2. i + 1 \in 1..Len(frames)
        BY <3>3, <4>1
      <4>3. Tail(frames)[i] = frames[i + 1]
        BY <3>2, <4>1
      <4> QED BY <3>1, <3>3, <4>2, <4>3
    <3> QED BY <2>1, <3>4 DEF KnownRow
  <2> QED BY <2>2, <2>3
<1> QED BY <1>1, <1>2, <1>3 DEF Known

LEMMA ScheduleRunningService ==
  ASSUME ServiceInv, ScheduleRunning
  PROVE  ServiceStep /\ Known'
<1>1. Shape /\ Queued /\ Known /\ InRunningLoop
  BY DEF ServiceInv, ScheduleRunning
<1>2. PICK r \in Requests : r = running[cursor] /\ req[r].status = "RUNNING"
  BY <1>1, RunningRequest
<1>3. /\ sched' = [sched EXCEPT ![r] = NumNewTokens(r)]
      /\ req' = [req EXCEPT ![r].spec = 0]
      /\ UNCHANGED <<running, waiting, frames>>
  BY <1>2 DEF ScheduleRunning, queueVars
<1>4. \A q \in Requests :
        req'[q].out = req[q].out /\ req'[q].status = req[q].status
  BY <1>1, <1>3 DEF Shape, ShapedRecord
<1>5. ServiceStep
  BY <1>3, <1>4, Unseen
<1>6. ASSUME NEW q \in Requests
      PROVE  KnownRow(q)'
  <2>1. CASE q = r
    BY <1>1, <1>2, <1>4, <2>1 DEF Known, KnownRow
  <2>2. CASE q # r
    <3>1. sched'[q] = sched[q]
      BY <1>1, <1>3, <2>2 DEF Shape
    <3> QED BY <1>1, <1>3, <1>4, <3>1, KnownKept DEF Known, KnownRow
  <2> QED BY <2>1, <2>2
<1> QED BY <1>1, <1>3, <1>5, <1>6 DEF Known

\* The request admitted last loses its seat, not its place in the line.
LEMMA PreemptLastService ==
  ASSUME ServiceInv, PreemptLast
  PROVE  ServiceStep /\ Known'
<1>1. Shape /\ Queued /\ Known /\ running # <<>>
  BY RunningRequest DEF ServiceInv, PreemptLast
<1>2. PICK v \in Requests : v = Last(running)
  BY <1>1, FrontOfQueue DEF Queued
<1>3. /\ running' = Front(running) /\ waiting' = <<Last(running)>> \o waiting
      /\ req' = [req EXCEPT ![v] = Preempted(req[v])]
      /\ UNCHANGED <<frames, sched>>
  BY <1>2 DEF PreemptLast, Requeued
<1>4. \A q \in Requests :
        /\ req'[q].out = req[q].out
        /\ req'[q].status = "NEW" => req[q].status = "NEW"
  BY <1>1, <1>3 DEF Shape, Preempted
<1>5. \A q \in Requests :
        req'[q].status = "FINISHED" <=> req[q].status = "FINISHED"
  <2>1. req[v].status = "RUNNING"
    BY <1>1, <1>2, FrontOfQueue DEF Queued
  <2> QED BY <1>1, <1>3, <2>1 DEF Shape, Preempted
<1>6. (running \o waiting)' = running \o waiting
  BY <1>1, <1>2, <1>3, LineFacts, LineKept
<1>7. /\ Len(running) \in Nat /\ Len(running) > 0
      /\ Len(running') = Len(running) - 1
  BY <1>1, <1>3, FrontOfQueue DEF Queued
<1>8. Service!LoseSeats(Len(running) - 1)
  BY <1>4, <1>5, <1>6, <1>7 DEF Service!LoseSeats
<1>9. ServiceStep
  BY <1>7, <1>8 DEF ServiceStep, Service!Next
<1>10. Known'
  <2>1. Len(running') <= MaxNumSeqs
    BY <1>1, <1>7, SchedulerAssumption DEF Known
  <2> QED BY <1>1, <1>3, <1>4, <2>1, KnownKept DEF Known, KnownRow
<1> QED BY <1>9, <1>10

\* The head of the waiting queue, next in the line, takes a seat.
LEMMA AdmitService ==
  ASSUME ServiceInv, Admit
  PROVE  ServiceStep /\ Known'
<1>1. /\ Shape /\ Queued /\ Known
      /\ waiting # <<>> /\ Len(running) # MaxNumSeqs
  BY DEF ServiceInv, Admit, InWaitingLoop
<1>2. PICK r \in Requests : r = Head(waiting) /\ r \in ToSet(waiting)
  BY <1>1, TailOfQueue DEF Queued
<1>3. PICK hit \in CachedPrefixes(r) :
        /\ running' = Append(running, r)
        /\ waiting' = Tail(waiting)
        /\ sched' = [sched EXCEPT ![r] = NumPrefillTokens(r, hit)]
        /\ req' = [req EXCEPT ![r].status = "RUNNING", ![r].computed = hit]
        /\ UNCHANGED frames
  BY <1>2 DEF Admit
<1>4. /\ req[r].status \in {"WAITING", "PREEMPTED"}
      /\ req'[r].status = "RUNNING" /\ req'[r].out = req[r].out
      /\ \A q \in Requests \ {r} : req'[q] = req[q] /\ sched'[q] = sched[q]
  BY <1>1, <1>2, <1>3 DEF Queued, Shape, ShapedRecord
<1>5. \A q \in Requests :
        /\ req'[q].out = req[q].out
        /\ req'[q].status = "FINISHED" <=> req[q].status = "FINISHED"
  BY <1>4
<1>6. (running \o waiting)' = running \o waiting
  BY SMTT(30), <1>1, <1>2, <1>3, LineFacts, LineKept
<1>7. /\ Len(running) \in Nat /\ Len(waiting) \in Nat /\ Len(waiting) > 0
      /\ Len(running') = Len(running) + 1
      /\ Len(running) < Len(running \o waiting)
      /\ Len(running) < MaxNumSeqs
  <2>1. /\ running \in Seq(Requests) /\ waiting \in Seq(Requests)
        /\ Len(running) \in Nat /\ Len(waiting) \in Nat
        /\ Len(running \o waiting) = Len(running) + Len(waiting)
    BY <1>1, LineFacts
  <2>2. Len(waiting) > 0
    BY <1>1, <2>1, EmptySeq
  <2>3. Len(running') = Len(running) + 1
    BY <1>3, <2>1, AppendProperties
  <2>4. Len(running) < MaxNumSeqs
    BY <1>1, <2>1, SchedulerAssumption DEF Known
  <2> QED BY <2>1, <2>2, <2>3, <2>4
<1>8. Service!TakeSeat
  BY <1>5, <1>6, <1>7 DEF Service!TakeSeat
<1>9. ServiceStep
  BY <1>8 DEF ServiceStep, Service!Next
<1>10. Known'
  <2>1. Len(running') <= MaxNumSeqs
    BY <1>7, SchedulerAssumption
  <2>2. ASSUME NEW q \in Requests
        PROVE  KnownRow(q)'
    <3>1. KnownRow(q)
      BY <1>1 DEF Known
    <3>2. CASE q = r
      BY <1>4, <3>1, <3>2 DEF KnownRow
    <3>3. CASE q # r
      BY <1>3, <1>4, <3>1, <3>3 DEF KnownRow
    <3> QED BY <3>2, <3>3
  <2> QED BY <2>1, <2>2 DEF Known
<1> QED BY <1>9, <1>10

LEMMA EndScheduleService ==
  ASSUME ServiceInv, EndSchedule
  PROVE  ServiceStep /\ Known'
<1>1. /\ req' = [r \in Requests |->
                  IF r \in Scheduled THEN Advanced(r) ELSE req[r]]
      /\ frames' = Append(frames, [n |-> sched, spec |-> schedSpec,
                                   emits |-> SampledRows, stale |-> {}])
      /\ sched' = Nothing /\ UNCHANGED <<running, waiting>>
  BY DEF EndSchedule, queueVars
<1>2. Shape /\ Known
  BY DEF ServiceInv
<1>3. \A r \in Requests :
        req'[r].out = req[r].out /\ req'[r].status = req[r].status
  BY <1>1 DEF Advanced
<1>4. ServiceStep
  BY <1>1, <1>3, Unseen
<1>5. ASSUME NEW r \in Requests
      PROVE  KnownRow(r)'
  <2> SUFFICES ASSUME req[r].status = "NEW"
               PROVE  sched'[r] = 0 /\ \A i \in DOMAIN frames' : r \notin frames'[i].emits
    BY <1>2, <1>3 DEF Known, KnownRow
  <2>1. sched[r] = 0 /\ \A i \in DOMAIN frames : r \notin frames[i].emits
    BY <1>2 DEF Known, KnownRow
  <2>2. r \notin SampledRows
    BY <2>1 DEF SampledRows, Scheduled
  <2>3. /\ frames \in Seq(ShapedFrame) /\ Len(frames) \in Nat
        /\ DOMAIN frames = 1..Len(frames)
    BY <1>2, LenProperties DEF Shape
  <2> DEFINE new == [n |-> sched, spec |-> schedSpec,
                     emits |-> SampledRows, stale |-> {}]
  <2>4. new \in ShapedFrame /\ new.emits = SampledRows
    BY <1>2 DEF Shape, ShapedFrame, SampledRows, Scheduled
  <2> HIDE DEF new
  <2>5. /\ Append(frames, new) \in Seq(ShapedFrame)
        /\ Len(Append(frames, new)) = Len(frames) + 1
        /\ \A i \in 1..Len(frames) : Append(frames, new)[i] = frames[i]
        /\ Append(frames, new)[Len(frames) + 1] = new
    BY <2>3, <2>4, AppendProperties
  <2>6. frames' = Append(frames, new) /\ DOMAIN frames' = 1..Len(frames')
    BY <1>1, <2>5, LenProperties DEF new
  <2>7. ASSUME NEW i \in DOMAIN frames'
        PROVE  r \notin frames'[i].emits
    <3>1. i \in 1..Len(frames) \/ i = Len(frames) + 1
      BY <2>3, <2>5, <2>6
    <3>2. CASE i \in 1..Len(frames)
      BY <2>1, <2>3, <2>5, <2>6, <3>2
    <3>3. CASE i = Len(frames) + 1
      BY <2>2, <2>4, <2>5, <2>6, <3>3
    <3> QED BY <3>1, <3>2, <3>3
  <2> QED BY <1>1, <2>7 DEF Nothing
<1> QED BY <1>1, <1>2, <1>4, <1>5 DEF Known

\* Tokens that are kept reach the client, and only those check_stop allows.
LEMMA AcceptTokensService ==
  ASSUME ServiceInv, NEW r \in Requests, AcceptTokens(r)
  PROVE  ServiceStep /\ Known'
<1>1. /\ Shape /\ Queued /\ Known /\ phase = "update"
      /\ req[r].status # "FINISHED"
      /\ r \in Head(frames).emits
      /\ UNCHANGED <<sched, frames>>
  BY DEF ServiceInv, AcceptTokens, Visit, stepVars
<1>2. req[r].status \in Unfinished
  <2>1. frames \in Seq(ShapedFrame) /\ frames # <<>>
    BY <1>1 DEF Shape
  <2>2. Head(frames) = frames[1] /\ 1 \in DOMAIN frames
    BY <2>1, HeadTailProperties, LenProperties, EmptySeq
  <2>3. req[r].status # "NEW"
    BY <1>1, <2>2 DEF Known, KnownRow
  <2>4. req[r].status \in Statuses
    BY <1>1 DEF Shape, ShapedRecord
  <2> QED BY <1>1, <2>3, <2>4 DEF Statuses, Unfinished
<1>3. PICK generated \in 1..(Head(frames).spec[r] + 1) :
      \E kept \in 1..generated :
        \/ /\ StopsAfter(r, generated, kept, TRUE)
           /\ req' = [req EXCEPT ![r] = Finished(Kept(r, generated, kept))]
           /\ LeaveEngine(r)
        \/ /\ StopsAfter(r, generated, kept, FALSE)
           /\ \E d \in Reported(Kept(r, generated, kept)) :
                req' = [req EXCEPT
                         ![r] = Resized(Kept(r, generated, kept), kept, d)]
           /\ UNCHANGED <<queueVars, kvVars, finishedReqIds>>
  BY DEF AcceptTokens, Kept
<1>4. PICK kept \in 1..generated :
        \/ /\ StopsAfter(r, generated, kept, TRUE)
           /\ req' = [req EXCEPT ![r] = Finished(Kept(r, generated, kept))]
           /\ LeaveEngine(r)
        \/ /\ StopsAfter(r, generated, kept, FALSE)
           /\ \E d \in Reported(Kept(r, generated, kept)) :
                req' = [req EXCEPT
                         ![r] = Resized(Kept(r, generated, kept), kept, d)]
           /\ UNCHANGED <<queueVars, kvVars, finishedReqIds>>
  BY <1>3
<1> DEFINE record == Kept(r, generated, kept)
<1>5. /\ record \in ShapedRecord /\ record.status = req[r].status
      /\ record.out = req[r].out + kept /\ kept \in Nat
  BY <1>1, KeptShape
<1>6. /\ req[r].out \in Nat /\ MaxTokens[r] \in Nat
      /\ req[r].out + kept <= MaxTokens[r]
      /\ kept \in 1..MaxTokens[r]
  <2>1. kept <= Room(r)
    BY <1>4 DEF StopsAfter
  <2>2. /\ PromptLen[r] \in Nat /\ req[r].out \in Nat /\ MaxTokens[r] \in Nat
        /\ MaxModelLen \in Nat
    BY <1>1, KvNumbers
  <2>3. kept >= 1
    BY <1>5
  <2> QED BY <1>5, <2>1, <2>2, <2>3 DEF Room, Least, NumTokens
<1> HIDE DEF record
<1>7. CASE req' = [req EXCEPT ![r] = Finished(record)] /\ LeaveEngine(r)
  BY <1>1, <1>2, <1>5, <1>6, <1>7, LeaveEngineService
<1>8. CASE /\ \E d \in Reported(record) :
                req' = [req EXCEPT ![r] = Resized(record, kept, d)]
           /\ UNCHANGED <<queueVars, kvVars, finishedReqIds>>
  <2>1. PICK d \in Reported(record) :
          req' = [req EXCEPT ![r] = Resized(record, kept, d)]
    BY <1>8
  <2>2. /\ Resized(record, kept, d) \in ShapedRecord
        /\ Resized(record, kept, d).status = req[r].status
        /\ Resized(record, kept, d).out = req[r].out + kept
    BY <1>5, ResizedShape
  <2>3. UNCHANGED <<running, waiting>>
    BY <1>8 DEF queueVars
  <2>4. \A q \in Requests :
          /\ req'[q].out = IF q = r THEN req[q].out + kept ELSE req[q].out
          /\ req'[q].status = req[q].status
    BY <1>1, <2>1, <2>2 DEF Shape
  <2>5. [q \in Requests |-> req[q].out]'
          = [[q \in Requests |-> req[q].out] EXCEPT ![r] = @ + kept]
    BY <2>4
  <2>6. Service!Receive(r, kept)
    <3>1. Contains(running \o waiting, r)
      BY <1>1, <1>2, LineFacts
    <3>2. {q \in Requests : req[q].status = "FINISHED"}'
            = {q \in Requests : req[q].status = "FINISHED"}
      BY <2>4
    <3> QED BY <1>6, <2>3, <2>5, <3>1, <3>2, ServiceOperators DEF Service!Receive
  <2>7. ServiceStep
    BY <1>6, <2>6 DEF ServiceStep, Service!Next
  <2>8. ASSUME NEW q \in Requests
        PROVE  KnownRow(q)'
    BY <1>1, <1>6, <2>4, KnownKept DEF Known, KnownRow
  <2> QED BY <1>1, <2>3, <2>7, <2>8 DEF Known
<1> QED BY <1>4, <1>7, <1>8 DEF record

LEMMA OtherRowsService ==
  ASSUME ServiceInv, NEW r \in Requests,
         SkipFinished(r) \/ EmptyRow(r) \/ DiscardTokens(r)
  PROVE  ServiceStep /\ Known'
<1>1. /\ Shape /\ phase = "update" /\ req[r] \in ShapedRecord
      /\ UNCHANGED <<running, waiting, frames, sched>>
  BY DEF ServiceInv, SkipFinished, EmptyRow, DiscardTokens, Visit, stepVars,
         queueVars, Shape
<1>2. CASE SkipFinished(r)
  <2>1. req' = [req EXCEPT ![r] = req[r]]
    BY <1>1, <1>2 DEF SkipFinished, Shape
  <2> QED BY <1>1, <2>1, RowUnseen
<1>3. CASE EmptyRow(r)
  <2>1. PICK d \in Reported(req[r]) :
          req' = [req EXCEPT ![r] = Resized(req[r], 0, d)]
    BY <1>3 DEF EmptyRow
  <2>2. /\ Resized(req[r], 0, d) \in ShapedRecord
        /\ Resized(req[r], 0, d).status = req[r].status
        /\ Resized(req[r], 0, d).out = req[r].out
    BY <1>1, ResizedShape
  <2> QED BY <1>1, <2>1, <2>2, RowUnseen
<1>4. CASE DiscardTokens(r)
  <2>1. PICK generated \in 1..(Head(frames).spec[r] + 1) :
          \E d \in Reported(Corrected(r, generated)) :
            req' = [req EXCEPT ![r] = Resized(Corrected(r, generated), 0, d)]
    BY <1>4 DEF DiscardTokens
  <2> DEFINE c == Corrected(r, generated)
  <2>2. PICK d \in Reported(c) : req' = [req EXCEPT ![r] = Resized(c, 0, d)]
    BY <2>1
  <2>3. c \in ShapedRecord /\ c.status = req[r].status /\ c.out = req[r].out
    BY <1>1, CorrectedShape
  <2> HIDE DEF c
  <2>4. /\ Resized(c, 0, d) \in ShapedRecord
        /\ Resized(c, 0, d).status = c.status
        /\ Resized(c, 0, d).out = c.out
    <3>1. 0 \in Int /\ d \in Reported(c) /\ c \in ShapedRecord
      BY <2>2, <2>3
    <3> QED BY <3>1, ResizedShape
  <2> QED BY <1>1, <2>2, <2>3, <2>4, RowUnseen
<1> QED BY <1>2, <1>3, <1>4

LEMMA StepService ==
  ASSUME ServiceInv, [Next]_vars
  PROVE  ServiceInv' /\ ServiceStep
<1>1. Shape' /\ Queued'
  BY StepLayer1 DEF ServiceInv
<1> SUFFICES ServiceStep /\ Known'
  BY <1>1 DEF ServiceInv
<1>2. CASE ScheduleRunning \/ PreemptLast \/ Admit \/ EndSchedule
  BY <1>2, ScheduleRunningService, PreemptLastService, AdmitService,
     EndScheduleService
<1>3. CASE BeginSchedule \/ SkipRunning \/ EndRunning
  <2>1. /\ UNCHANGED <<req, running, waiting, frames>>
        /\ sched' = sched \/ sched' = Nothing
    BY <1>3 DEF BeginSchedule, SkipRunning, EndRunning, queueVars, stepVars
  <2> QED BY <2>1, OtherStepsUnseen
<1>4. CASE BeginUpdate \/ EndUpdate
  <2>1. /\ UNCHANGED <<req, running, waiting, sched>>
        /\ frames' = frames \/ EndUpdate
    BY <1>4 DEF BeginUpdate, EndUpdate, queueVars, stepVars
  <2> QED BY <2>1, OtherStepsUnseen
<1>5. ASSUME NEW r \in Requests,
             \/ SkipFinished(r) \/ EmptyRow(r) \/ AcceptTokens(r)
             \/ DiscardTokens(r) \/ AddRequest(r) \/ Abort(r)
      PROVE  ServiceStep /\ Known'
  BY <1>5, AcceptTokensService, OtherRowsService, AddRequestService, AbortService
<1>6. CASE OperatorStep
  <2>1. CASE ResetPrefixCache
    BY <2>1, ResetPrefixCacheService
  <2>2. ASSUME NEW p \in PauseStates, SetPauseState(p)
        PROVE  UNCHANGED <<req, running, waiting, frames, sched>>
    BY <2>2 DEF SetPauseState, queueVars, stepVars
  <2> QED BY <1>6, <2>1, <2>2, OtherStepsUnseen DEF OperatorStep
<1>7. CASE UNCHANGED vars
  <2>1. UNCHANGED <<req, running, waiting, frames, sched>>
    BY <1>7 DEF vars, queueVars, stepVars
  <2> QED BY <2>1, OtherStepsUnseen
<1> QED BY <1>2, <1>3, <1>4, <1>5, <1>6, <1>7
    DEF Next, EngineStep, ScheduleStep, UpdateStep, ClientStep

LEMMA InitService ==
  ASSUME Init
  PROVE  ServiceInv /\ Service!Init
<1>1. Shape /\ Queued
  BY InitLayer1
<1>2. /\ running = <<>> /\ waiting = <<>> /\ Len(running) = 0
      /\ DOMAIN frames = {}
      /\ \A r \in Requests :
           req[r].status = "NEW" /\ req[r].out = 0 /\ sched[r] = 0
  BY DEF Init, Nothing
<1>3. \A r \in Requests : MaxTokens[r] \in Nat
  BY SchedulerAssumption
<1>4. Known
  BY <1>2, <1>3, SchedulerAssumption DEF Known, KnownRow
<1>5. Service!Init
  <2>1. running \o waiting = <<>>
    BY <1>2, ConcatEmptySeq, EmptySeq
  <2> QED BY <1>2, <2>1 DEF Service!Init
<1> QED BY <1>1, <1>4, <1>5 DEF ServiceInv

(***************************************************************************)
(* The scheduler implements FcfsService: requests keep the order they      *)
(* arrived in, whatever is preempted, requeued, resumed, aborted or reset, *)
(* no more than MaxNumSeqs are served at a time, the tokens a client has   *)
(* received are never taken back and never exceed max_tokens, and who left *)
(* stays gone.                                                             *)
(***************************************************************************)
THEOREM ServesInOrder == Spec => ServiceSpec
<1>1. Init => ServiceInv /\ Service!Init
  BY InitService
<1>2. ServiceInv /\ [Next]_vars => ServiceInv' /\ [Service!Next]_(Service!vars)
  BY StepService DEF ServiceStep
<1> QED BY <1>1, <1>2, PTL DEF Spec, ServiceSpec, Service!Spec


-----------------------------------------------------------------------------
(* Layer 2: the ledger of tokens.                                          *)

\* The rows of frame f whose output still counts.
Owes(f) == f.emits \ f.stale

\* A frame samples only for requests it schedules, and a row that a reset of
\* the prefix cache made stale carries no drafts.
FramesSound ==
  \A i \in DOMAIN frames :
    /\ \A r \in Requests : frames[i].n[r] >= 0
    /\ \A r \in frames[i].emits : frames[i].n[r] > 0
    /\ frames[i].stale \subseteq frames[i].emits
    /\ \A r \in frames[i].stale : frames[i].spec[r] = 0

\* Between two calls nothing is half scheduled; within the RUNNING loop the
\* requests from the cursor on are still unscheduled.
StepOrdered ==
  /\ phase \in {"idle", "update"} =>
       sched = Nothing /\ schedSpec = Nothing /\ preempted = {}
  /\ phase = "running" =>
       \A i \in cursor..Len(running) : sched[running[i]] = 0
  /\ phase # "update" => todo = {}

\* The tokens scheduled for r end within its known tokens, or exactly at the
\* drafts scheduled with them; drafts follow the one token of a decode.
StepBooked(r) ==
  /\ sched[r] >= 0
  /\ sched[r] = 0 => schedSpec[r] = 0
  /\ sched[r] > 0 =>
       /\ req[r].status = "RUNNING"
       /\ req[r].spec = 0
       /\ \/ /\ req[r].computed + sched[r] < NumTokens(r) + req[r].ph
             /\ schedSpec[r] = 0
          \/ req[r].computed + sched[r] =
               NumTokens(r) + req[r].ph + schedSpec[r]
       /\ schedSpec[r] > 0 => req[r].computed = NumTokens(r) - 1 + req[r].ph

\* TokenAccounting of one request.
Counted(r) ==
  /\ req[r].status \in Unfinished => req[r].ph = InFlight(r)
  /\ req[r].status = "RUNNING" =>
       IF req[r].chunk \/ (r \in Scheduled /\ req[r].ph = 0)
       THEN req[r].ph = 0 /\ req[r].computed < NumTokens(r)
       ELSE req[r].computed = NumTokens(r) - 1 + req[r].ph
  /\ req[r].status = "PREEMPTED" => req[r].computed = 0

\* What a request that is not running may carry.
AtRest(r) ==
  /\ req[r].status # "RUNNING" => req[r].computed = 0 /\ req[r].spec = 0
  /\ req[r].status \in {"NEW", "WAITING", "FINISHED"} => req[r].ph = 0
  /\ req[r].status \in {"NEW", "WAITING"} =>
       /\ req[r].out = 0
       /\ \A i \in DOMAIN frames : r \notin frames[i].emits
  /\ req[r].computed >= 0
  /\ req[r].spec > 0 => ~req[r].chunk

\* No frame that can be in flight when the next step is scheduled owes a
\* preempted request anything: this is what makes it safe to resume.
Drained(r) ==
  req[r].status = "PREEMPTED" =>
    /\ Len(frames) = 2 => r \notin Owes(frames[2])
    /\ Len(frames) = 1 /\ r \notin preempted => r \notin Owes(frames[1])

\* LengthLimits of one request, with room left while it is unfinished.
Bounded(r) ==
  /\ req[r].computed + sched[r] <= MaxModelLen - 1
  /\ NumTokens(r) <= MaxModelLen
  /\ req[r].out <= MaxTokens[r]
  /\ req[r].status \in Unfinished =>
       NumTokens(r) < MaxModelLen /\ req[r].out < MaxTokens[r]

Books(r) ==
  StepBooked(r) /\ Counted(r) /\ AtRest(r) /\ Drained(r) /\ Bounded(r)

Ledger == FramesSound /\ StepOrdered /\ \A r \in Requests : Books(r)

IInv == Shape /\ Queued /\ Ledger

-----------------------------------------------------------------------------
(* Facts about frames and records the steps below use.                     *)

\* The numbers in the record of a request are integers.
LEMMA Numbers ==
  ASSUME Shape, NEW r \in Requests
  PROVE  /\ req[r].computed \in Int /\ req[r].ph \in Int /\ req[r].out \in Int
         /\ req[r].spec \in Int /\ req[r].spec >= 0 /\ req[r].out >= 0
         /\ req[r].spec <= NumSpecTokens
         /\ PromptLen[r] \in Int /\ PromptLen[r] > 0 /\ PromptLen[r] < MaxModelLen
         /\ MaxTokens[r] \in Int /\ MaxTokens[r] > 0
         /\ NumTokens(r) \in Int /\ NumTokens(r) > 0
         /\ sched[r] \in Int /\ schedSpec[r] \in Int /\ schedSpec[r] >= 0
         /\ MaxModelLen \in Int /\ NumSpecTokens \in Int /\ budget \in Int
         /\ LongPrefillThreshold \in Int
         /\ req[r].chunk \in BOOLEAN
         /\ req[r].status \in Statuses
<1>1. /\ req[r].computed \in Int /\ req[r].ph \in Int /\ req[r].out \in Nat
      /\ req[r].spec \in 0..NumSpecTokens /\ req[r].chunk \in BOOLEAN
      /\ req[r].status \in Statuses
      /\ sched[r] \in Int /\ schedSpec[r] \in 0..NumSpecTokens /\ budget \in Nat
  BY DEF Shape, ShapedRecord
<1>2. /\ PromptLen[r] \in Nat \ {0} /\ PromptLen[r] < MaxModelLen
      /\ MaxTokens[r] \in Nat \ {0}
      /\ MaxModelLen \in Nat /\ NumSpecTokens \in Nat /\ LongPrefillThreshold \in Nat
  BY SchedulerAssumption
<1>3. NumTokens(r) \in Int /\ NumTokens(r) > 0
  BY <1>1, <1>2 DEF NumTokens
<1> QED BY <1>1, <1>2, <1>3

\* What a frame owes.
LEMMA OwedFacts ==
  ASSUME Shape, FramesSound, NEW i \in 1..Len(frames), NEW r \in Requests
  PROVE  /\ frames[i] \in ShapedFrame
         /\ frames[i].spec[r] \in Int /\ frames[i].spec[r] >= 0
         /\ frames[i].emits \in SUBSET Requests
         /\ Owed(frames[i], r) =
              IF r \in Owes(frames[i]) THEN 1 + frames[i].spec[r] ELSE 0
         /\ Owes(frames[i]) \subseteq frames[i].emits
<1>1. frames[i] \in ShapedFrame
  BY ElementOfSeq DEF Shape
<1>2. frames[i].spec[r] \in 0..NumSpecTokens /\ frames[i].emits \in SUBSET Requests
  BY <1>1 DEF ShapedFrame
<1>3. frames[i].spec[r] \in Int /\ frames[i].spec[r] >= 0
  BY <1>2, SchedulerAssumption
<1> QED BY <1>1, <1>2, <1>3 DEF Owed, Owes

LEMMA FramesLen ==
  ASSUME Shape
  PROVE  /\ Len(frames) \in {0, 1, 2}
         /\ DOMAIN frames = 1..Len(frames)
         /\ frames # <<>> => Len(frames) \in {1, 2} /\ Head(frames) = frames[1]
<1>1. /\ frames \in Seq(ShapedFrame) /\ Len(frames) \in Nat /\ Len(frames) <= 2
      /\ DOMAIN frames = 1..Len(frames)
  BY LenProperties DEF Shape
<1>2. frames # <<>> => Len(frames) # 0
  BY <1>1, EmptySeq
<1> QED BY <1>1, <1>2

\* Nothing about a request changes while its record, its share of the step,
\* the frames and what they owe it stay.
LEMMA BooksFollow ==
  ASSUME NEW r \in Requests, Books(r),
         req'[r] = req[r], frames' = frames,
         sched'[r] = sched[r], schedSpec'[r] = schedSpec[r],
         preempted \subseteq preempted', InFlight(r)' = InFlight(r)
  PROVE  Books(r)'
<1>1. NumTokens(r)' = NumTokens(r)
  BY DEF NumTokens
<1>2. (r \in Scheduled)' <=> r \in Scheduled
  BY DEF Scheduled
<1> QED BY <1>1, <1>2 DEF Books, StepBooked, Counted, AtRest, Drained, Bounded

LEMMA BooksKept ==
  ASSUME NEW r \in Requests, Books(r),
         req'[r] = req[r], frames' = frames,
         sched'[r] = sched[r], schedSpec'[r] = schedSpec[r],
         preempted \subseteq preempted',
         phase # "update", phase' # "update"
  PROVE  Books(r)'
<1>1. InFlight(r)' = InFlight(r)
  BY DEF InFlight
<1> QED BY <1>1, BooksFollow

LEMMA InitLedger ==
  ASSUME Init
  PROVE  Ledger
<1>1. Len(frames) = 0 /\ DOMAIN frames = {}
  BY DEF Init
<1>2. FramesSound
  BY <1>1 DEF FramesSound
<1>3. StepOrdered
  BY DEF Init, StepOrdered
<1>4. ASSUME NEW r \in Requests
      PROVE  Books(r)
  <2>1. /\ req[r] = [status |-> "NEW", computed |-> 0, out |-> 0, ph |-> 0,
                     spec |-> 0, chunk |-> FALSE]
        /\ sched[r] = 0 /\ schedSpec[r] = 0
    BY DEF Init, Nothing
  <2>2. /\ PromptLen[r] \in Nat \ {0} /\ PromptLen[r] < MaxModelLen
        /\ MaxTokens[r] \in Nat \ {0} /\ MaxModelLen \in Nat
    BY SchedulerAssumption
  <2> QED BY <1>1, <2>1, <2>2
      DEF Books, StepBooked, Counted, AtRest, Drained, Bounded, NumTokens, Unfinished
<1> QED BY <1>2, <1>3, <1>4 DEF Ledger

LEMMA AddRequestLedger ==
  ASSUME IInv, NEW r \in Requests, AddRequest(r)
  PROVE  Ledger'
<1>1. /\ req' = [req EXCEPT ![r].status = "WAITING"] /\ req[r].status = "NEW"
      /\ UNCHANGED <<running, frames, phase, cursor, budget, sched, schedSpec,
                     preempted, todo>>
      /\ phase = "idle"
  BY DEF AddRequest, stepVars
<1>2. FramesSound' /\ StepOrdered'
  BY <1>1 DEF IInv, Ledger, FramesSound, StepOrdered, Nothing
<1>3. ASSUME NEW q \in Requests
      PROVE  Books(q)'
  <2>1. CASE q # r
    <3>1. req'[q] = req[q]
      BY <1>1, <2>1 DEF IInv, Shape
    <3> QED BY <1>1, <3>1, BooksKept DEF IInv, Ledger
  <2>2. CASE q = r
    <3>1. /\ req'[r].status = "WAITING" /\ req'[r].computed = req[r].computed
          /\ req'[r].ph = req[r].ph /\ req'[r].out = req[r].out
          /\ req'[r].spec = req[r].spec /\ req'[r].chunk = req[r].chunk
      BY <1>1 DEF IInv, Shape, ShapedRecord
    <3>2. Books(r)
      BY DEF IInv, Ledger
    <3>3. NumTokens(r)' = NumTokens(r)
      BY <3>1 DEF NumTokens
    <3>4. InFlight(r) = 0 /\ InFlight(r)' = InFlight(r)
      <4>1. \A i \in 1..Len(frames) : r \notin frames[i].emits
        BY <1>1, <3>2, FramesLen DEF IInv, Books, AtRest
      <4>2. Len(frames) \in {0, 1, 2}
        BY FramesLen DEF IInv
      <4> QED BY <1>1, <4>1, <4>2 DEF InFlight, Owed
    <3>5. sched[r] = 0
      BY <1>1, <3>2, Numbers DEF IInv, Books, StepBooked
    <3>6. NumTokens(r) < MaxModelLen /\ req[r].out < MaxTokens[r]
      <4>1. req[r].out = 0
        BY <1>1, <3>2 DEF Books, AtRest
      <4> QED BY <4>1, Numbers DEF NumTokens, IInv
    <3>7. StepBooked(r)' /\ Counted(r)' /\ AtRest(r)' /\ Drained(r)'
      BY <1>1, <3>1, <3>2, <3>3, <3>4, <3>5
      DEF Books, StepBooked, Counted, AtRest, Drained
    <3>8. Bounded(r)'
      BY <1>1, <3>1, <3>2, <3>3, <3>6 DEF Books, Bounded
    <3> QED BY <2>2, <3>7, <3>8 DEF Books
  <2> QED BY <2>1, <2>2
<1> QED BY <1>2, <1>3 DEF Ledger

\* The books of a finished request are closed.
LEMMA FinishedBooks ==
  ASSUME Shape, NEW r \in Requests, sched'[r] = 0, schedSpec'[r] = 0,
         NEW record \in ShapedRecord,
         PromptLen[r] + record.out <= MaxModelLen, record.out <= MaxTokens[r],
         req' = [req EXCEPT ![r] = Finished(record)]
  PROVE  Books(r)'
<1>1. /\ req'[r].status = "FINISHED" /\ req'[r].computed = 0 /\ req'[r].ph = 0
      /\ req'[r].spec = 0 /\ req'[r].out = record.out
  BY DEF Shape, Finished
<1>2. MaxModelLen \in Int /\ 0 <= MaxModelLen - 1
  BY Numbers
<1> QED BY <1>1, <1>2
    DEF Books, StepBooked, Counted, AtRest, Drained, Bounded, NumTokens, Unfinished

LEMMA AbortLedger ==
  ASSUME IInv, NEW r \in Requests, Abort(r)
  PROVE  Ledger'
<1>1. /\ req' = [req EXCEPT ![r] = Finished(req[r])]
      /\ UNCHANGED <<frames, phase, cursor, sched, schedSpec, preempted, todo>>
      /\ phase = "idle"
  BY DEF Abort, stepVars
<1>2. FramesSound' /\ StepOrdered'
  BY <1>1 DEF IInv, Ledger, FramesSound, StepOrdered, Nothing
<1>3. ASSUME NEW q \in Requests
      PROVE  Books(q)'
  <2>1. CASE q # r
    <3>1. req'[q] = req[q]
      BY <1>1, <2>1 DEF IInv, Shape
    <3> QED BY <1>1, <3>1, BooksKept DEF IInv, Ledger
  <2>2. CASE q = r
    <3>1. sched[r] = 0 /\ schedSpec[r] = 0
      BY <1>1 DEF IInv, Ledger, StepOrdered, Nothing
    <3>2. PromptLen[r] + req[r].out <= MaxModelLen /\ req[r].out <= MaxTokens[r]
      BY DEF IInv, Ledger, Books, Bounded, NumTokens
    <3>3. req[r] \in ShapedRecord /\ Shape
      BY DEF IInv, Shape
    <3> QED BY <1>1, <2>2, <3>1, <3>2, <3>3, FinishedBooks
  <2> QED BY <2>1, <2>2
<1> QED BY <1>2, <1>3 DEF Ledger

\* What a frame owes after a reset: nothing to the requests it preempts.
LEMMA StaleFrameOwes ==
  ASSUME NEW f \in ShapedFrame, NEW r \in Requests, Shape
  PROVE  /\ StaleFrame(f).n = f.n /\ StaleFrame(f).spec = f.spec
         /\ StaleFrame(f).emits = f.emits
         /\ \A q \in StaleFrame(f).stale : q \in f.stale \/ q \in f.emits
         /\ req[r].status = "RUNNING" => r \notin Owes(StaleFrame(f))
         /\ req[r].status # "RUNNING" =>
              (r \in Owes(StaleFrame(f)) <=> r \in Owes(f))
<1>1. /\ StaleFrame(f).n = f.n /\ StaleFrame(f).spec = f.spec
      /\ StaleFrame(f).emits = f.emits
      /\ StaleFrame(f).stale =
           f.stale \union {q \in f.emits : req[q].status = "RUNNING"}
  BY DEF StaleFrame, ShapedFrame
<1> QED BY <1>1 DEF Owes

\* No count is lost when every running request is preempted: with their
\* placeholders gone, what is in flight for them is stale.
LEMMA ResetPrefixCacheLedger ==
  ASSUME IInv, ResetModes \subseteq {"drained", "undrafted"}, ResetPrefixCache
  PROVE  Ledger'
<1>1. /\ req' = [r \in Requests |->
                  IF req[r].status = "RUNNING"
                  THEN [Preempted(req[r]) EXCEPT !.ph = 0]
                  ELSE req[r]]
      /\ frames' = [i \in DOMAIN frames |-> StaleFrame(frames[i])]
      /\ UNCHANGED <<phase, cursor, sched, schedSpec, preempted, todo>>
      /\ phase = "idle"
  BY DEF ResetPrefixCache, stepVars
<1>2. Shape /\ FramesSound /\ StepOrdered
  BY DEF IInv, Ledger
<1>3. /\ Len(frames) \in {0, 1, 2} /\ DOMAIN frames = 1..Len(frames)
      /\ Len(frames') = Len(frames) /\ DOMAIN frames' = 1..Len(frames)
      /\ \A i \in 1..Len(frames) :
           frames'[i] = StaleFrame(frames[i]) /\ frames[i] \in ShapedFrame
  <2>1. Len(frames) \in {0, 1, 2} /\ DOMAIN frames = 1..Len(frames)
    BY <1>2, FramesLen
  <2>2. DOMAIN frames' = 1..Len(frames) /\ Len(frames) \in Nat
    BY <1>1, <2>1
  <2>3. Shape'
    BY ResetPrefixCacheLayer1 DEF IInv
  <2>4. Len(frames') \in Nat /\ DOMAIN frames' = 1..Len(frames')
    BY <2>3, LenProperties DEF Shape
  <2>5. Len(frames') = Len(frames)
    <3>1. \A x, y \in Nat : 1..x = 1..y => x = y
      <4> SUFFICES ASSUME NEW x \in Nat, NEW y \in Nat, 1..x = 1..y
                   PROVE  x = y
        OBVIOUS
      <4>1. (x > 0 => x \in 1..y) /\ (y > 0 => y \in 1..x)
        OBVIOUS
      <4> QED BY <4>1
    <3> QED BY <2>2, <2>4, <3>1
  <2>6. \A i \in 1..Len(frames) : frames[i] \in ShapedFrame
    BY <1>2, ElementOfSeq DEF Shape
  <2> QED BY <1>1, <2>1, <2>2, <2>5, <2>6
<1>4. \A i \in 1..Len(frames) : \A r \in frames[i].emits : frames[i].spec[r] = 0
  <2>1. frames = <<>> \/ ResetMode = "undrafted"
    <3>1. ResetMode \in {"drained", "undrafted"}
      BY DEF ResetPrefixCache
    <3> QED BY <3>1 DEF ResetMode
  <2>2. CASE frames = <<>>
    BY <1>3, <2>2
  <2>3. CASE ResetMode = "undrafted"
    BY <1>3, <2>3 DEF ResetMode
  <2> QED BY <2>1, <2>2, <2>3
<1>5. FramesSound'
  <2>1. ASSUME NEW i \in 1..Len(frames)
        PROVE  /\ \A r \in Requests : frames'[i].n[r] >= 0
               /\ \A r \in frames'[i].emits : frames'[i].n[r] > 0
               /\ frames'[i].stale \subseteq frames'[i].emits
               /\ \A r \in frames'[i].stale : frames'[i].spec[r] = 0
    <3>1. /\ frames'[i] = StaleFrame(frames[i]) /\ frames[i] \in ShapedFrame
          /\ i \in DOMAIN frames
      BY <1>3
    <3>2. /\ \A r \in Requests : frames[i].n[r] >= 0
          /\ \A r \in frames[i].emits : frames[i].n[r] > 0
          /\ frames[i].stale \subseteq frames[i].emits
          /\ \A r \in frames[i].emits : frames[i].spec[r] = 0
      BY <1>2, <1>4, <3>1 DEF FramesSound
    <3>3. /\ frames'[i].n = frames[i].n /\ frames'[i].spec = frames[i].spec
          /\ frames'[i].emits = frames[i].emits
          /\ \A q \in frames'[i].stale :
               q \in frames[i].stale \/ q \in frames[i].emits
      BY <1>2, <3>1 DEF StaleFrame, ShapedFrame
    <3> QED BY <3>2, <3>3
  <2> QED BY <1>3, <2>1 DEF FramesSound
<1>6. StepOrdered'
  BY <1>1, <1>2 DEF StepOrdered, Nothing
<1>7. ASSUME NEW r \in Requests
      PROVE  Books(r)'
  <2>1. Books(r)
    BY DEF IInv, Ledger
  <2>2. sched[r] = 0 /\ schedSpec[r] = 0
    BY <1>1, <1>2 DEF StepOrdered, Nothing
  <2>3. ASSUME NEW i \in 1..Len(frames)
        PROVE  /\ frames'[i].spec = frames[i].spec
               /\ frames'[i].emits = frames[i].emits
               /\ req[r].status = "RUNNING" => r \notin Owes(frames'[i])
               /\ req[r].status # "RUNNING" =>
                    (r \in Owes(frames'[i]) <=> r \in Owes(frames[i]))
    BY <1>2, <1>3, StaleFrameOwes
  <2>4. CASE req[r].status = "RUNNING"
    <3>1. /\ req'[r].status = "PREEMPTED" /\ req'[r].computed = 0
          /\ req'[r].ph = 0 /\ req'[r].spec = 0 /\ req'[r].out = req[r].out
      BY <1>1, <2>4 DEF Preempted
    <3>2. NumTokens(r)' = NumTokens(r)
      BY <3>1 DEF NumTokens
    <3>3. MaxModelLen \in Int /\ 0 <= MaxModelLen - 1
      BY Numbers DEF IInv
    <3>4. \A i \in 1..Len(frames) : r \notin Owes(frames'[i])
      BY <2>3, <2>4
    <3>5. InFlight(r)' = 0
      BY <1>1, <1>3, <3>4 DEF InFlight, Owed, Owes
    <3>6. Drained(r)'
      BY <1>3, <3>4 DEF Drained, Owes
    <3> QED BY <1>1, <2>1, <2>2, <2>4, <3>1, <3>2, <3>3, <3>5, <3>6
        DEF Books, StepBooked, Counted, AtRest, Bounded, Unfinished
  <2>5. CASE req[r].status # "RUNNING"
    <3>1. req'[r] = req[r]
      BY <1>1, <2>5
    <3>2. NumTokens(r)' = NumTokens(r)
      BY <3>1 DEF NumTokens
    <3>3. \A i \in 1..Len(frames) :
            Owed(frames'[i], r) = Owed(frames[i], r)
      BY <2>3, <2>5 DEF Owed, Owes
    <3>4. InFlight(r)' = InFlight(r)
      BY <1>1, <1>3, <3>3 DEF InFlight, Owed
    <3>5. Drained(r)'
      BY <1>1, <1>3, <2>1, <2>3, <2>5, <3>1 DEF Books, Drained, Owes
    <3>6. AtRest(r)'
      BY <1>3, <2>1, <2>3, <3>1 DEF Books, AtRest
    <3> QED BY <1>1, <2>1, <2>2, <2>5, <3>1, <3>2, <3>4, <3>5, <3>6
        DEF Books, StepBooked, Counted, Bounded, Scheduled
  <2> QED BY <2>4, <2>5
<1> QED BY <1>5, <1>6, <1>7 DEF Ledger

LEMMA LoopStepsLedger ==
  ASSUME IInv,
         \/ BeginSchedule \/ SkipRunning \/ EndRunning
         \/ \E p \in PauseStates : SetPauseState(p)
  PROVE  Ledger'
<1>1. /\ UNCHANGED <<req, running, frames>>
      /\ phase # "update" /\ phase' # "update"
      /\ preempted \subseteq preempted'
      /\ UNCHANGED <<sched, schedSpec>>
      /\ StepOrdered'
  <2>1. CASE BeginSchedule
    <3>1. /\ phase = "idle" /\ phase' = "running"
          /\ sched' = Nothing /\ schedSpec' = Nothing /\ preempted' = {}
          /\ UNCHANGED <<req, running, frames, todo>>
      BY <2>1 DEF BeginSchedule, queueVars
    <3>2. sched = Nothing /\ schedSpec = Nothing /\ preempted = {}
      BY <3>1 DEF IInv, Ledger, StepOrdered
    <3>3. \A r \in Requests : sched'[r] = 0
      BY <3>1 DEF Nothing
    <3>4. \A i \in cursor'..Len(running) : running[i] \in Requests
      <4>1. cursor' = 1
        BY <2>1 DEF BeginSchedule
      <4>2. running \in Seq(Requests)
        BY DEF IInv, Queued, IsQueue
      <4> QED BY <4>1, <4>2, ElementOfSeq
    <3> QED BY <3>1, <3>2, <3>3, <3>4 DEF IInv, Ledger, StepOrdered
  <2>2. CASE SkipRunning
    <3>1. /\ UNCHANGED <<req, running, frames, phase, sched, schedSpec,
                         preempted, todo>>
          /\ phase = "running" /\ cursor' = cursor + 1
      BY <2>2 DEF SkipRunning, InRunningLoop, queueVars
    <3>2. cursor \in Nat /\ Len(running) \in Nat
      BY LenProperties DEF IInv, Shape, Queued, IsQueue
    <3>3. \A i \in cursor'..Len(running) : i \in cursor..Len(running)
      BY <3>1, <3>2
    <3> QED BY <3>1, <3>3 DEF StepOrdered, IInv, Ledger
  <2>3. CASE EndRunning
    BY <2>3 DEF EndRunning, StepOrdered, queueVars, stepVars, IInv, Ledger
  <2>4. CASE \E p \in PauseStates : SetPauseState(p)
    <3>1. /\ UNCHANGED <<req, running, frames, phase, sched, schedSpec,
                         preempted, todo>>
          /\ phase = "idle"
      BY <2>4 DEF SetPauseState, queueVars, stepVars
    <3> QED BY <3>1 DEF StepOrdered, IInv, Ledger, Nothing
  <2> QED BY <2>1, <2>2, <2>3, <2>4
<1>2. FramesSound'
  BY <1>1 DEF IInv, Ledger, FramesSound
<1>3. ASSUME NEW r \in Requests
      PROVE  Books(r)'
  BY <1>1, BooksKept DEF IInv, Ledger
<1> QED BY <1>1, <1>2, <1>3 DEF Ledger

\* A running request that may still be scheduled gets at least one token and
\* never more than it has, drafts included.
LEMMA NewTokens ==
  ASSUME IInv, NEW r \in Requests, req[r].status = "RUNNING", sched[r] = 0,
         budget > 0, NumNewTokens(r) # 0
  PROVE  /\ NumNewTokens(r) \in Int /\ NumNewTokens(r) > 0
         /\ NumNewTokens(r) <=
              NumTokens(r) + req[r].spec + req[r].ph - req[r].computed
         /\ req[r].computed + NumNewTokens(r) <= MaxModelLen - 1
<1>1. Books(r) /\ Shape
  BY DEF IInv, Ledger
<1>2. /\ req[r].computed \in Int /\ req[r].ph \in Int /\ req[r].spec \in Int
      /\ req[r].spec >= 0 /\ NumTokens(r) \in Int
      /\ MaxModelLen \in Int /\ budget \in Int /\ LongPrefillThreshold \in Int
  BY <1>1, Numbers
<1>3. NumTokens(r) + req[r].spec + req[r].ph - req[r].computed > 0
  <2>1. r \notin Scheduled
    BY DEF Scheduled
  <2> QED BY <1>1, <1>2, <2>1 DEF Books, Counted
<1>4. MaxModelLen - 1 - req[r].computed >= 0
  BY <1>1, <1>2 DEF Books, Bounded
<1> DEFINE behind == NumTokens(r) + req[r].spec + req[r].ph - req[r].computed
           room == MaxModelLen - 1 - req[r].computed
<1>5. NumNewTokens(r) = Least(Least(Capped(behind), budget), room)
  BY DEF NumNewTokens
<1>6. behind \in Int /\ room \in Int /\ behind > 0 /\ room >= 0
  BY <1>2, <1>3, <1>4
<1>7. req[r].computed + room = MaxModelLen - 1
  BY <1>2
<1> HIDE DEF behind, room
<1>8. Capped(behind) \in Int /\ Capped(behind) > 0 /\ Capped(behind) <= behind
  BY <1>2, <1>6 DEF Capped
<1>9. /\ NumNewTokens(r) \in Int /\ NumNewTokens(r) > 0
      /\ NumNewTokens(r) <= behind /\ NumNewTokens(r) <= room
  BY <1>2, <1>5, <1>6, <1>8 DEF Least
<1>10. req[r].computed + NumNewTokens(r) <= MaxModelLen - 1
  BY <1>2, <1>6, <1>7, <1>9
<1> QED BY <1>9, <1>10 DEF behind

LEMMA ScheduleRunningLedger ==
  ASSUME IInv, ScheduleRunning
  PROVE  Ledger'
<1>1. InRunningLoop /\ Shape /\ Queued
  BY DEF ScheduleRunning, IInv
<1>a. PICK r \in Requests : r = running[cursor]
  BY <1>1, RunningRequest
<1>b. PICK n \in Int : n = NumNewTokens(r)
  BY <1>1, <1>a, RunningRequest
<1>2. /\ r \in Requests /\ req[r].status = "RUNNING"
      /\ cursor \in 1..Len(running)
  BY <1>1, <1>a, RunningRequest
<1>3. /\ n # 0
      /\ sched' = [sched EXCEPT ![r] = n]
      /\ schedSpec' = [schedSpec EXCEPT ![r] = NumScheduledSpec(r, n)]
      /\ req' = [req EXCEPT ![r].spec = 0]
      /\ cursor' = cursor + 1
      /\ UNCHANGED <<running, waiting, frames, phase, preempted, todo>>
  BY <1>a, <1>b DEF ScheduleRunning, queueVars
<1>4. phase = "running" /\ budget > 0
  BY <1>1 DEF InRunningLoop
<1>5. Len(running) \in Nat /\ cursor \in Nat
  BY <1>1, LenProperties DEF Queued, IsQueue, Shape
<1>6. sched[r] = 0
  <2>1. cursor \in cursor..Len(running)
    BY <1>2, <1>5
  <2> QED BY <1>4, <1>a, <2>1 DEF IInv, Ledger, StepOrdered
<1>7. /\ n \in Int /\ n > 0
      /\ n <= NumTokens(r) + req[r].spec + req[r].ph - req[r].computed
      /\ req[r].computed + n <= MaxModelLen - 1
  BY <1>2, <1>3, <1>4, <1>6, <1>b, NewTokens
<1>8. StepOrdered'
  <2>1. ASSUME NEW i \in cursor'..Len(running)
        PROVE  sched'[running[i]] = 0
    <3>1. /\ i \in cursor..Len(running) /\ i \in 1..Len(running) /\ i # cursor
      BY <1>2, <1>3, <1>5
    <3>2. running[i] # r /\ running[i] \in Requests
      BY <1>1, <1>2, <1>a, <3>1, Members DEF Queued, IsQueue
    <3>3. sched[running[i]] = 0
      BY <1>4, <3>1 DEF IInv, Ledger, StepOrdered
    <3> QED BY <1>1, <1>3, <3>2, <3>3 DEF Shape
  <2> QED BY <1>3, <1>4, <2>1 DEF IInv, Ledger, StepOrdered
<1>9. FramesSound'
  BY <1>3 DEF IInv, Ledger, FramesSound
<1>10. Books(r)
  BY <1>2 DEF IInv, Ledger
<1>11. ASSUME NEW q \in Requests, q # r
       PROVE  Books(q)'
  <2>1. req'[q] = req[q] /\ sched'[q] = sched[q] /\ schedSpec'[q] = schedSpec[q]
    BY <1>1, <1>2, <1>3, <1>11 DEF Shape
  <2> QED BY <1>3, <1>4, <1>11, <2>1, BooksKept DEF IInv, Ledger
<1>12. Books(r)'
  <2>1. /\ req'[r].status = req[r].status /\ req'[r].computed = req[r].computed
        /\ req'[r].ph = req[r].ph /\ req'[r].out = req[r].out
        /\ req'[r].spec = 0 /\ req'[r].chunk = req[r].chunk
        /\ sched'[r] = n /\ schedSpec'[r] = NumScheduledSpec(r, n)
    BY <1>1, <1>2, <1>3 DEF Shape, ShapedRecord
  <2>2. NumTokens(r)' = NumTokens(r)
    BY <2>1 DEF NumTokens
  <2>3. InFlight(r)' = InFlight(r)
    BY <1>3, <1>4 DEF InFlight
  <2>4. /\ req[r].computed \in Int /\ req[r].ph \in Int /\ req[r].spec \in Int
        /\ req[r].spec >= 0 /\ NumTokens(r) \in Int /\ req[r].chunk \in BOOLEAN
    BY <1>1, <1>2, Numbers
  <2>5. \/ /\ req[r].computed + n < NumTokens(r) + req[r].ph
           /\ NumScheduledSpec(r, n) = 0
        \/ req[r].computed + n = NumTokens(r) + req[r].ph + NumScheduledSpec(r, n)
    BY <1>7, <2>4 DEF NumScheduledSpec, Least
  <2>a. NumScheduledSpec(r, n) > 0 =>
          req[r].computed = NumTokens(r) - 1 + req[r].ph
    <3> SUFFICES ASSUME NumScheduledSpec(r, n) > 0
                 PROVE  req[r].computed = NumTokens(r) - 1 + req[r].ph
      OBVIOUS
    <3>1. req[r].spec > 0
      BY <1>b, <2>4 DEF NumScheduledSpec, Least
    <3>2. ~req[r].chunk
      BY <1>10, <3>1 DEF Books, AtRest
    <3>3. r \notin Scheduled
      BY <1>6 DEF Scheduled
    <3> QED BY <1>2, <1>10, <3>2, <3>3 DEF Books, Counted
  <2>6. StepBooked(r)'
    BY <1>2, <1>7, <2>1, <2>2, <2>5, <2>a DEF StepBooked
  <2>7. Counted(r)'
    <3>1. (r \in Scheduled)' /\ r \notin Scheduled
      BY <1>2, <1>6, <1>7, <2>1 DEF Scheduled
    <3>2. Counted(r)
      BY <1>10 DEF Books
    <3> QED BY <1>2, <2>1, <2>2, <2>3, <2>4, <3>1, <3>2 DEF Counted
  <2>8. AtRest(r)'
    BY <1>2, <1>3, <1>10, <2>1 DEF Books, AtRest
  <2>9. Drained(r)'
    BY <1>2, <2>1 DEF Drained
  <2>10. Bounded(r)'
    BY <1>7, <1>10, <2>1, <2>2 DEF Books, Bounded
  <2> QED BY <2>6, <2>7, <2>8, <2>9, <2>10 DEF Books
<1> QED BY <1>8, <1>9, <1>11, <1>12 DEF Ledger

LEMMA PreemptLastLedger ==
  ASSUME IInv, PreemptLast
  PROVE  Ledger'
<1>1. InRunningLoop /\ Shape /\ Queued /\ phase = "running"
  BY DEF PreemptLast, IInv, InRunningLoop
<1>2. running # <<>> /\ cursor \in 1..Len(running)
  BY <1>1, RunningRequest
<1>a. PICK v \in Requests : v = Last(running)
  BY <1>1, <1>2, FrontOfQueue DEF Queued
<1>3. /\ v \in Requests /\ v \in ToSet(running) /\ v = running[Len(running)]
      /\ Len(running) \in Nat /\ Len(running) > 0
      /\ Len(Front(running)) = Len(running) - 1
      /\ \A i \in 1..(Len(running) - 1) : Front(running)[i] = running[i]
  BY <1>1, <1>2, <1>a, FrontOfQueue DEF Queued
<1>4. /\ running' = Front(running)
      /\ req' = [req EXCEPT ![v] = Preempted(req[v])]
      /\ preempted' = preempted \union {v}
      /\ UNCHANGED <<frames, phase, cursor, sched, schedSpec, todo>>
  BY <1>a DEF PreemptLast
<1>5. req[v].status = "RUNNING"
  BY <1>1, <1>3 DEF Queued
<1>6. cursor \in Nat /\ cursor >= 1 /\ cursor <= Len(running)
  BY <1>2, <1>3
<1>7. sched[v] = 0 /\ schedSpec[v] = 0
  <2>1. Len(running) \in cursor..Len(running)
    BY <1>3, <1>6
  <2> QED BY <1>1, <1>3, <2>1 DEF IInv, Ledger, StepOrdered, Books, StepBooked
<1>8. StepOrdered'
  <2>1. ASSUME NEW i \in cursor..Len(Front(running))
        PROVE  sched[Front(running)[i]] = 0
    <3>1. i \in cursor..Len(running) /\ i \in 1..(Len(running) - 1)
      <4>1. Len(Front(running)) = Len(running) - 1 /\ Len(running) \in Int
        BY <1>3
      <4>2. i \in Int /\ i >= cursor /\ i <= Len(running) - 1
        BY <4>1, <1>6
      <4> QED BY <4>1, <4>2, <1>6
    <3> QED BY <1>1, <1>3, <3>1 DEF IInv, Ledger, StepOrdered
  <2> QED BY <1>1, <1>4, <2>1 DEF IInv, Ledger, StepOrdered
<1>9. FramesSound'
  BY <1>4 DEF IInv, Ledger, FramesSound
<1>10. ASSUME NEW q \in Requests, q # v
       PROVE  Books(q)'
  <2>1. req'[q] = req[q]
    BY <1>1, <1>3, <1>4, <1>10 DEF Shape
  <2> QED BY <1>1, <1>4, <2>1, BooksKept DEF IInv, Ledger
<1>11. Books(v)'
  <2>1. /\ req'[v].status = "PREEMPTED" /\ req'[v].computed = 0
        /\ req'[v].ph = req[v].ph /\ req'[v].out = req[v].out
        /\ req'[v].spec = 0
    BY <1>1, <1>3, <1>4 DEF Shape, Preempted
  <2>2. NumTokens(v)' = NumTokens(v)
    BY <2>1 DEF NumTokens
  <2>3. InFlight(v)' = InFlight(v)
    BY <1>1, <1>4 DEF InFlight
  <2>4. Books(v) /\ Len(frames) < 2
    BY <1>1, <1>3 DEF IInv, Ledger, Shape
  <2>5. v \in preempted'
    BY <1>4
  <2>6. MaxModelLen \in Int /\ 0 <= MaxModelLen - 1 /\ Len(frames) # 2
    <3>1. MaxModelLen \in Int /\ 0 <= MaxModelLen - 1
      <4>1. PromptLen[v] \in Nat \ {0} /\ PromptLen[v] < MaxModelLen
            /\ MaxModelLen \in Nat
        BY <1>3, SchedulerAssumption
      <4> QED BY <4>1
    <3> QED BY <3>1, <2>4
  <2> QED BY <1>4, <1>5, <1>7, <2>1, <2>2, <2>3, <2>4, <2>5, <2>6
      DEF Books, StepBooked, Counted, AtRest, Drained, Bounded, Unfinished
<1> QED BY <1>8, <1>9, <1>10, <1>11 DEF Ledger

\* The request at the head of the line has nothing in flight when schedule()
\* reaches the waiting loop.
LEMMA AdmitDrained ==
  ASSUME IInv, InWaitingLoop
  PROVE  InFlight(Head(waiting)) = 0
<1>1. Shape /\ Queued
  BY DEF IInv
<1>2. PICK r \in Requests : r = Head(waiting)
  BY <1>1, WaitingRequest
<1>3. req[r].status \in {"WAITING", "PREEMPTED"} /\ Books(r)
  BY <1>1, <1>2, WaitingRequest DEF IInv, Ledger
<1>4. phase = "waiting" /\ preempted = {}
  BY DEF InWaitingLoop
<1>5. CASE req[r].status = "WAITING"
  <2>1. \A i \in 1..Len(frames) : r \notin frames[i].emits
    BY <1>1, <1>3, <1>5, FramesLen DEF Books, AtRest
  <2>2. Len(frames) \in {0, 1, 2}
    BY <1>1, FramesLen
  <2> QED BY <1>2, <2>1, <2>2 DEF InFlight, Owed
<1>6. CASE req[r].status = "PREEMPTED"
  <2>1. Len(frames) \in {0, 1}
    <3>1. Len(frames) < 2
      BY <1>1, <1>4 DEF Shape
    <3> QED BY <1>1, <3>1, FramesLen
  <2>2. Len(frames) = 1 => r \notin Owes(frames[1])
    BY <1>3, <1>4, <1>6 DEF Books, Drained
  <2> QED BY <1>2, <2>1, <2>2 DEF InFlight, Owed, Owes
<1> QED BY <1>3, <1>5, <1>6

LEMMA AdmitLedger ==
  ASSUME IInv, Admit
  PROVE  Ledger'
<1>1. InWaitingLoop /\ Shape /\ Queued
  BY DEF Admit, IInv
<1>a. PICK r \in Requests : r = Head(waiting)
  BY <1>1, WaitingRequest
<1>2. PICK hit \in CachedPrefixes(r) :
        LET n == NumPrefillTokens(r, hit)
        IN  /\ sched' = [sched EXCEPT ![r] = n]
            /\ req' = [req EXCEPT ![r].status = "RUNNING", ![r].computed = hit]
  BY <1>a DEF Admit
<1>b. PICK n \in Int : n = NumPrefillTokens(r, hit)
  BY <1>1, <1>2, <1>a, WaitingRequest
<1>3. /\ r \in Requests /\ req[r].status \in {"WAITING", "PREEMPTED"}
      /\ hit \in Int /\ 0 <= hit /\ n \in Int
  BY <1>1, <1>2, <1>a, WaitingRequest
<1>4. /\ phase = "waiting" /\ preempted = {} /\ budget > 0
      /\ UNCHANGED <<frames, phase, schedSpec, preempted, todo>>
  BY <1>1 DEF InWaitingLoop, Admit
<1>5. /\ NumTokens(r) \in Int /\ NumTokens(r) > 0 /\ req[r].ph \in Int
      /\ budget \in Int /\ LongPrefillThreshold \in Int /\ MaxModelLen \in Int
  BY <1>1, <1>3, Numbers
<1>6. n > 0 /\ hit + n <= NumTokens(r) /\ hit < NumTokens(r)
  <2>1. hit < NumTokens(r)
    BY <1>2, <1>5 DEF CachedPrefixes
  <2>2. n = Least(Capped(NumTokens(r) - hit), budget)
    BY <1>b DEF NumPrefillTokens
  <2> QED BY <1>3, <1>4, <1>5, <2>1, <2>2 DEF Least, Capped
<1>7. Books(r)
  BY <1>3 DEF IInv, Ledger
<1>8. /\ sched' = [sched EXCEPT ![r] = n]
      /\ req' = [req EXCEPT ![r].status = "RUNNING", ![r].computed = hit]
  BY <1>2, <1>b
<1>9. InFlight(r) = 0
  BY <1>1, <1>a, AdmitDrained
<1>10. req[r].ph = 0 /\ sched[r] = 0 /\ schedSpec[r] = 0
  <2>1. req[r].ph = 0
    BY <1>3, <1>7, <1>9 DEF Books, Counted, Unfinished
  <2>2. ~(sched[r] > 0)
    BY <1>3, <1>7 DEF Books, StepBooked
  <2>3. sched[r] \in Int
    BY <1>1, <1>3, Numbers
  <2> QED BY <1>7, <2>1, <2>2, <2>3 DEF Books, StepBooked
<1>11. FramesSound' /\ StepOrdered'
  BY <1>4 DEF IInv, Ledger, FramesSound, StepOrdered
<1>12. ASSUME NEW q \in Requests, q # r
       PROVE  Books(q)'
  <2>1. req'[q] = req[q] /\ sched'[q] = sched[q] /\ schedSpec'[q] = schedSpec[q]
    BY <1>1, <1>3, <1>4, <1>8, <1>12 DEF Shape
  <2> QED BY <1>4, <1>12, <2>1, BooksKept DEF IInv, Ledger
<1>13. Books(r)'
  <2>1. /\ req'[r].status = "RUNNING" /\ req'[r].computed = hit
        /\ req'[r].ph = 0 /\ req'[r].out = req[r].out
        /\ req'[r].spec = req[r].spec /\ req'[r].chunk = req[r].chunk
        /\ sched'[r] = n /\ schedSpec'[r] = 0
    BY <1>1, <1>3, <1>4, <1>8, <1>10 DEF Shape, ShapedRecord
  <2>2. NumTokens(r)' = NumTokens(r)
    BY <2>1 DEF NumTokens
  <2>3. InFlight(r)' = 0
    BY <1>4, <1>9 DEF InFlight
  <2>4. req[r].spec = 0
    BY <1>3, <1>7 DEF Books, AtRest
  <2>5. StepBooked(r)'
    BY <1>3, <1>5, <1>6, <2>1, <2>2, <2>4 DEF StepBooked
  <2>6. (r \in Scheduled)'
    BY <1>3, <1>6, <2>1 DEF Scheduled
  <2>7. Counted(r)'
    BY <1>3, <1>6, <2>1, <2>2, <2>3, <2>6 DEF Counted
  <2>8. AtRest(r)' /\ Drained(r)'
    BY <1>3, <2>1, <2>4 DEF AtRest, Drained
  <2>9. Bounded(r)'
    <3>1. NumTokens(r) < MaxModelLen /\ req[r].out < MaxTokens[r]
      BY <1>3, <1>7 DEF Books, Bounded, Unfinished
    <3> QED BY <1>3, <1>5, <1>6, <1>7, <2>1, <2>2, <3>1 DEF Books, Bounded
  <2> QED BY <2>5, <2>7, <2>8, <2>9 DEF Books
<1> QED BY <1>11, <1>12, <1>13 DEF Ledger

\* A step leaves the engine: what it samples becomes owed by its frame.
LEMMA EndScheduleLedger ==
  ASSUME IInv, EndSchedule
  PROVE  Ledger'
<1> DEFINE f == [n |-> sched, spec |-> schedSpec, emits |-> SampledRows,
                 stale |-> {}]
<1>1. /\ req' = [r \in Requests |->
                  IF r \in Scheduled THEN Advanced(r) ELSE req[r]]
      /\ frames' = Append(frames, f)
      /\ phase = "waiting" /\ phase' = "idle" /\ todo' = todo
      /\ sched' = Nothing /\ schedSpec' = Nothing /\ preempted' = {}
  BY DEF EndSchedule, WaitingLoopOver
<1>2. Shape /\ FramesSound /\ \A r \in Requests : Books(r)
  BY DEF IInv, Ledger
<1>3. /\ Len(frames) \in Nat /\ Len(frames) \in {0, 1}
      /\ Len(frames') = Len(frames) + 1
      /\ DOMAIN frames = 1..Len(frames)
      /\ DOMAIN frames' = 1..(Len(frames) + 1)
      /\ \A i \in 1..Len(frames) : frames'[i] = frames[i]
      /\ frames'[Len(frames) + 1] = f
  <2>1. frames \in Seq(ShapedFrame) /\ Len(frames) < 2
    BY <1>1, <1>2 DEF Shape
  <2>2. Len(frames) \in Nat /\ DOMAIN frames = 1..Len(frames)
    BY <2>1, LenProperties
  <2>3. f \in ShapedFrame
    BY <1>2 DEF Shape, ShapedFrame, SampledRows, Scheduled
  <2> HIDE DEF f
  <2>4. /\ frames' \in Seq(ShapedFrame)
        /\ Len(frames') = Len(frames) + 1
        /\ \A i \in 1..Len(frames) : frames'[i] = frames[i]
        /\ frames'[Len(frames) + 1] = f
    BY <1>1, <2>1, <2>3, AppendProperties
  <2>5. DOMAIN frames' = 1..Len(frames')
    BY <2>4, LenProperties
  <2> QED BY <2>1, <2>2, <2>4, <2>5
<1>4. FramesSound'
  <2>1. \A r \in Requests : f.n[r] >= 0
    BY <1>2 DEF Books, StepBooked
  <2>2. f.stale = {} /\ \A r \in f.emits : f.n[r] > 0
    BY DEF SampledRows, Scheduled
  <2> HIDE DEF f
  <2>3. ASSUME NEW i \in 1..(Len(frames) + 1)
        PROVE  /\ \A r \in Requests : frames'[i].n[r] >= 0
               /\ \A r \in frames'[i].emits : frames'[i].n[r] > 0
               /\ frames'[i].stale \subseteq frames'[i].emits
               /\ \A r \in frames'[i].stale : frames'[i].spec[r] = 0
    <3>1. CASE i = Len(frames) + 1
      BY <1>3, <2>1, <2>2, <3>1
    <3>2. CASE i # Len(frames) + 1
      <4>1. i \in 1..Len(frames) /\ frames'[i] = frames[i]
        BY <1>3, <3>2
      <4> QED BY <1>2, <1>3, <4>1 DEF FramesSound
    <3> QED BY <3>1, <3>2
  <2> QED BY <1>3, <2>3 DEF FramesSound
<1>5. StepOrdered'
  BY <1>1 DEF IInv, Ledger, StepOrdered, Nothing
<1>6. ASSUME NEW r \in Requests
      PROVE  /\ InFlight(r)' = InFlight(r) + Owed(f, r)
             /\ InFlight(r) \in Int
             /\ Owed(f, r) = IF r \in SampledRows THEN 1 + schedSpec[r] ELSE 0
             /\ sched'[r] = 0 /\ schedSpec'[r] = 0
  <2>1. Owed(f, r) = IF r \in SampledRows THEN 1 + schedSpec[r] ELSE 0
    BY DEF Owed
  <2>2. Owed(f, r) \in Int
    BY <1>2, <2>1, Numbers
  <2>3. sched'[r] = 0 /\ schedSpec'[r] = 0
    BY <1>1 DEF Nothing
  <2> HIDE DEF f
  <2>4. CASE Len(frames) = 0
    <3>1. InFlight(r) = 0
      BY <2>4 DEF InFlight
    <3>2. InFlight(r)' = Owed(f, r)
      BY <1>1, <1>3, <2>2, <2>4 DEF InFlight, Owed
    <3> QED BY <2>1, <2>2, <2>3, <3>1, <3>2
  <2>5. CASE Len(frames) = 1
    <3>1. Owed(frames[1], r) \in Int
      BY <1>2, <2>5, OwedFacts
    <3>2. InFlight(r) = Owed(frames[1], r)
      BY <1>1, <2>5, <3>1 DEF InFlight
    <3>3. frames'[1] = frames[1] /\ frames'[2] = f
      BY <1>3, <2>5
    <3>4. InFlight(r)' = Owed(frames[1], r) + Owed(f, r)
      BY <1>1, <1>3, <2>5, <3>3 DEF InFlight, Owed
    <3> QED BY <2>1, <2>3, <3>1, <3>2, <3>4
  <2> QED BY <1>3, <2>4, <2>5
<1>7. f.emits = SampledRows
  OBVIOUS
<1> HIDE DEF f
<1>8. ASSUME NEW r \in Requests, r \notin Scheduled
      PROVE  Books(r)'
  <2>1. /\ req'[r] = req[r] /\ r \notin SampledRows
        /\ sched[r] = 0 /\ schedSpec[r] = 0
    <3>1. sched[r] \in Int /\ sched[r] >= 0 /\ ~(sched[r] > 0)
      BY <1>2, <1>8, Numbers DEF Scheduled, Books, StepBooked
    <3> QED BY <1>1, <1>2, <1>8, <3>1 DEF SampledRows, Books, StepBooked
  <2>2. InFlight(r)' = InFlight(r)
    BY <1>6, <2>1
  <2>3. NumTokens(r)' = NumTokens(r)
    BY <2>1 DEF NumTokens
  <2>4. ~(r \in Scheduled)'
    BY <1>6 DEF Scheduled
  <2>5. StepBooked(r)' /\ Counted(r)' /\ Bounded(r)'
    BY <1>2, <1>6, <1>8, <2>1, <2>2, <2>3, <2>4
    DEF Books, StepBooked, Counted, Bounded
  <2>6. AtRest(r)'
    <3>1. ASSUME \A i \in DOMAIN frames : r \notin frames[i].emits,
                 NEW i \in 1..(Len(frames) + 1)
          PROVE  r \notin frames'[i].emits
      <4>1. CASE i = Len(frames) + 1
        BY <1>3, <1>7, <2>1, <4>1
      <4>2. CASE i # Len(frames) + 1
        <5>1. i \in 1..Len(frames)
          BY <1>3, <4>2
        <5> QED BY <1>3, <3>1, <5>1
      <4> QED BY <4>1, <4>2
    <3> QED BY <1>2, <1>3, <2>1, <3>1 DEF Books, AtRest
  <2>7. Drained(r)'
    <3>1. r \notin Owes(f)
      BY <1>7, <2>1 DEF Owes
    <3>2. Len(frames') = 2 => r \notin Owes(frames'[2])
      BY <1>3, <3>1
    <3>3. Len(frames') = 1 => r \notin Owes(frames'[1])
      BY <1>3, <3>1
    <3> QED BY <3>2, <3>3 DEF Drained, Owes
  <2> QED BY <2>5, <2>6, <2>7 DEF Books
<1>9. ASSUME NEW r \in Requests, r \in Scheduled
      PROVE  Books(r)'
  <2>1. /\ req[r].status = "RUNNING" /\ req[r].spec = 0 /\ sched[r] > 0
        /\ \/ /\ req[r].computed + sched[r] < NumTokens(r) + req[r].ph
              /\ schedSpec[r] = 0
           \/ req[r].computed + sched[r] =
                NumTokens(r) + req[r].ph + schedSpec[r]
    BY <1>2, <1>9 DEF Books, StepBooked, Scheduled
  <2>2. /\ req[r].computed \in Int /\ req[r].ph \in Int
        /\ sched[r] \in Int /\ schedSpec[r] \in Int /\ schedSpec[r] >= 0
        /\ NumTokens(r) \in Int
    BY <1>2, Numbers
  <2>3. /\ req[r].ph = InFlight(r)
        /\ \/ req[r].ph = 0 /\ req[r].computed < NumTokens(r)
           \/ req[r].computed = NumTokens(r) - 1 + req[r].ph
    BY <1>2, <2>1 DEF Books, Counted, Unfinished
  <2>4. /\ req'[r] = Advanced(r)
        /\ req'[r].status = "RUNNING"
        /\ req'[r].computed = req[r].computed + sched[r]
        /\ req'[r].out = req[r].out
        /\ req'[r].chunk =
             (req[r].computed + sched[r] < NumTokens(r) + req[r].ph)
        /\ req'[r].ph = IF req'[r].chunk THEN req[r].ph
                        ELSE req[r].ph + 1 + schedSpec[r]
        /\ req'[r].chunk => req'[r].spec = 0
    BY <1>1, <1>9, <2>1 DEF Advanced
  <2>5. r \in SampledRows <=> ~req'[r].chunk
    BY <1>9, <2>4 DEF SampledRows
  <2>6. NumTokens(r)' = NumTokens(r)
    BY <2>4 DEF NumTokens
  <2>7. ~(r \in Scheduled)'
    BY <1>6 DEF Scheduled
  <2>8. Counted(r)'
    <3>1. CASE req'[r].chunk
      <4>1. req[r].computed + sched[r] < NumTokens(r) + req[r].ph
        BY <2>4, <3>1
      <4>2. req[r].ph = 0
        BY <2>1, <2>2, <2>3, <4>1
      <4>3. req'[r].ph = 0 /\ req'[r].computed < NumTokens(r)
        BY <2>4, <3>1, <4>1, <4>2, <2>2
      <4>4. InFlight(r)' = 0
        <5>1. Owed(f, r) = 0
          BY <1>6, <2>5, <3>1
        <5>2. InFlight(r)' = InFlight(r) + Owed(f, r)
          BY <1>6
        <5>3. InFlight(r) = 0
          BY <2>3, <4>2
        <5> QED BY <5>1, <5>2, <5>3
      <4> QED BY <2>4, <2>6, <2>7, <3>1, <4>3, <4>4 DEF Counted
    <3>2. CASE ~req'[r].chunk
      <4>1. req[r].computed + sched[r] = NumTokens(r) + req[r].ph + schedSpec[r]
        BY <2>1, <2>4, <3>2
      <4>2. req'[r].ph = req[r].ph + 1 + schedSpec[r]
        BY <2>4, <3>2
      <4>3. InFlight(r)' = req'[r].ph
        BY <1>6, <2>2, <2>3, <2>5, <3>2, <4>2
      <4>4. req'[r].computed = NumTokens(r) - 1 + req'[r].ph
        BY <2>2, <2>4, <4>1, <4>2
      <4> QED BY <2>4, <2>6, <2>7, <3>2, <4>3, <4>4 DEF Counted
    <3> QED BY <3>1, <3>2
  <2>9. StepBooked(r)' /\ Drained(r)'
    BY <1>6, <2>4 DEF StepBooked, Drained
  <2>10. AtRest(r)'
    BY <1>2, <2>1, <2>2, <2>4 DEF Books, AtRest
  <2>11. Bounded(r)'
    BY <1>2, <1>6, <2>1, <2>2, <2>4, <2>6 DEF Books, Bounded, Unfinished
  <2> QED BY <2>8, <2>9, <2>10, <2>11 DEF Books
<1> QED BY <1>4, <1>5, <1>8, <1>9 DEF Ledger

-----------------------------------------------------------------------------
(* update_from_output().                                                   *)

\* What the frames in flight owe r while the oldest is being updated.
LEMMA UpdateInFlight ==
  ASSUME Shape, FramesSound, phase = "update", NEW r \in Requests
  PROVE  \E rest \in Int :
           /\ rest >= 0
           /\ rest = IF Len(frames) = 2 THEN Owed(frames[2], r) ELSE 0
           /\ InFlight(r) = rest + (IF r \in todo THEN Owed(frames[1], r) ELSE 0)
<1>1. Len(frames) \in {1, 2} /\ 1 \in 1..Len(frames)
  BY FramesLen DEF Shape
<1>2. Owed(frames[1], r) \in Int
  BY <1>1, OwedFacts
<1>3. CASE Len(frames) = 1
  BY <1>2, <1>3 DEF InFlight
<1>4. CASE Len(frames) = 2
  <2>1. Owed(frames[2], r) \in Int /\ Owed(frames[2], r) >= 0
    <3>1. 2 \in 1..Len(frames)
      BY <1>4
    <3> QED BY <3>1, OwedFacts
  <2> QED BY <1>2, <1>4, <2>1 DEF InFlight
<1> QED BY <1>1, <1>3, <1>4

LEMMA BeginUpdateLedger ==
  ASSUME IInv, BeginUpdate
  PROVE  Ledger'
<1>1. /\ UNCHANGED <<req, running, frames, cursor, sched, schedSpec, preempted>>
      /\ phase = "idle" /\ phase' = "update" /\ frames # <<>>
      /\ todo' = {r \in Requests : Head(frames).n[r] > 0}
  BY DEF BeginUpdate, queueVars, stepVars
<1>2. Shape /\ FramesSound /\ \A r \in Requests : Books(r)
  BY DEF IInv, Ledger
<1>3. FramesSound' /\ StepOrdered'
  BY <1>1, <1>2 DEF IInv, Ledger, FramesSound, StepOrdered
<1>4. /\ 1 \in 1..Len(frames) /\ 1 \in DOMAIN frames
      /\ Head(frames) = frames[1]
  BY <1>1, <1>2, FramesLen
<1>5. ASSUME NEW r \in Requests
      PROVE  Books(r)'
  <2>1. r \in frames[1].emits => r \in todo'
    BY <1>1, <1>2, <1>4 DEF FramesSound
  <2>2. r \notin frames[1].emits => Owed(frames[1], r) = 0
    BY <1>2, <1>4, OwedFacts
  <2>3. InFlight(r)' = InFlight(r)
    BY <1>1, <2>1, <2>2 DEF InFlight, Owed
  <2> QED BY <1>1, <1>2, <2>3, BooksFollow
<1> QED BY <1>3, <1>5 DEF Ledger

\* Visiting a row leaves the books of every other request alone.
LEMMA OtherRequestsKept ==
  ASSUME IInv, NEW r \in Requests, NEW q \in Requests, q # r,
         Visit(r), req'[q] = req[q],
         UNCHANGED <<frames, phase, sched, schedSpec, preempted>>
  PROVE  Books(q)'
<1>1. q \in todo' <=> q \in todo
  BY DEF Visit
<1>2. InFlight(q)' = InFlight(q)
  BY <1>1 DEF InFlight
<1> QED BY <1>2, BooksFollow DEF IInv, Ledger

\* A row without accepted tokens leaves every record as it is, the stale row
\* of a step without drafts included: it owes nothing.
LEMMA RowsKeepRecords ==
  ASSUME IInv, NEW r \in Requests,
         SkipFinished(r) \/ EmptyRow(r) \/ DiscardTokens(r)
  PROVE  /\ req' = req
         /\ ~SkipFinished(r) => r \notin Owes(frames[1])
<1>1. phase = "update" /\ Shape /\ FramesSound
  BY DEF SkipFinished, EmptyRow, DiscardTokens, Visit, IInv, Ledger
<1>2. 1 \in DOMAIN frames /\ Head(frames) = frames[1]
  BY <1>1, FramesLen DEF Shape
<1>3. req[r] \in ShapedRecord /\ req \in [Requests -> ShapedRecord]
  BY <1>1 DEF Shape
<1>4. CASE SkipFinished(r)
  BY <1>4 DEF SkipFinished
<1>5. CASE EmptyRow(r)
  <2>1. PICK d \in Reported(req[r]) :
          req' = [req EXCEPT ![r] = Resized(req[r], 0, d)]
    BY <1>5 DEF EmptyRow
  <2>2. Resized(req[r], 0, d) = req[r]
    BY DEF Resized
  <2>3. r \notin Owes(frames[1])
    BY <1>2, <1>5 DEF EmptyRow, Owes
  <2> QED BY <1>3, <2>1, <2>2, <2>3
<1>6. CASE DiscardTokens(r)
  <2>1. PICK generated \in 1..(Head(frames).spec[r] + 1) :
          \E d \in Reported(Corrected(r, generated)) :
            req' = [req EXCEPT
                     ![r] = Resized(Corrected(r, generated), 0, d)]
    BY <1>6 DEF DiscardTokens
  <2>2. PICK d : req' = [req EXCEPT
                     ![r] = Resized(Corrected(r, generated), 0, d)]
    BY <2>1
  <2>3. r \in frames[1].stale /\ frames[1].spec[r] = 0
    BY <1>1, <1>2, <1>6 DEF DiscardTokens, FramesSound
  <2>4. NumRejected(r, generated) = 0
    BY <1>2, <2>3 DEF NumRejected
  <2>5. Corrected(r, generated) = req[r]
    <3>1. PICK c, p \in Int : c = req[r].computed /\ p = req[r].ph
      BY <1>3 DEF ShapedRecord
    <3>2. /\ (IF c > 0 THEN c - 0 ELSE c) = c
          /\ (IF p > 0 THEN p - 0 ELSE p) = p
      BY <3>1
    <3>3. Corrected(r, generated) = [req[r] EXCEPT !.computed = c, !.ph = p]
      BY <2>4, <3>1, <3>2 DEF Corrected
    <3>4. [req[r] EXCEPT !.computed = c, !.ph = p] = req[r]
      BY <1>3, <3>1 DEF ShapedRecord
    <3> QED BY <3>3, <3>4
  <2>6. Resized(Corrected(r, generated), 0, d) = req[r]
    BY <2>5 DEF Resized
  <2>7. r \notin Owes(frames[1])
    BY <2>3 DEF Owes
  <2> QED BY <1>3, <2>2, <2>6, <2>7
<1> QED BY <1>4, <1>5, <1>6

LEMMA OtherRowsLedger ==
  ASSUME IInv, NEW r \in Requests,
         SkipFinished(r) \/ EmptyRow(r) \/ DiscardTokens(r)
  PROVE  Ledger'
<1>1. /\ UNCHANGED <<running, frames, phase, cursor, sched, schedSpec, preempted>>
      /\ Visit(r) /\ phase = "update" /\ r \in todo /\ todo' = todo \ {r}
  BY DEF SkipFinished, EmptyRow, DiscardTokens, Visit, queueVars, stepVars
<1>2. Shape /\ FramesSound /\ \A q \in Requests : Books(q)
  BY DEF IInv, Ledger
<1>3. FramesSound' /\ StepOrdered'
  BY <1>1 DEF IInv, Ledger, FramesSound, StepOrdered
<1>4. 1 \in DOMAIN frames /\ 1 \in 1..Len(frames) /\ Head(frames) = frames[1]
  BY <1>1, <1>2, FramesLen DEF Shape
<1>5. SkipFinished(r) \/ r \notin Owes(frames[1])
  BY RowsKeepRecords
<1>6. req' = req
  BY RowsKeepRecords
<1>7. ASSUME NEW q \in Requests, q # r
      PROVE  Books(q)'
  BY <1>1, <1>6, <1>7, OtherRequestsKept
<1>8. Books(r)'
  <2>1. CASE SkipFinished(r)
    <3>1. req[r].status = "FINISHED" /\ req'[r].status = "FINISHED"
      BY <1>6, <2>1 DEF SkipFinished
    <3>2. NumTokens(r)' = NumTokens(r)
      BY <1>6 DEF NumTokens
    <3> QED BY <1>1, <1>2, <1>6, <3>1, <3>2
        DEF Books, StepBooked, Counted, AtRest, Drained, Bounded, Unfinished
  <2>2. CASE r \notin Owes(frames[1])
    <3>1. Owed(frames[1], r) = 0
      BY <1>2, <1>4, <2>2, OwedFacts
    <3>2. InFlight(r)' = InFlight(r)
      BY <1>1, <3>1 DEF InFlight, Owed
    <3> QED BY <1>1, <1>2, <1>6, <3>2, BooksFollow
  <2> QED BY <1>5, <2>1, <2>2
<1> QED BY <1>3, <1>7, <1>8 DEF Ledger

\* The counts of a request whose output is taken: the rejected drafts leave
\* both counters, the kept tokens leave the placeholders.
LEMMA KeptCounts ==
  ASSUME IInv, NEW r \in Requests, phase = "update", r \in todo,
         r \in Owes(Head(frames)), req[r].status # "FINISHED",
         NEW generated \in 1..(Head(frames).spec[r] + 1),
         NEW kept \in 1..generated
  PROVE  LET drafts == frames[1].spec[r]
             record == Kept(r, generated, kept)
         IN  /\ generated \in Int /\ kept \in Int /\ kept > 0
             /\ drafts \in Int /\ kept <= generated /\ generated <= drafts + 1
             /\ req[r].status \in {"RUNNING", "PREEMPTED"}
             /\ InFlight(r) \in Int /\ InFlight(r) >= 1 + drafts
             /\ record.ph = InFlight(r) - (drafts + 1 - generated) - kept
             /\ record.spec = req[r].spec /\ record.chunk = req[r].chunk
             /\ req[r].status = "RUNNING" =>
                  /\ ~req[r].chunk
                  /\ record.computed =
                       NumTokens(r) - 1 + InFlight(r) - (drafts + 1 - generated)
             /\ req[r].status = "PREEMPTED" => record.computed = 0
<1>1. Shape /\ Queued /\ FramesSound /\ Books(r) /\ StepOrdered
  BY DEF IInv, Ledger
<1>2. 1 \in 1..Len(frames) /\ 1 \in DOMAIN frames /\ Head(frames) = frames[1]
  BY <1>1, FramesLen DEF Shape
<1>3. PICK drafts \in Int : drafts = frames[1].spec[r] /\ drafts >= 0
  BY <1>1, <1>2, OwedFacts
<1>4. /\ generated \in Int /\ kept \in Int /\ kept > 0
      /\ kept <= generated /\ generated >= 1 /\ generated <= drafts + 1
  BY <1>2, <1>3
<1>5. req[r].status \in {"RUNNING", "PREEMPTED"}
  <2>1. req[r].status \notin {"NEW", "WAITING"}
    BY <1>1, <1>2 DEF Books, AtRest, Owes
  <2>2. req[r].status \in Statuses
    BY <1>1, Numbers
  <2> QED BY <2>1, <2>2 DEF Statuses
<1>6. InFlight(r) \in Int /\ InFlight(r) >= 1 + drafts
  <2>1. Owed(frames[1], r) = 1 + drafts
    BY <1>1, <1>2, <1>3, OwedFacts
  <2>2. PICK rest \in Int :
          /\ rest >= 0
          /\ InFlight(r) = rest + (IF r \in todo THEN Owed(frames[1], r) ELSE 0)
    BY <1>1, UpdateInFlight
  <2> QED BY <1>3, <2>1, <2>2
<1>7. req[r].ph = InFlight(r)
  BY <1>1, <1>5 DEF Books, Counted, Unfinished
<1>8. NumRejected(r, generated) = drafts + 1 - generated
  BY <1>2, <1>3, <1>4 DEF NumRejected
<1>9. /\ req[r].computed \in Int /\ req[r].ph \in Int /\ req[r] \in ShapedRecord
      /\ NumTokens(r) \in Int /\ NumTokens(r) > 0
  BY <1>1, Numbers DEF Shape
<1>10. req[r].status = "RUNNING" =>
         ~req[r].chunk /\ req[r].computed = NumTokens(r) - 1 + InFlight(r)
  <2>1. r \notin Scheduled
    BY <1>1 DEF StepOrdered, Scheduled, Nothing
  <2>2. req[r].ph > 0
    BY <1>3, <1>6, <1>7
  <2> QED BY <1>1, <1>7, <1>9, <2>1, <2>2 DEF Books, Counted
<1>11. req[r].status = "PREEMPTED" => req[r].computed = 0
  BY <1>1 DEF Books, Counted
<1>12. /\ Kept(r, generated, kept).ph =
            (IF req[r].ph > 0 THEN req[r].ph - NumRejected(r, generated)
             ELSE req[r].ph) - kept
       /\ Kept(r, generated, kept).computed =
            (IF req[r].computed > 0
             THEN req[r].computed - NumRejected(r, generated)
             ELSE req[r].computed)
       /\ Kept(r, generated, kept).spec = req[r].spec
       /\ Kept(r, generated, kept).chunk = req[r].chunk
  BY <1>9 DEF Kept, Corrected, ShapedRecord
<1>13. Kept(r, generated, kept).ph =
         InFlight(r) - (drafts + 1 - generated) - kept
  BY <1>3, <1>4, <1>6, <1>7, <1>8, <1>12
<1>14. req[r].status = "RUNNING" =>
         Kept(r, generated, kept).computed =
           NumTokens(r) - 1 + InFlight(r) - (drafts + 1 - generated)
  BY <1>3, <1>6, <1>8, <1>9, <1>10, <1>12
<1>15. req[r].status = "PREEMPTED" => Kept(r, generated, kept).computed = 0
  BY <1>11, <1>12
<1> QED BY <1>3, <1>4, <1>5, <1>6, <1>10, <1>12, <1>13, <1>14, <1>15

\* The status of a request whose tokens are taken stays, or it finishes.
LEMMA AcceptedRecord ==
  ASSUME Shape, NEW r \in Requests, AcceptTokens(r)
  PROVE  \E record \in ShapedRecord :
           /\ record.status \in {req[r].status, "FINISHED"}
           /\ req' = [req EXCEPT ![r] = record]
<1>1. PICK generated \in 1..(Head(frames).spec[r] + 1) :
      \E kept \in 1..generated :
        \/ req' = [req EXCEPT ![r] = Finished(Kept(r, generated, kept))]
        \/ \E d \in Reported(Kept(r, generated, kept)) :
             req' = [req EXCEPT ![r] = Resized(Kept(r, generated, kept), kept, d)]
  BY DEF AcceptTokens, Kept
<1>2. PICK kept \in 1..generated :
        \/ req' = [req EXCEPT ![r] = Finished(Kept(r, generated, kept))]
        \/ \E d \in Reported(Kept(r, generated, kept)) :
             req' = [req EXCEPT ![r] = Resized(Kept(r, generated, kept), kept, d)]
  BY <1>1
<1>3. phase = "update"
  BY DEF AcceptTokens, Visit
<1>4. PICK record \in ShapedRecord :
        record = Kept(r, generated, kept) /\ record.status = req[r].status
  BY <1>3, KeptShape
<1>5. CASE req' = [req EXCEPT ![r] = Finished(record)]
  <2>1. 0 \in 0..NumSpecTokens /\ record.out \in Nat
    BY <1>4, SchedulerAssumption DEF ShapedRecord
  <2>2. Finished(record) \in ShapedRecord /\ Finished(record).status = "FINISHED"
    BY <2>1 DEF Finished, ShapedRecord, Statuses
  <2> QED BY <1>5, <2>2
<1>6. CASE \E d \in Reported(record) :
             req' = [req EXCEPT ![r] = Resized(record, kept, d)]
  <2>1. PICK d \in Reported(record) :
          req' = [req EXCEPT ![r] = Resized(record, kept, d)]
    BY <1>6
  <2>2. kept \in Int
    BY <1>3, KeptShape
  <2>3. /\ Resized(record, kept, d) \in ShapedRecord
        /\ Resized(record, kept, d).status = record.status
    BY <2>2, ResizedShape
  <2> QED BY <1>4, <2>1, <2>3
<1> QED BY <1>2, <1>4, <1>5, <1>6

LEMMA AcceptTokensLedger ==
  ASSUME IInv, NEW r \in Requests, AcceptTokens(r)
  PROVE  Ledger'
<1>1. /\ Visit(r) /\ phase = "update" /\ r \in todo /\ todo' = todo \ {r}
      /\ req[r].status # "FINISHED"
      /\ r \in Owes(Head(frames))
      /\ UNCHANGED <<frames, phase, cursor, sched, schedSpec, preempted>>
  BY DEF AcceptTokens, Visit, stepVars, Owes
<1>2. Shape /\ FramesSound /\ StepOrdered /\ Books(r)
  BY DEF IInv, Ledger
<1>3. 1 \in 1..Len(frames) /\ Len(frames) \in {1, 2} /\ Head(frames) = frames[1]
  BY <1>1, <1>2, FramesLen DEF Shape
<1>4. sched = Nothing /\ schedSpec = Nothing /\ sched[r] = 0 /\ schedSpec[r] = 0
  BY <1>1, <1>2 DEF StepOrdered, Nothing
<1>5. FramesSound' /\ StepOrdered'
  BY <1>1, <1>2 DEF FramesSound, StepOrdered
<1>6. PICK generated \in 1..(Head(frames).spec[r] + 1) :
      \E kept \in 1..generated :
        \/ /\ StopsAfter(r, generated, kept, TRUE)
           /\ req' = [req EXCEPT ![r] = Finished(Kept(r, generated, kept))]
        \/ /\ StopsAfter(r, generated, kept, FALSE)
           /\ \E d \in Reported(Kept(r, generated, kept)) :
                req' = [req EXCEPT
                         ![r] = Resized(Kept(r, generated, kept), kept, d)]
  BY DEF AcceptTokens, Kept
<1>7. PICK kept \in 1..generated :
        \/ /\ StopsAfter(r, generated, kept, TRUE)
           /\ req' = [req EXCEPT ![r] = Finished(Kept(r, generated, kept))]
        \/ /\ StopsAfter(r, generated, kept, FALSE)
           /\ \E d \in Reported(Kept(r, generated, kept)) :
                req' = [req EXCEPT
                         ![r] = Resized(Kept(r, generated, kept), kept, d)]
  BY <1>6
<1>8. PICK record \in ShapedRecord : record = Kept(r, generated, kept)
  BY <1>1, <1>2, KeptShape
<1>9. PICK drafts \in Int : drafts = frames[1].spec[r]
  BY <1>2, <1>3, OwedFacts
<1>10. /\ generated \in Int /\ kept \in Int /\ kept > 0
       /\ kept <= generated /\ generated <= drafts + 1
       /\ req[r].status \in {"RUNNING", "PREEMPTED"}
       /\ InFlight(r) \in Int /\ InFlight(r) >= 1 + drafts
       /\ record.ph = InFlight(r) - (drafts + 1 - generated) - kept
       /\ record.spec = req[r].spec /\ record.chunk = req[r].chunk
       /\ req[r].status = "RUNNING" =>
            /\ ~req[r].chunk
            /\ record.computed =
                 NumTokens(r) - 1 + InFlight(r) - (drafts + 1 - generated)
       /\ req[r].status = "PREEMPTED" => record.computed = 0
  BY <1>1, <1>8, <1>9, KeptCounts
<1>11. record.status = req[r].status /\ record.out = req[r].out + kept
  BY <1>1, <1>2, <1>8, KeptShape
<1>12. /\ req[r].computed \in Int /\ req[r].out \in Int
       /\ PromptLen[r] \in Int /\ MaxTokens[r] \in Int /\ MaxModelLen \in Int
       /\ NumTokens(r) = PromptLen[r] + req[r].out
  BY <1>2, Numbers DEF NumTokens
<1>13. ASSUME NEW q \in Requests, q # r
       PROVE  Books(q)'
  <2>1. req'[q] = req[q]
    BY <1>2, <1>7, <1>13 DEF Shape
  <2> QED BY <1>1, <1>13, <2>1, OtherRequestsKept
<1>14. CASE /\ StopsAfter(r, generated, kept, TRUE)
            /\ req' = [req EXCEPT ![r] = Finished(record)]
  <2>1. /\ PromptLen[r] + record.out <= MaxModelLen
        /\ record.out <= MaxTokens[r]
    <3>1. kept <= Room(r)
      BY <1>14 DEF StopsAfter
    <3> QED BY <1>10, <1>11, <1>12, <3>1 DEF Room, Least
  <2>2. Books(r)'
    BY <1>1, <1>2, <1>4, <1>14, <2>1, FinishedBooks
  <2> QED BY <1>5, <1>13, <2>2 DEF Ledger
<1>15. CASE /\ StopsAfter(r, generated, kept, FALSE)
            /\ \E d \in Reported(record) :
                 req' = [req EXCEPT ![r] = Resized(record, kept, d)]
  <2>1. kept = generated /\ kept < Room(r)
    <3>1. Room(r) \in Int
      BY <1>12 DEF Room, Least
    <3> QED BY <1>10, <1>15, <3>1 DEF StopsAfter
  <2>2. PICK d \in Reported(record) :
          req' = [req EXCEPT ![r] = Resized(record, kept, d)]
    BY <1>15
  <2>3. /\ req'[r].status = req[r].status
        /\ req'[r].computed = record.computed /\ req'[r].ph = record.ph
        /\ req'[r].out = req[r].out + kept /\ req'[r].chunk = req[r].chunk
        /\ req[r].status = "PREEMPTED" => req'[r].spec = req[r].spec
    <3>1. req'[r] = Resized(record, kept, d)
      BY <1>2, <2>2 DEF Shape
    <3>2. /\ Resized(record, kept, d).status = record.status
          /\ Resized(record, kept, d).computed = record.computed
          /\ Resized(record, kept, d).ph = record.ph
          /\ Resized(record, kept, d).out = record.out
          /\ Resized(record, kept, d).chunk = record.chunk
          /\ record.status = "PREEMPTED" =>
               Resized(record, kept, d).spec = record.spec
      BY DEF Resized, ShapedRecord
    <3> QED BY <1>10, <1>11, <3>1, <3>2
  <2>4. NumTokens(r)' = NumTokens(r) + kept
    BY <1>10, <1>12, <2>3 DEF NumTokens
  <2>5. InFlight(r)' = InFlight(r) - (1 + drafts) /\ NumTokens(r) \in Int
    <3>1. PICK rest \in Int :
            /\ rest = IF Len(frames) = 2 THEN Owed(frames[2], r) ELSE 0
            /\ InFlight(r) =
                 rest + (IF r \in todo THEN Owed(frames[1], r) ELSE 0)
      BY <1>1, <1>2, UpdateInFlight
    <3>2. Owed(frames[1], r) = 1 + drafts
      BY <1>1, <1>2, <1>3, <1>9, OwedFacts
    <3>3. InFlight(r)' = rest
      BY <1>1, <1>3, <3>1 DEF InFlight, Owed
    <3> QED BY <1>1, <1>2, <1>9, <3>1, <3>2, <3>3, Numbers
  <2>6. req'[r].ph = InFlight(r)'
    BY <1>10, <2>1, <2>3, <2>5
  <2>7. req[r].status = "RUNNING" =>
          /\ req'[r].computed = NumTokens(r)' - 1 + req'[r].ph
          /\ req'[r].computed <= req[r].computed
          /\ req'[r].computed >= 0
    <3> SUFFICES ASSUME req[r].status = "RUNNING"
                 PROVE  /\ req'[r].computed = NumTokens(r)' - 1 + req'[r].ph
                        /\ req'[r].computed <= req[r].computed
                        /\ req'[r].computed >= 0
      OBVIOUS
    <3>1. req'[r].computed =
            NumTokens(r) - 1 + InFlight(r) - (drafts + 1 - generated)
      BY <1>10, <2>3
    <3>2. req'[r].computed = NumTokens(r)' - 1 + req'[r].ph
      BY <1>10, <2>1, <2>4, <2>5, <2>6, <3>1
    <3>3. req[r].computed = NumTokens(r) - 1 + InFlight(r)
      <4>1. r \notin Scheduled /\ ~req[r].chunk
        BY <1>4, <1>10 DEF Scheduled
      <4> QED BY <1>2, <4>1 DEF Books, Counted, Unfinished
    <3>4. NumTokens(r) > 0 /\ drafts >= 0
      BY <1>2, <1>3, <1>9, Numbers, OwedFacts
    <3> QED BY <1>10, <2>1, <2>5, <3>1, <3>2, <3>3, <3>4
  <2>8. ~(r \in Scheduled)' /\ sched'[r] = 0 /\ schedSpec'[r] = 0
    BY <1>1, <1>4 DEF Scheduled
  <2>9. StepBooked(r)'
    BY <2>8 DEF StepBooked
  <2>10. Counted(r)'
    BY <1>10, <2>3, <2>6, <2>7, <2>8 DEF Counted
  <2>11. AtRest(r)'
    BY <1>2, <1>10, <2>3, <2>7 DEF Books, AtRest
  <2>12. Drained(r)'
    BY <1>1, <1>2, <2>3 DEF Books, Drained
  <2>13. Bounded(r)'
    <3>1. /\ NumTokens(r)' < MaxModelLen /\ req'[r].out < MaxTokens[r]
      BY <1>10, <1>12, <2>1, <2>3, <2>4 DEF Room, Least
    <3>2. req'[r].computed + sched'[r] <= MaxModelLen - 1
      <4>1. req[r].computed + sched[r] <= MaxModelLen - 1
        BY <1>2 DEF Books, Bounded
      <4>2. 0 <= MaxModelLen - 1
        BY <1>2, Numbers
      <4>3. CASE req[r].status = "RUNNING"
        <5>1. req'[r].computed \in Int
          BY <1>10, <2>3, <2>5, <4>3
        <5> QED BY <1>4, <1>12, <2>7, <2>8, <4>1, <4>3, <5>1
      <4>4. CASE req[r].status = "PREEMPTED"
        <5>1. req'[r].computed = 0
          BY <1>10, <2>3, <4>4
        <5> QED BY <2>8, <4>2, <5>1
      <4> QED BY <1>10, <4>3, <4>4
    <3>3. NumTokens(r)' \in Int /\ req'[r].out \in Int
      BY <1>10, <1>12, <2>3, <2>4
    <3> QED BY <1>12, <3>1, <3>2, <3>3 DEF Bounded
  <2> QED BY <1>5, <1>13, <2>9, <2>10, <2>11, <2>12, <2>13 DEF Ledger, Books
<1> QED BY <1>7, <1>8, <1>14, <1>15

LEMMA EndUpdateLedger ==
  ASSUME IInv, EndUpdate
  PROVE  Ledger'
<1>1. /\ phase = "update" /\ phase' = "idle" /\ todo = {} /\ todo' = {}
      /\ frames' = Tail(frames)
      /\ UNCHANGED <<req, running, cursor, sched, schedSpec, preempted>>
  BY DEF EndUpdate, queueVars, stepVars
<1>2. Shape /\ FramesSound /\ StepOrdered /\ \A r \in Requests : Books(r)
  BY DEF IInv, Ledger
<1>3. /\ Len(frames) \in {1, 2} /\ DOMAIN frames = 1..Len(frames)
      /\ Len(frames') = Len(frames) - 1
      /\ DOMAIN frames' = 1..(Len(frames) - 1)
      /\ \A i \in 1..(Len(frames) - 1) : frames'[i] = frames[i + 1]
  <2>1. frames \in Seq(ShapedFrame) /\ frames # <<>>
    BY <1>1, <1>2 DEF Shape
  <2>2. Len(frames) \in {1, 2} /\ DOMAIN frames = 1..Len(frames)
    BY <1>2, <2>1, FramesLen
  <2>3. /\ frames' \in Seq(ShapedFrame)
        /\ Len(frames') = Len(frames) - 1
        /\ \A i \in 1..Len(frames') : frames'[i] = frames[i + 1]
    BY <1>1, <2>1, HeadTailProperties
  <2>4. DOMAIN frames' = 1..Len(frames')
    BY <2>3, LenProperties
  <2> QED BY <2>2, <2>3, <2>4
<1>4. \A i \in DOMAIN frames' : i + 1 \in DOMAIN frames /\ frames'[i] = frames[i + 1]
  BY <1>3
<1>5. FramesSound'
  BY <1>2, <1>4 DEF FramesSound
<1>6. StepOrdered'
  BY <1>1, <1>2 DEF StepOrdered
<1>7. ASSUME NEW r \in Requests
      PROVE  Books(r)'
  <2>1. NumTokens(r)' = NumTokens(r)
    BY <1>1 DEF NumTokens
  <2>2. InFlight(r)' = InFlight(r)
    <3>1. PICK rest \in Int :
            /\ rest = IF Len(frames) = 2 THEN Owed(frames[2], r) ELSE 0
            /\ InFlight(r) =
                 rest + (IF r \in todo THEN Owed(frames[1], r) ELSE 0)
      BY <1>1, <1>2, UpdateInFlight
    <3>2. InFlight(r) = rest
      BY <1>1, <3>1
    <3>3. CASE Len(frames) = 1
      BY <1>1, <1>3, <3>1, <3>2, <3>3 DEF InFlight
    <3>4. CASE Len(frames) = 2
      <4>1. Len(frames') = 1 /\ frames'[1] = frames[2]
        BY <1>3, <3>4
      <4>2. rest = IF r \in frames'[1].emits \ frames'[1].stale
                   THEN 1 + frames'[1].spec[r] ELSE 0
        BY <3>1, <3>4, <4>1 DEF Owed
      <4>3. InFlight(r)' = rest
        BY <1>1, <4>1, <4>2 DEF InFlight, Owed
      <4> QED BY <3>2, <4>3
    <3> QED BY <1>3, <3>3, <3>4
  <2>3. (r \in Scheduled)' <=> r \in Scheduled
    BY <1>1 DEF Scheduled
  <2>4. StepBooked(r)' /\ Counted(r)' /\ Bounded(r)'
    BY <1>1, <1>2, <2>1, <2>2, <2>3 DEF Books, StepBooked, Counted, Bounded
  <2>5. AtRest(r)'
    BY <1>1, <1>2, <1>4 DEF Books, AtRest
  <2>6. Drained(r)'
    BY <1>1, <1>2, <1>3 DEF Books, Drained
  <2> QED BY <2>4, <2>5, <2>6 DEF Books
<1> QED BY <1>5, <1>6, <1>7 DEF Ledger

-----------------------------------------------------------------------------
(* The theorems.                                                           *)

LEMMA StepLedger ==
  ASSUME ResetModes \subseteq {"drained", "undrafted"}, IInv, [Next]_vars
  PROVE  IInv'
<1>1. Shape' /\ Queued'
  BY StepLayer1 DEF IInv
<1>2. CASE ScheduleStep
  BY <1>1, <1>2, LoopStepsLedger, ScheduleRunningLedger, PreemptLastLedger,
     AdmitLedger, EndScheduleLedger DEF ScheduleStep, IInv
<1>3. CASE UpdateStep
  BY <1>1, <1>3, BeginUpdateLedger, OtherRowsLedger, AcceptTokensLedger,
     EndUpdateLedger DEF UpdateStep, IInv
<1>4. CASE ClientStep
  BY <1>1, <1>4, AddRequestLedger, AbortLedger DEF ClientStep, IInv
<1>5. CASE OperatorStep
  BY <1>1, <1>5, LoopStepsLedger, ResetPrefixCacheLedger DEF OperatorStep, IInv
<1>6. CASE UNCHANGED vars
  <2>1. UNCHANGED <<req, running, frames, phase, cursor, sched, schedSpec,
                    preempted, todo>>
    BY <1>6 DEF vars, queueVars, stepVars
  <2>2. FramesSound' /\ StepOrdered'
    BY <2>1 DEF IInv, Ledger, FramesSound, StepOrdered
  <2>3. ASSUME NEW r \in Requests
        PROVE  Books(r)'
    <3>1. InFlight(r)' = InFlight(r)
      BY <2>1 DEF InFlight
    <3> QED BY <2>1, <3>1, BooksFollow DEF IInv, Ledger
  <2> QED BY <1>1, <2>2, <2>3 DEF IInv, Ledger
<1> QED BY <1>2, <1>3, <1>4, <1>5, <1>6 DEF Next, EngineStep

(***************************************************************************)
(* Shape, queues and accounting hold in every reachable state of an engine *)
(* whose prefix cache is not reset with draft tokens in flight.            *)
(***************************************************************************)
THEOREM IInvHolds ==
  ASSUME ResetModes \subseteq {"drained", "undrafted"}
  PROVE  Spec => []IInv
<1>1. Init => IInv
  BY InitLayer1, InitLedger DEF IInv
<1>2. IInv /\ [Next]_vars => IInv'
  BY StepLedger
<1> QED BY <1>1, <1>2, PTL DEF Spec

(***************************************************************************)
(* Type correctness: above all that num_computed_tokens and                *)
(* num_output_placeholders, which update_from_output lowers by the drafts  *)
(* rejected and by the tokens kept, never become negative.                 *)
(***************************************************************************)
THEOREM TypeCorrect ==
  ASSUME ResetModes \subseteq {"drained", "undrafted"}
  PROVE  Spec => []TypeOK
<1>1. ASSUME IInv
      PROVE  TypeOK
  <2>1. Shape /\ Queued /\ FramesSound /\ \A r \in Requests : Books(r)
    BY <1>1 DEF IInv, Ledger
  <2>2. frames \in Seq(Frame)
    <3>1. frames \in Seq(ShapedFrame) /\ DOMAIN frames = 1..Len(frames)
      BY <2>1, LenProperties DEF Shape
    <3>2. ASSUME NEW i \in 1..Len(frames)
          PROVE  frames[i] \in Frame
      <4>1. frames[i] \in ShapedFrame
        BY <3>1, ElementOfSeq
      <4>2. frames[i].n \in [Requests -> Nat]
        <5>1. frames[i].n \in [Requests -> Int]
          BY <4>1 DEF ShapedFrame
        <5>2. \A r \in Requests : frames[i].n[r] >= 0
          BY <2>1, <3>1 DEF FramesSound
        <5>3. \A r \in Requests : frames[i].n[r] \in Nat
          BY <5>1, <5>2
        <5> QED BY <5>1, <5>3
      <4>3. frames[i] = [n |-> frames[i].n, spec |-> frames[i].spec,
                         emits |-> frames[i].emits, stale |-> frames[i].stale]
        BY <4>1 DEF ShapedFrame
      <4>4. /\ frames[i].spec \in [Requests -> 0..NumSpecTokens]
            /\ frames[i].emits \in SUBSET Requests
            /\ frames[i].stale \in SUBSET Requests
        BY <4>1 DEF ShapedFrame
      <4> QED BY <4>2, <4>3, <4>4 DEF Frame
    <3>3. Len(frames) \in Nat /\ frames \in [1..Len(frames) -> ShapedFrame]
      BY <3>1, LenProperties
    <3>4. frames \in [1..Len(frames) -> Frame]
      BY <3>2, <3>3
    <3> QED BY <3>3, <3>4, SeqDef
  <2>3. ASSUME NEW r \in Requests
        PROVE  req[r] \in RequestRecord /\ sched[r] \in Nat
    <3>1. InFlight(r) \in Nat
      <4>1. ASSUME NEW i \in 1..Len(frames)
            PROVE  Owed(frames[i], r) \in Nat
        BY <2>1, OwedFacts
      <4>2. Len(frames) \in {0, 1, 2}
        BY <2>1, FramesLen
      <4> QED BY <4>1, <4>2 DEF InFlight
    <3>2. req[r].ph \in Nat
      <4>1. CASE req[r].status \in Unfinished
        BY <2>1, <3>1, <4>1 DEF Books, Counted
      <4>2. CASE req[r].status \notin Unfinished
        <5>1. req[r].status \in Statuses
          BY <2>1, Numbers
        <5> QED BY <2>1, <4>2, <5>1 DEF Books, AtRest, Statuses, Unfinished
      <4> QED BY <4>1, <4>2
    <3>3. req[r] \in ShapedRecord /\ req[r].computed \in Nat
      BY <2>1 DEF Shape, ShapedRecord, Books, AtRest
    <3>4. sched[r] \in Nat
      BY <2>1 DEF Shape, Books, StepBooked
    <3> QED BY <3>2, <3>3, <3>4 DEF ShapedRecord, RequestRecord
  <2>4. waiting \in Seq(Requests) /\ running \in Seq(Requests)
    BY <2>1 DEF Queued, IsQueue
  <2>5. /\ req \in [Requests -> RequestRecord]
        /\ sched \in [Requests -> Nat]
    BY <2>1, <2>3 DEF Shape
  <2> QED BY <2>1, <2>2, <2>4, <2>5 DEF Shape, TypeOK
<1> QED BY <1>1, IInvHolds, PTL

(***************************************************************************)
(* The counters of every unfinished request agree with what the frames in  *)
(* flight may still deliver, for every interleaving of two batches with    *)
(* rejections, preemptions, resumptions and stops.                         *)
(***************************************************************************)
THEOREM TokensAccounted ==
  ASSUME ResetModes \subseteq {"drained", "undrafted"}
  PROVE  Spec => []TokenAccounting
<1>1. IInv => TokenAccounting
  BY DEF IInv, Ledger, Books, Counted, TokenAccounting
<1> QED BY <1>1, IInvHolds, PTL

(***************************************************************************)
(* schedule() never computes a position at max_model_len - 1 or beyond,    *)
(* and no request outgrows max_model_len or max_tokens, although drafts    *)
(* and placeholders run ahead of what has been verified.                   *)
(***************************************************************************)
THEOREM LengthsLimited ==
  ASSUME ResetModes \subseteq {"drained", "undrafted"}
  PROVE  Spec => []LengthLimits
<1>1. IInv => LengthLimits
  BY DEF IInv, Ledger, Books, Bounded, LengthLimits
<1> QED BY <1>1, IInvHolds, PTL

(***************************************************************************)
(* Drafts ride only on a decode step, right behind its one verified token. *)
(***************************************************************************)
THEOREM DraftsOnDecode ==
  ASSUME ResetModes \subseteq {"drained", "undrafted"}
  PROVE  Spec => []DraftsOnlyOnDecode
<1>1. ASSUME IInv
      PROVE  DraftsOnlyOnDecode
  <2> SUFFICES ASSUME NEW r \in Requests, schedSpec[r] > 0
               PROVE  /\ req[r].computed = NumTokens(r) - 1 + req[r].ph
                      /\ sched[r] = 1 + schedSpec[r]
    BY DEF DraftsOnlyOnDecode
  <2>1. Shape /\ StepBooked(r)
    BY <1>1 DEF IInv, Ledger, Books
  <2>2. /\ req[r].computed \in Int /\ req[r].ph \in Int
        /\ NumTokens(r) \in Int /\ sched[r] \in Int /\ schedSpec[r] \in Int
    BY <2>1, Numbers
  <2>3. sched[r] > 0
    BY <2>1, <2>2 DEF StepBooked
  <2>4. /\ req[r].computed + sched[r] = NumTokens(r) + req[r].ph + schedSpec[r]
        /\ req[r].computed = NumTokens(r) - 1 + req[r].ph
    BY <2>1, <2>2, <2>3 DEF StepBooked
  <2> QED BY <2>2, <2>4
<1> QED BY <1>1, IInvHolds, PTL

\* A step that gives a request its first tokens of the step in progress.
LEMMA FirstTokens ==
  ASSUME IInv, [Next]_vars, NEW r \in Requests, sched[r] = 0, sched'[r] > 0
  PROVE  \/ ScheduleRunning /\ InRunningLoop /\ r = running[cursor]
         \/ Admit /\ InWaitingLoop /\ r = Head(waiting)
<1>1. Shape /\ Queued
  BY DEF IInv
<1>2. \/ ScheduleRunning \/ Admit
  <2> SUFFICES ASSUME ~ScheduleRunning, ~Admit
               PROVE  sched' = sched \/ sched' = Nothing
    BY DEF Nothing
  <2>1. CASE ScheduleStep
    BY <2>1 DEF ScheduleStep, BeginSchedule, SkipRunning, PreemptLast,
       EndRunning, EndSchedule, stepVars
  <2>2. CASE UpdateStep
    BY <2>2 DEF UpdateStep, BeginUpdate, SkipFinished, EmptyRow, AcceptTokens,
       DiscardTokens, EndUpdate, stepVars
  <2>3. CASE ClientStep
    BY <2>3 DEF ClientStep, AddRequest, Abort, stepVars
  <2>4. CASE OperatorStep
    BY <2>4 DEF OperatorStep, SetPauseState, ResetPrefixCache, stepVars
  <2>5. CASE UNCHANGED vars
    BY <2>5 DEF vars, stepVars
  <2> QED BY <2>1, <2>2, <2>3, <2>4, <2>5 DEF Next, EngineStep
<1>3. CASE ScheduleRunning
  <2>1. sched' = [sched EXCEPT ![running[cursor]] = NumNewTokens(running[cursor])]
    BY <1>3 DEF ScheduleRunning
  <2>2. r = running[cursor]
    BY <1>1, <2>1 DEF Shape
  <2> QED BY <1>3, <2>2 DEF ScheduleRunning
<1>4. CASE Admit
  <2>1. PICK hit \in CachedPrefixes(Head(waiting)) :
          sched' = [sched EXCEPT
                     ![Head(waiting)] = NumPrefillTokens(Head(waiting), hit)]
    BY <1>4 DEF Admit
  <2>2. r = Head(waiting)
    BY <1>1, <2>1 DEF Shape
  <2> QED BY <1>4, <2>2 DEF Admit
<1> QED BY <1>2, <1>3, <1>4

(***************************************************************************)
(* schedule() gives no step to a request whose last token is already       *)
(* certain to come out of a frame in flight, even if every draft in flight *)
(* is rejected: the guard on num_output_placeholders is exact.             *)
(***************************************************************************)
THEOREM NoStepWasted ==
  ASSUME ResetModes \subseteq {"drained", "undrafted"}
  PROVE  Spec => NoWastedStep
<1> DEFINE Useful == \A r \in Requests :
             sched[r] = 0 /\ sched'[r] > 0 /\ InFlight(r) > 0
               => req[r].out + 1 < MaxTokens[r]
<1>1. ASSUME IInv, [Next]_vars
      PROVE  Useful
  <2> SUFFICES ASSUME NEW r \in Requests, sched[r] = 0, sched'[r] > 0,
                      InFlight(r) > 0
               PROVE  req[r].out + 1 < MaxTokens[r]
    OBVIOUS
  <2>1. CASE ScheduleRunning /\ InRunningLoop /\ r = running[cursor]
    <3>1. Shape /\ Queued /\ Books(r)
      BY <1>1 DEF IInv, Ledger
    <3>2. req[r].status = "RUNNING" /\ r \notin Scheduled
      BY <2>1, <3>1, RunningRequest DEF Scheduled
    <3>3. /\ req[r].computed \in Int /\ req[r].ph \in Int /\ req[r].out \in Int
          /\ PromptLen[r] \in Int /\ MaxTokens[r] \in Int
          /\ NumTokens(r) = PromptLen[r] + req[r].out
      BY <3>1, Numbers DEF NumTokens
    <3>4. req[r].ph > 0
      BY <3>1, <3>2 DEF Books, Counted, Unfinished
    <3>5. req[r].computed = NumTokens(r) - 1 + req[r].ph
      BY <3>1, <3>2, <3>3, <3>4 DEF Books, Counted
    <3>6. ~OutputCertain(r)
      BY <2>1 DEF ScheduleRunning
    <3>7. ~(req[r].computed + 2 - req[r].ph >= PromptLen[r] + MaxTokens[r])
      BY <3>4, <3>6 DEF OutputCertain
    <3> QED BY <3>3, <3>5, <3>7
  <2>2. CASE Admit /\ InWaitingLoop /\ r = Head(waiting)
    <3>1. InFlight(r) = 0
      BY <1>1, <2>2, AdmitDrained
    <3> QED BY <3>1
  <2> QED BY <1>1, <2>1, <2>2, FirstTokens
<1>2. ASSUME IInv, [Next]_vars
      PROVE  [Useful]_vars
  BY <1>1, <1>2
<1> QED BY <1>2, IInvHolds, PTL DEF Spec, NoWastedStep

\* Only the waiting loop turns a preempted request into a running one.
LEMMA OnlyAdmitResumes ==
  ASSUME IInv, [Next]_vars, NEW r \in Requests,
         req[r].status = "PREEMPTED", req'[r].status = "RUNNING"
  PROVE  InWaitingLoop /\ r = Head(waiting)
<1>1. Shape /\ Queued
  BY DEF IInv
<1>2. req[r] \in ShapedRecord
  BY <1>1 DEF Shape
<1>3. CASE Admit
  <2>1. PICK hit \in CachedPrefixes(Head(waiting)) :
          req' = [req EXCEPT ![Head(waiting)].status = "RUNNING",
                             ![Head(waiting)].computed = hit]
    BY <1>3 DEF Admit
  <2>2. r = Head(waiting)
    BY <1>1, <2>1 DEF Shape
  <2> QED BY <1>3, <2>2 DEF Admit
<1>4. ~ScheduleRunning
  <2> SUFFICES ASSUME ScheduleRunning
               PROVE  FALSE
    OBVIOUS
  <2>1. req' = [req EXCEPT ![running[cursor]].spec = 0]
    BY DEF ScheduleRunning
  <2> QED BY <1>1, <1>2, <2>1 DEF Shape, ShapedRecord
<1>5. ~PreemptLast
  <2> SUFFICES ASSUME PreemptLast
               PROVE  FALSE
    OBVIOUS
  <2>1. req' = [req EXCEPT ![Last(running)] = Preempted(req[Last(running)])]
    BY DEF PreemptLast
  <2> QED BY <1>1, <2>1 DEF Shape, Preempted
<1>6. ~EndSchedule
  <2> SUFFICES ASSUME EndSchedule
               PROVE  FALSE
    OBVIOUS
  <2>1. req' = [q \in Requests |->
                  IF q \in Scheduled THEN Advanced(q) ELSE req[q]]
    BY DEF EndSchedule
  <2> QED BY <2>1 DEF Advanced
<1>7. ASSUME NEW q \in Requests
      PROVE  ~(SkipFinished(q) \/ EmptyRow(q) \/ DiscardTokens(q))
  <2> SUFFICES ASSUME SkipFinished(q) \/ EmptyRow(q) \/ DiscardTokens(q)
               PROVE  FALSE
    OBVIOUS
  <2>1. req' = req
    BY RowsKeepRecords
  <2> QED BY <2>1
<1>8. ASSUME NEW q \in Requests
      PROVE  ~AcceptTokens(q)
  <2> SUFFICES ASSUME AcceptTokens(q)
               PROVE  FALSE
    OBVIOUS
  <2>1. \E record \in ShapedRecord :
          /\ record.status \in {req[q].status, "FINISHED"}
          /\ req' = [req EXCEPT ![q] = record]
    BY <1>1, AcceptedRecord
  <2> QED BY <1>1, <2>1 DEF Shape
<1>9. ASSUME NEW q \in Requests
      PROVE  ~AddRequest(q) /\ ~Abort(q)
  <2>1. ~AddRequest(q)
    BY <1>1, <1>2 DEF AddRequest, Shape, ShapedRecord
  <2>2. ~Abort(q)
    <3> SUFFICES ASSUME Abort(q)
                 PROVE  FALSE
      OBVIOUS
    <3>1. req' = [req EXCEPT ![q] = Finished(req[q])]
      BY DEF Abort
    <3>2. Finished(req[q]).status = "FINISHED"
      BY DEF Finished
    <3> QED BY <1>1, <3>1, <3>2 DEF Shape
  <2> QED BY <2>1, <2>2
<1>10. ~ResetPrefixCache
  BY DEF ResetPrefixCache
<1>11. req' # req
  OBVIOUS
<1> QED
  BY <1>3, <1>4, <1>5, <1>6, <1>7, <1>8, <1>9, <1>10, <1>11
  DEF Next, EngineStep, ScheduleStep, UpdateStep, ClientStep, OperatorStep,
      BeginSchedule, SkipRunning, EndRunning, BeginUpdate, EndUpdate,
      SetPauseState, vars

(***************************************************************************)
(* A preempted request is resumed only once no frame in flight holds       *)
(* tokens for it: schedule() admits no request in a step that preempts,    *)
(* and by the next step the older frame has been updated.                  *)
(***************************************************************************)
THEOREM ResumesDrained ==
  ASSUME ResetModes \subseteq {"drained", "undrafted"}
  PROVE  Spec => ResumeDrained
<1> DEFINE Resumes == \A r \in Requests :
             req[r].status = "PREEMPTED" /\ req'[r].status = "RUNNING"
               => InFlight(r) = 0
<1>1. ASSUME IInv, [Next]_vars
      PROVE  [Resumes]_vars
  <2> SUFFICES ASSUME NEW r \in Requests, req[r].status = "PREEMPTED",
                      req'[r].status = "RUNNING"
               PROVE  InFlight(r) = 0
    OBVIOUS
  <2> QED BY <1>1, AdmitDrained, OnlyAdmitResumes
<1> QED BY <1>1, IInvHolds, PTL DEF Spec, ResumeDrained

(***************************************************************************)
(* What a reset made stale leaves no trace in its request, as long as the  *)
(* stale step carries no drafts: its row is visited once, and the counts   *)
(* taken before the stale mark is looked at are those of no rejection.     *)
(***************************************************************************)
THEOREM StaleRowsDropped ==
  ASSUME ResetModes \subseteq {"drained", "undrafted"}
  PROVE  Spec => StaleFramesDiscarded
<1> DEFINE Dropped == \A r \in todo \ todo' :
             frames # <<>> /\ r \in Head(frames).stale => req'[r] = req[r]
<1>1. ASSUME IInv, [Next]_vars
      PROVE  [Dropped]_vars
  <2> SUFFICES ASSUME NEW r \in todo, r \notin todo', r \in Head(frames).stale
               PROVE  req'[r] = req[r]
    OBVIOUS
  <2>1. Shape /\ todo \subseteq Requests
    BY <1>1 DEF IInv, Shape
  <2>2. \E q \in Requests : Visit(q) /\ (\/ SkipFinished(q) \/ EmptyRow(q)
                                        \/ AcceptTokens(q) \/ DiscardTokens(q))
    <3>1. todo' # todo
      OBVIOUS
    <3>2. ~BeginUpdate
      BY <1>1 DEF BeginUpdate, IInv, Ledger, StepOrdered
    <3>3. ~ScheduleStep
      BY <3>1 DEF ScheduleStep, BeginSchedule, SkipRunning, ScheduleRunning,
         PreemptLast, EndRunning, Admit, EndSchedule
    <3>4. ~ClientStep /\ ~OperatorStep
      BY <3>1 DEF ClientStep, AddRequest, Abort, OperatorStep, SetPauseState,
         ResetPrefixCache
    <3>5. ~EndUpdate /\ ~UNCHANGED vars
      BY <3>1 DEF EndUpdate, vars
    <3> QED BY <1>1, <3>2, <3>3, <3>4, <3>5
        DEF Next, EngineStep, UpdateStep, SkipFinished, EmptyRow, AcceptTokens,
            DiscardTokens
  <2>3. PICK q \in Requests : Visit(q) /\ (\/ SkipFinished(q) \/ EmptyRow(q)
                                         \/ AcceptTokens(q) \/ DiscardTokens(q))
    BY <2>2
  <2>4. q = r
    BY <2>3 DEF Visit
  <2>5. ~AcceptTokens(r)
    BY DEF AcceptTokens
  <2> QED BY <1>1, <2>1, <2>3, <2>4, <2>5, RowsKeepRecords
<1> QED BY <1>1, IInvHolds, PTL DEF Spec, StaleFramesDiscarded
=============================================================================
