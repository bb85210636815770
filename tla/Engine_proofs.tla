---------------------------- MODULE Engine_proofs ----------------------------
(***************************************************************************)
(* Proofs about Engine, for every number of requests, blocks and drafts:   *)
(* with the model runner at the other end the scheduler takes only steps   *)
(* of Scheduler, so that all that is proved of Scheduler holds of the      *)
(* engine, and what the scheduler sends is enough for the worker.          *)
(*                                                                         *)
(* Both rest on one fact that neither side can see alone: the number of    *)
(* output ids the worker has cached for a request, placeholders included,  *)
(* is the number the scheduler counts with, two steps ahead of either.     *)
(*                                                                         *)
(* The last sections are for EnginePositions: the tokens in answers nobody *)
(* has read, what sample_tokens() leaves behind, and the flattened batch.  *)
(***************************************************************************)
EXTENDS Engine, Scheduler_proofs

-----------------------------------------------------------------------------
(* Messages.                                                               *)

Messages ==
  [n : [Requests -> Int], spec : [Requests -> 0..NumSpecTokens],
   computed : [Requests -> Int], out : [Requests -> Int],
   outputs : [Requests -> Int], new : SUBSET Requests,
   resumed : SUBSET Requests, all : SUBSET Requests,
   finished : SUBSET Requests]

Answers ==
  [generated : UNION {[S -> 0..(NumSpecTokens + 1)] : S \in SUBSET Requests},
   lengths : {<<>>} \union UNION {[S -> DraftLengths] : S \in SUBSET Requests}]

\* What the worker caches of a request.
Cached == [computed : Int, outs : Nat, real : Int, prevDraft : Nat]

\* The rows of a step, and those of them that sample.
RowsOf(m) == {r \in Requests : m.n[r] > 0}
Emitting(m) ==
  {r \in RowsOf(m) : m.computed[r] + m.n[r] >= PromptLen[r] + m.outputs[r]}

\* Message m announces the step of frame f, and answer o reports on it.
Announces(m, f) ==
  f.n = m.n /\ f.spec = m.spec /\ f.emits = Emitting(m) /\ f.stale = {}

Reports(o, f) ==
  /\ f.stale = {}
  /\ \A r \in Requests :
       f.n[r] > 0 =>
         /\ o.generated[r] \in 0..(f.spec[r] + 1)
         /\ o.generated[r] > 0 <=> r \in f.emits
         /\ o.lengths # <<>> => o.lengths[r] \in DraftLengths

-----------------------------------------------------------------------------
(* The invariant.                                                          *)

Executing == execState # <<>>
InHand == IF Executing THEN 1 ELSE 0

\* Every frame in flight is answered, being executed, or still on its way, in
\* this order.
Pipeline ==
  /\ inbox \in Seq(Messages) /\ outbox \in Seq(Answers)
  /\ Len(frames) = Len(outbox) + InHand + Len(inbox)
  /\ \A k \in 1..Len(outbox) : Reports(outbox[k], frames[k])
  /\ Executing => Announces(execState.m, frames[Len(outbox) + 1])
  /\ \A k \in 1..Len(inbox) :
       Announces(inbox[k], frames[Len(outbox) + InHand + k])

\* The batch of the worker and the states it caches.
Worker ==
  /\ rows \in Seq(Requests) /\ IsInjective(rows)
  /\ DOMAIN requests \subseteq Requests
  /\ \A r \in DOMAIN requests : requests[r] \in Cached
  /\ ToSet(rows) \subseteq DOMAIN requests
  /\ DOMAIN prevIndex \subseteq Requests
  /\ sampled # <<>> =>
       \A r \in DOMAIN prevIndex : sampled.count[prevIndex[r]] \in Int
  /\ Executing =>
       /\ execState.m \in Messages
       /\ ToSet(rows) = RowsOf(execState.m)
       /\ execState.discarded =
            {i \in DOMAIN rows : rows[i] \notin Emitting(execState.m)}

\* The batch the k-th message on its way finds when it is executed.
Before(k) == IF k = 1 THEN ToSet(rows) ELSE RowsOf(inbox[k - 1])

\* The most output ids the worker can then have cached for r, all drafts and
\* the token sampled for it counted.
Limit(k, r) ==
  IF k = 1
  THEN requests[r].outs + requests[r].prevDraft
       + (IF Executing /\ r \in Emitting(execState.m) THEN 1 ELSE 0)
  ELSE inbox[k - 1].outputs[r]
       + (IF r \in Emitting(inbox[k - 1]) THEN 1 + inbox[k - 1].spec[r] ELSE 0)

\* The worker will know r when it executes the k-th message on its way.
Acquainted(k, r) ==
  r \in DOMAIN requests \/ \E j \in 1..(k - 1) : r \in inbox[j].new

Active == {"RUNNING", "PREEMPTED"}

\* A message on its way can be executed: it names only requests the worker
\* knows, sends the ids of those that lost their row, and counts on no more
\* output ids than the worker has for the others.
Deliverable ==
  \A k \in 1..Len(inbox) :
    LET m == inbox[k]
    IN  /\ m.new \subseteq RowsOf(m)
        /\ \A r \in m.new : m.outputs[r] = 0
        /\ \A r \in RowsOf(m) :
             /\ m.outputs[r] >= 0
             /\ \A j \in 1..k : r \notin inbox[j].finished
             /\ r \notin m.new =>
                  /\ Acquainted(k, r)
                  /\ r \in m.resumed \/ r \notin Before(k) =>
                       r \in m.all /\ m.outputs[r] = m.out[r]
                  /\ r \in Before(k) => m.outputs[r] <= Limit(k, r)

\* What the next message will rely on.
NextDeliverable ==
  LET next == Len(inbox) + 1
  IN  /\ prevStep = Before(next)
      /\ frames # <<>> => prevStep = RowsOf(frames[Len(frames)])
      /\ \A r \in finishedReqIds : req[r].status = "FINISHED"
      /\ \A k \in 1..Len(inbox) :
           \A r \in inbox[k].finished : req[r].status = "FINISHED"
      /\ \A r \in Requests :
           req[r].status \in Active =>
             /\ r \notin newReqs => Acquainted(next, r)
             /\ r \in prevStep => req[r].out + req[r].ph <= Limit(next, r)
      /\ \A r \in Requests :
           req[r].status = "PREEMPTED" /\ r \notin preempted => r \notin prevStep
      /\ phase # "waiting" => newReqs = {} /\ resumedReqs = {}
      /\ newReqs \subseteq Scheduled
      /\ \A r \in newReqs : req[r].out = 0 /\ req[r].ph = 0
      /\ resumedReqs \in SUBSET (Requests \ prevStep)

\* update_from_output() works on an answer, and visits the rows of its frame.
Answering ==
  phase = "update" =>
    outbox # <<>> /\ \A r \in todo : Head(frames).n[r] > 0

EInv ==
  IInv /\ Pipeline /\ Worker /\ Deliverable /\ NextDeliverable /\ Answering

-----------------------------------------------------------------------------
(* Facts about messages.                                                   *)

LEMMA MessageFacts ==
  ASSUME NEW m \in Messages, NEW r \in Requests
  PROVE  /\ m.n[r] \in Int /\ m.computed[r] \in Int /\ m.outputs[r] \in Int
         /\ m.out[r] \in Int /\ m.spec[r] \in Nat /\ m.spec[r] <= NumSpecTokens
         /\ m.new \subseteq Requests /\ m.finished \subseteq Requests
         /\ RowsOf(m) \subseteq Requests /\ Emitting(m) \subseteq RowsOf(m)
<1>1. m.spec[r] \in 0..NumSpecTokens /\ NumSpecTokens \in Nat
  BY SchedulerAssumption DEF Messages
<1> QED BY <1>1 DEF Messages, RowsOf, Emitting

\* How many messages there are, and the type of each.
LEMMA Stages ==
  ASSUME Shape, Pipeline
  PROVE  /\ Len(frames) \in {0, 1, 2}
         /\ Len(inbox) \in {0, 1, 2} /\ Len(outbox) \in {0, 1, 2}
         /\ InHand \in {0, 1}
         /\ Len(frames) = Len(outbox) + InHand + Len(inbox)
         /\ \A k \in 1..Len(inbox) : inbox[k] \in Messages
         /\ inbox # <<>> => Len(inbox) > 0 /\ Head(inbox) = inbox[1]
<1>1. Len(frames) \in {0, 1, 2}
  BY FramesLen
<1>2. Len(inbox) \in Nat /\ Len(outbox) \in Nat
  BY LenProperties DEF Pipeline
<1>3. InHand \in {0, 1}
  BY DEF InHand
<1>4. Len(frames) = Len(outbox) + InHand + Len(inbox)
  BY DEF Pipeline
<1>5. Len(inbox) \in {0, 1, 2} /\ Len(outbox) \in {0, 1, 2}
  <2>1. \A x, y \in Nat : \A z \in {0, 1} :
          x + z + y \in {0, 1, 2} => x \in {0, 1, 2} /\ y \in {0, 1, 2}
    OBVIOUS
  <2> QED BY <1>1, <1>2, <1>3, <1>4, <2>1
<1>6. \A k \in 1..Len(inbox) : inbox[k] \in Messages
  BY ElementOfSeq DEF Pipeline
<1>7. inbox # <<>> => Len(inbox) > 0 /\ Head(inbox) = inbox[1]
  BY <1>2, EmptySeq DEF Pipeline
<1> QED BY <1>1, <1>3, <1>4, <1>5, <1>6, <1>7

-----------------------------------------------------------------------------
(* execute_model().                                                        *)

LEMMA LesserFacts ==
  \A x, y \in Int :
    /\ Runner!Lesser(x, y) \in Int
    /\ x >= y => Runner!Lesser(x, y) = y
BY DEF Runner!Lesser

\* ModelRunner has its own copies of the operators on sequences.
LEMMA SameOperators ==
  \A s : Runner!ToSet(s) = ToSet(s) /\ (Runner!IsInjective(s) <=> IsInjective(s))
BY DEF Runner!ToSet, ToSet, Runner!IsInjective, IsInjective

\* What the worker can rely on in the message it executes next.
LEMMA Oldest ==
  ASSUME Shape, Pipeline, Worker, Deliverable, ~Executing, inbox # <<>>,
         NEW m \in Messages, m = inbox[1]
  PROVE  /\ m.new \subseteq RowsOf(m)
         /\ \A r \in m.new : m.outputs[r] = 0
         /\ \A r \in RowsOf(m) :
              /\ m.outputs[r] >= 0 /\ r \notin m.finished
              /\ r \notin m.new =>
                   /\ r \in DOMAIN requests
                   /\ r \in ToSet(rows) =>
                        m.outputs[r] <= requests[r].outs + requests[r].prevDraft
<1>0. 1 \in 1..Len(inbox)
  BY Stages
<1>1. /\ m.new \subseteq RowsOf(m)
      /\ \A r \in m.new : m.outputs[r] = 0
      /\ \A r \in RowsOf(m) : 
           /\ m.outputs[r] >= 0
           /\ \A j \in 1..1 : r \notin inbox[j].finished
           /\ r \notin m.new =>
                /\ Acquainted(1, r)
                /\ r \in Before(1) => m.outputs[r] <= Limit(1, r)
  BY <1>0 DEF Deliverable
<1>2. \A r \in RowsOf(m) : Acquainted(1, r) => r \in DOMAIN requests
  BY DEF Acquainted
<1>3. \A r \in DOMAIN requests :
        Limit(1, r) = requests[r].outs + requests[r].prevDraft
  <2> SUFFICES ASSUME NEW r \in DOMAIN requests
               PROVE  Limit(1, r) = requests[r].outs + requests[r].prevDraft
    OBVIOUS
  <2>1. PICK x, y \in Int : x = requests[r].outs /\ y = requests[r].prevDraft
    BY DEF Worker, Cached
  <2> QED BY <2>1 DEF Limit
<1> QED BY <1>1, <1>2, <1>3 DEF Before

States == Runner!UpdatedRequests(inbox[1])

\* The states the worker takes over from the oldest message on its way: of
\* each row it caches as many output ids as the scheduler counts.
LEMMA UpdatedStates ==
  ASSUME Shape, Pipeline, Worker, Deliverable, ~Executing, inbox # <<>>
  PROVE  /\ DOMAIN States =
              (DOMAIN requests \ inbox[1].finished) \union inbox[1].new
         /\ \A r \in DOMAIN States : States[r] \in Cached
         /\ RowsOf(inbox[1]) \subseteq DOMAIN States
         /\ \A r \in RowsOf(inbox[1]) :
              /\ States[r].outs = inbox[1].outputs[r]
              /\ States[r].prevDraft = inbox[1].spec[r]
<1>1. PICK m \in Messages : m = inbox[1]
  BY Stages
<1>2. 1 \in 1..Len(inbox)
  BY Stages
<1>3. /\ m.new \subseteq RowsOf(m)
      /\ \A r \in m.new : m.outputs[r] = 0
      /\ \A r \in RowsOf(m) :
           /\ m.outputs[r] >= 0 /\ r \notin m.finished
           /\ r \notin m.new =>
                /\ r \in DOMAIN requests
                /\ r \in ToSet(rows) =>
                     m.outputs[r] <= requests[r].outs + requests[r].prevDraft
  BY <1>1, Oldest
<1>4. ASSUME NEW r \in RowsOf(m)
      PROVE  /\ Runner!NewState(m, r) \in Cached
             /\ r \in m.new => Runner!NewState(m, r).outs = m.outputs[r]
             /\ Runner!NewState(m, r).prevDraft = m.spec[r]
  BY <1>3, MessageFacts DEF Runner!NewState, RowsOf, Cached
<1>5. ASSUME NEW r \in RowsOf(m), r \notin m.new
      PROVE  /\ Runner!CachedState(m, r) \in Cached
             /\ Runner!CachedState(m, r).outs = m.outputs[r]
             /\ Runner!CachedState(m, r).prevDraft = m.spec[r]
  <2>1. /\ r \in Requests /\ m.outputs[r] \in Int /\ m.outputs[r] >= 0
        /\ m.computed[r] \in Int /\ m.spec[r] \in Nat /\ m.out[r] \in Int
    BY <1>3, <1>5, MessageFacts DEF RowsOf
  <2>2. /\ requests[r].outs \in Nat /\ requests[r].prevDraft \in Nat
        /\ requests[r].real \in Int
    BY <1>3, <1>5 DEF Worker, Cached
  <2>a. PICK want \in Int : want = m.outputs[r] /\ want >= 0
    BY <2>1
  <2>b. PICK had \in Int : had = requests[r].outs /\ had >= 0
    BY <2>2
  <2>3. PICK outs \in Int :
          /\ outs = Runner!Lesser(requests[r].outs + Runner!Assumed(m, r),
                                  m.outputs[r])
          /\ r \in Runner!KeepRow(m) \/ m.outputs[r] = 0 => outs = m.outputs[r]
    <3>1. CASE r \in Runner!KeepRow(m)
      <4>1. Runner!Assumed(m, r) = requests[r].prevDraft /\ r \in ToSet(rows)
        BY <3>1, SameOperators DEF Runner!Assumed, Runner!KeepRow
      <4>2. PICK x \in Int : x = requests[r].outs + Runner!Assumed(m, r)
        BY <2>2, <4>1
      <4>3. x >= want
        BY <1>3, <1>5, <2>a, <4>1, <4>2
      <4>4. Runner!Lesser(x, want) = want
        BY <4>3, LesserFacts
      <4> QED BY <2>a, <4>2, <4>4
    <3>2. CASE r \notin Runner!KeepRow(m)
      <4>1. Runner!Assumed(m, r) = 0
        BY <3>2 DEF Runner!Assumed
      <4>2. requests[r].outs + Runner!Assumed(m, r) = had
        BY <2>b, <4>1
      <4>3. Runner!Lesser(had, want) \in Int
        BY LesserFacts
      <4>4. want = 0 => Runner!Lesser(had, want) = want
        BY <2>b, LesserFacts
      <4> QED BY <2>a, <3>2, <4>2, <4>3, <4>4
    <3> QED BY <3>1, <3>2
  <2>4. PICK real \in Int : real = Runner!Lesser(requests[r].real, outs)
    BY <2>2, LesserFacts
  <2>5. Runner!Restored(m, r) \in Int
    BY <2>1 DEF Runner!Restored
  <2>6. Runner!CachedState(m, r) =
          IF r \in Runner!KeepRow(m) \/ m.outputs[r] = 0
          THEN [computed |-> m.computed[r], outs |-> outs, real |-> real,
                prevDraft |-> m.spec[r]]
          ELSE [computed |-> m.computed[r], outs |-> m.outputs[r],
                real |-> Runner!Restored(m, r), prevDraft |-> m.spec[r]]
    BY <2>3, <2>4 DEF Runner!CachedState
  <2> QED BY <2>1, <2>3, <2>4, <2>5, <2>6 DEF Cached
<1>6. Runner!InStep(m) = RowsOf(m)
  BY DEF Runner!InStep, RowsOf
<1>7. /\ DOMAIN States = (DOMAIN requests \ m.finished) \union m.new
      /\ \A r \in DOMAIN States :
           /\ r \in m.new => States[r] = Runner!NewState(m, r)
           /\ r \notin m.new /\ r \in RowsOf(m) =>
                States[r] = Runner!CachedState(m, r)
           /\ r \notin RowsOf(m) => States[r] = requests[r] /\ r \in DOMAIN requests
  <2>1. States = [r \in (DOMAIN requests \ m.finished) \union m.new |->
                    CASE r \in m.new -> Runner!NewState(m, r)
                      [] r \in RowsOf(m) \ m.new -> Runner!CachedState(m, r)
                      [] OTHER -> requests[r]]
    BY <1>1, <1>6 DEF States, Runner!UpdatedRequests
  <2>2. DOMAIN States = (DOMAIN requests \ m.finished) \union m.new
    BY <2>1
  <2>3. ASSUME NEW r \in DOMAIN States
        PROVE  States[r] = CASE r \in m.new -> Runner!NewState(m, r)
                             [] r \in RowsOf(m) \ m.new -> Runner!CachedState(m, r)
                             [] OTHER -> requests[r]
    BY <2>1
  <2>4. ASSUME NEW r \in DOMAIN States
        PROVE  /\ r \in m.new => States[r] = Runner!NewState(m, r)
               /\ r \notin m.new /\ r \in RowsOf(m) =>
                    States[r] = Runner!CachedState(m, r)
               /\ r \notin RowsOf(m) => States[r] = requests[r]
    <3>1. r \in m.new => r \in RowsOf(m)
      BY <1>3
    <3> QED BY <2>3, <3>1
  <2>5. \A r \in DOMAIN States : r \notin RowsOf(m) => r \in DOMAIN requests
    BY <1>3, <2>2
  <2> QED BY <2>2, <2>4, <2>5
<1>8. ASSUME NEW r \in DOMAIN States
      PROVE  States[r] \in Cached
  <2>1. CASE r \in m.new
    BY <1>3, <1>4, <1>7, <2>1
  <2>2. CASE r \notin m.new /\ r \in RowsOf(m)
    BY <1>5, <1>7, <2>2
  <2>3. CASE r \notin RowsOf(m)
    BY <1>7, <2>3 DEF Worker
  <2> QED BY <2>1, <2>2, <2>3
<1>9. RowsOf(m) \subseteq DOMAIN States
  BY <1>3, <1>7
<1>10. ASSUME NEW r \in RowsOf(m)
       PROVE  States[r].outs = m.outputs[r] /\ States[r].prevDraft = m.spec[r]
  <2>1. r \in DOMAIN States
    BY <1>9
  <2>2. CASE r \in m.new
    BY <1>4, <1>7, <2>1, <2>2
  <2>3. CASE r \notin m.new
    BY <1>5, <1>7, <2>1, <2>3
  <2> QED BY <2>2, <2>3
<1>11. DOMAIN States = (DOMAIN requests \ inbox[1].finished) \union inbox[1].new
  BY <1>1, <1>7
<1>12. RowsOf(inbox[1]) \subseteq DOMAIN States
  BY <1>1, <1>9
<1>13. \A r \in RowsOf(inbox[1]) :
         /\ States[r].outs = inbox[1].outputs[r]
         /\ States[r].prevDraft = inbox[1].spec[r]
  BY <1>1, <1>10
<1> QED BY <1>8, <1>11, <1>12, <1>13

LEMMA SameCardinality == \A S : Runner!Cardinality(S) = Cardinality(S)
BY DEF Runner!Cardinality, Cardinality

\* A batch is a sequence of just the rows of the step.
LEMMA Batches ==
  ASSUME NEW S \in SUBSET Requests, NEW batch \in Runner!RowOrders(S)
  PROVE  /\ batch \in Seq(Requests) /\ IsInjective(batch)
         /\ ToSet(batch) = S
         /\ batch = <<>> <=> S = {}
<1>1. IsFiniteSet(S) /\ Cardinality(S) \in Nat
  BY SchedulerAssumption, FS_Subset, FS_CardinalityType
<1>2. batch \in [1..Cardinality(S) -> S] /\ IsInjective(batch)
  BY SameCardinality, SameOperators DEF Runner!RowOrders
<1>3. batch \in Seq(Requests) /\ DOMAIN batch = 1..Cardinality(S)
  BY <1>1, <1>2
<1>4. \A i, j \in 1..Cardinality(S) : batch[i] = batch[j] => i = j
  BY <1>2, <1>3 DEF IsInjective
<1>5. batch \in Injection(1..Cardinality(S), S)
  BY <1>2, <1>4 DEF Injection, IsInjective
<1>6. Cardinality(1..Cardinality(S)) = Cardinality(S)
  BY <1>1, FS_Interval
<1>7. batch \in Surjection(1..Cardinality(S), S)
  BY <1>1, <1>5, <1>6, FS_Injection
<1>8. ToSet(batch) = S
  BY <1>2, <1>3, <1>7 DEF Surjection, ToSet
<1>9. batch = <<>> <=> S = {}
  <2>1. batch = <<>> <=> Len(batch) = 0
    BY <1>3, EmptySeq
  <2>2. Len(batch) = Cardinality(S)
    BY <1>1, <1>3, LenProperties
  <2>3. Cardinality(S) = 0 <=> S = {}
    BY <1>1, FS_EmptySet
  <2> QED BY <2>1, <2>2, <2>3
<1> QED BY <1>2, <1>3, <1>8, <1>9

\* The states once the rejected drafts are subtracted from them: only the
\* counts of computed tokens change.
Corrections == Runner!CorrectedRequests(inbox[1], States)

LEMMA CorrectedStates ==
  ASSUME Shape, Pipeline, Worker, Deliverable, ~Executing, inbox # <<>>
  PROVE  /\ DOMAIN Corrections = DOMAIN States
         /\ \A r \in DOMAIN States :
              /\ Corrections[r] \in Cached
              /\ Corrections[r].outs = States[r].outs
              /\ Corrections[r].prevDraft = States[r].prevDraft
<1>1. PICK m \in Messages : m = inbox[1]
  BY Stages
<1>2. Corrections =
        [r \in DOMAIN States |->
           IF /\ sampled # <<>>
              /\ r \in Runner!Deferred(m) \intersect DOMAIN Runner!PrevIndex(m)
           THEN [States[r] EXCEPT !.computed = @ - Runner!Correction(r)]
           ELSE States[r]]
  BY <1>1 DEF Corrections, Runner!CorrectedRequests, Runner!None
<1>3. ASSUME NEW r \in DOMAIN States, sampled # <<>>,
             r \in Runner!Deferred(m) \intersect DOMAIN Runner!PrevIndex(m)
      PROVE  Runner!Correction(r) \in Int
  <2>1. r \in RowsOf(m) \ m.new
    BY <1>3 DEF Runner!Deferred, Runner!InStep, RowsOf
  <2>2. r \in DOMAIN requests
    BY <1>1, <2>1, Oldest
  <2>3. requests[r].prevDraft \in Nat
    BY <2>2 DEF Worker, Cached
  <2>4. r \in DOMAIN prevIndex
    BY <1>3 DEF Runner!PrevIndex
  <2>5. sampled.count[prevIndex[r]] \in Int
    BY <1>3, <2>4 DEF Worker
  <2> QED BY <2>3, <2>5 DEF Runner!Correction
<1>4. DOMAIN Corrections = DOMAIN States
  BY <1>2
<1>5. ASSUME NEW r \in DOMAIN States
      PROVE  /\ Corrections[r] \in Cached
             /\ Corrections[r].outs = States[r].outs
             /\ Corrections[r].prevDraft = States[r].prevDraft
  <2>1. States[r] \in Cached
    BY UpdatedStates
  <2>2. CASE /\ sampled # <<>>
             /\ r \in Runner!Deferred(m) \intersect DOMAIN Runner!PrevIndex(m)
    <3>1. PICK d \in Int : d = Runner!Correction(r)
      BY <1>3, <2>2
    <3>2. Corrections[r] = [States[r] EXCEPT !.computed = @ - d]
      BY <1>2, <2>2, <3>1
    <3> QED BY <2>1, <3>2 DEF Cached
  <2>3. CASE ~(/\ sampled # <<>>
               /\ r \in Runner!Deferred(m) \intersect
                         DOMAIN Runner!PrevIndex(m))
    <3>1. Corrections[r] = States[r]
      BY <1>2, <2>3
    <3> QED BY <2>1, <3>1
  <2> QED BY <2>2, <2>3
<1> QED BY <1>4, <1>5

LEMMA ExecuteEffect ==
  ASSUME Shape, Pipeline, Worker, Deliverable, Runner!ExecuteModel
  PROVE  /\ ~Executing /\ inbox # <<>> /\ inbox' = Tail(inbox)
         /\ rows' \in Seq(Requests) /\ IsInjective(rows')
         /\ ToSet(rows') = RowsOf(inbox[1])
         /\ DOMAIN requests' =
              (DOMAIN requests \ inbox[1].finished) \union inbox[1].new
         /\ \A r \in DOMAIN requests' : requests'[r] \in Cached
         /\ RowsOf(inbox[1]) \subseteq DOMAIN requests'
         /\ \A r \in RowsOf(inbox[1]) :
              /\ requests'[r].outs = inbox[1].outputs[r]
              /\ requests'[r].prevDraft = inbox[1].spec[r]
         /\ DOMAIN prevIndex' \subseteq DOMAIN prevIndex
         /\ \A r \in DOMAIN prevIndex' : prevIndex'[r] = prevIndex[r]
         /\ sampled' = sampled
         /\ \/ /\ RowsOf(inbox[1]) = {}
               /\ outbox' = Append(outbox, Runner!EmptyOutput)
               /\ execState' = <<>>
            \/ /\ RowsOf(inbox[1]) # {}
               /\ outbox' = outbox
               /\ execState' # <<>> /\ execState'.m = inbox[1]
               /\ execState'.discarded =
                    {i \in DOMAIN rows' : rows'[i] \notin Emitting(inbox[1])}
<1>1. /\ ~Executing /\ inbox # <<>> /\ inbox' = Tail(inbox)
      /\ sampled' = sampled
  BY DEF Runner!ExecuteModel, Executing, Runner!None
<1>2. PICK m \in Messages : m = inbox[1] /\ Head(inbox) = m
  BY <1>1, Stages
<1>3. Runner!InStep(m) = RowsOf(m) /\ RowsOf(m) \in SUBSET Requests
  BY DEF Runner!InStep, RowsOf
<1>4. States = Runner!UpdatedRequests(m)
  BY <1>2 DEF States
<1>5. PICK batch \in Runner!RowOrders(RowsOf(m)) :
        /\ rows' = batch
        /\ prevIndex' = Runner!PrevIndex(m)
        /\ IF batch = <<>>
           THEN /\ requests' = States
                /\ outbox' = Append(outbox, Runner!EmptyOutput)
                /\ execState' = execState
           ELSE /\ requests' = Runner!CorrectedRequests(m, States)
                /\ execState' =
                     [m |-> m, discarded |-> Runner!Discarded(m, States, batch),
                      common |-> Runner!Common(m, batch),
                      ids |-> Runner!InputIds(m, States, batch),
                      fits |-> Runner!FitsDrafter(m, batch)]
                /\ outbox' = outbox
  BY <1>2, <1>3, <1>4 DEF Runner!ExecuteModel
<1>6. /\ batch \in Seq(Requests) /\ IsInjective(batch)
      /\ ToSet(batch) = RowsOf(m)
      /\ batch = <<>> <=> RowsOf(m) = {}
  BY <1>3, <1>5, Batches
<1>7. Runner!CorrectedRequests(m, States) = Corrections
  BY <1>2 DEF Corrections
<1>8. /\ DOMAIN requests' = DOMAIN States
      /\ \A r \in DOMAIN States :
           /\ requests'[r] \in Cached
           /\ requests'[r].outs = States[r].outs
           /\ requests'[r].prevDraft = States[r].prevDraft
  <2>1. \A r \in DOMAIN States : States[r] \in Cached
    BY <1>1, UpdatedStates
  <2>2. CASE batch = <<>>
    BY <1>5, <2>1, <2>2
  <2>3. CASE batch # <<>>
    BY <1>1, <1>5, <1>7, <2>3, CorrectedStates
  <2> QED BY <2>2, <2>3
<1>9. /\ DOMAIN States = (DOMAIN requests \ m.finished) \union m.new
      /\ RowsOf(m) \subseteq DOMAIN States
      /\ \A r \in RowsOf(m) :
           States[r].outs = m.outputs[r] /\ States[r].prevDraft = m.spec[r]
  BY <1>1, <1>2, UpdatedStates
<1>10. /\ DOMAIN prevIndex' \subseteq DOMAIN prevIndex
       /\ \A r \in DOMAIN prevIndex' : prevIndex'[r] = prevIndex[r]
  BY <1>5 DEF Runner!PrevIndex
<1>11. CASE batch = <<>>
  BY <1>1, <1>2, <1>5, <1>6, <1>8, <1>9, <1>10, <1>11 DEF Executing
<1>12. CASE batch # <<>>
  <2>1. /\ execState' =
             [m |-> m, discarded |-> Runner!Discarded(m, States, batch),
              common |-> Runner!Common(m, batch),
              ids |-> Runner!InputIds(m, States, batch),
              fits |-> Runner!FitsDrafter(m, batch)]
        /\ outbox' = outbox
    BY <1>5, <1>12
  <2>2. /\ execState' # <<>> /\ execState'.m = m
        /\ execState'.discarded = Runner!Discarded(m, States, batch)
    BY <2>1
  <2>3. ASSUME NEW i \in DOMAIN batch
        PROVE  i \in Runner!Discarded(m, States, batch)
                 <=> batch[i] \notin Emitting(m)
    <3>1. batch[i] \in RowsOf(m)
      BY <1>6 DEF ToSet
    <3>2. PICK r \in Requests : r = batch[i] /\ r \in RowsOf(m)
      BY <1>3, <3>1
    <3>3. /\ m.n[r] \in Int /\ m.computed[r] \in Int /\ m.outputs[r] \in Int
          /\ PromptLen[r] \in Int
      BY MessageFacts, SchedulerAssumption
    <3>4. States[r].outs = m.outputs[r]
      BY <1>9, <3>2
    <3>5. PICK x, y \in Int : /\ x = m.computed[r] + m.n[r]
                              /\ y = PromptLen[r] + m.outputs[r]
      BY <3>3
    <3>6. i \in Runner!Discarded(m, States, batch) <=> x < y
      BY <3>2, <3>4, <3>5 DEF Runner!Discarded
    <3>7. r \in Emitting(m) <=> x >= y
      BY <3>2, <3>5 DEF Emitting
    <3> QED BY <3>2, <3>5, <3>6, <3>7
  <2>4. Runner!Discarded(m, States, batch) =
          {i \in DOMAIN batch : batch[i] \notin Emitting(m)}
    <3>1. Runner!Discarded(m, States, batch) \subseteq DOMAIN batch
      BY DEF Runner!Discarded
    <3> QED BY <2>3, <3>1
  <2> QED BY <1>1, <1>2, <1>5, <1>6, <1>8, <1>9, <1>10, <1>12, <2>1, <2>2, <2>4
<1> QED BY <1>11, <1>12

-----------------------------------------------------------------------------
(* sample_tokens().                                                        *)

LEMMA SampleEffect ==
  ASSUME Worker, Runner!SampleTokens
  PROVE  /\ Executing /\ execState' = <<>> /\ inbox' = inbox /\ rows' = rows
         /\ \E o \in Answers :
              /\ outbox' = Append(outbox, o)
              /\ \A r \in RowsOf(execState.m) :
                   /\ o.generated[r] \in 0..(execState.m.spec[r] + 1)
                   /\ o.generated[r] > 0 <=> r \in Emitting(execState.m)
                   /\ o.lengths # <<>> => o.lengths[r] \in DraftLengths
         /\ DOMAIN requests' = DOMAIN requests
         /\ \A r \in DOMAIN requests :
              /\ requests'[r] \in Cached
              /\ requests'[r].prevDraft = requests[r].prevDraft
              /\ requests'[r].outs =
                   requests[r].outs + IF r \in Emitting(execState.m) THEN 1 ELSE 0
         /\ DOMAIN prevIndex' \subseteq Requests
         /\ \A r \in DOMAIN prevIndex' :
              sampled'.count[prevIndex'[r]] \in Int
<1>1. /\ Executing /\ execState' = <<>> /\ inbox' = inbox /\ rows' = rows
      /\ execState.m \in Messages
  BY DEF Runner!SampleTokens, Executing, Runner!None, Worker
<1>2. PICK m \in Messages : m = execState.m
  BY <1>1
<1>3. /\ rows \in Seq(Requests)
      /\ ToSet(rows) = RowsOf(m) /\ ToSet(rows) \subseteq DOMAIN requests
      /\ execState.discarded = {i \in DOMAIN rows : rows[i] \notin Emitting(m)}
  BY <1>1, <1>2 DEF Worker
<1>4. PICK count \in [DOMAIN rows -> 0..(NumSpecTokens + 1)] :
        /\ \A i \in DOMAIN rows : count[i] \in Runner!SampledCounts(m, i)
        /\ sampled' = [next |-> Runner!NextTokens(m, count), count |-> count]
        /\ prevIndex' = Runner!SampledRows
        /\ requests' = [r \in DOMAIN requests |->
                          IF r \in DOMAIN Runner!SampledRows
                          THEN [requests[r] EXCEPT !.outs = @ + 1]
                          ELSE requests[r]]
        /\ \E lengths \in Runner!ReportedLengths :
             outbox' = Append(outbox,
               [generated |->
                  [r \in Runner!ToSet(rows) |-> count[Runner!RowOf(r)]],
                lengths |-> lengths])
  BY <1>2 DEF Runner!SampleTokens
<1>5. PICK lengths \in Runner!ReportedLengths :
        outbox' = Append(outbox,
          [generated |-> [r \in ToSet(rows) |-> count[Runner!RowOf(r)]],
           lengths |-> lengths])
  BY <1>4, SameOperators
<1>6. ASSUME NEW r \in RowsOf(m)
      PROVE  Runner!RowOf(r) \in DOMAIN rows /\ rows[Runner!RowOf(r)] = r
  <2>1. \E i \in DOMAIN rows : rows[i] = r
    BY <1>3 DEF ToSet
  <2> QED BY <2>1 DEF Runner!RowOf
<1>7. DOMAIN Runner!SampledRows = Emitting(m)
  <2>1. DOMAIN Runner!SampledRows =
          {rows[i] : i \in DOMAIN rows \ execState.discarded}
    BY DEF Runner!SampledRows
  <2>2. Emitting(m) \subseteq ToSet(rows)
    BY <1>3 DEF Emitting
  <2> QED BY <1>3, <2>1, <2>2 DEF ToSet
<1>8. ASSUME NEW r \in RowsOf(m)
      PROVE  /\ count[Runner!RowOf(r)] \in 0..(m.spec[r] + 1)
             /\ count[Runner!RowOf(r)] > 0 <=> r \in Emitting(m)
  <2>1. PICK i \in DOMAIN rows : i = Runner!RowOf(r) /\ rows[i] = r
    BY <1>6
  <2>2. m.spec[r] \in Nat
    BY MessageFacts DEF RowsOf
  <2>3. count[i] \in IF i \in execState.discarded THEN {0}
                     ELSE 1..(m.spec[r] + 1)
    BY <1>4, <2>1 DEF Runner!SampledCounts
  <2>4. i \in execState.discarded <=> r \notin Emitting(m)
    BY <1>3, <2>1
  <2>5. CASE i \in execState.discarded
    <3>1. count[i] = 0
      BY <2>3, <2>5
    <3> QED BY <2>1, <2>2, <2>4, <2>5, <3>1
  <2>6. CASE i \notin execState.discarded
    <3>1. count[i] \in 1..(m.spec[r] + 1)
      BY <2>3, <2>6
    <3> QED BY <2>1, <2>2, <2>4, <2>6, <3>1
  <2> QED BY <2>5, <2>6
<1>9. \E o \in Answers :
        /\ outbox' = Append(outbox, o)
        /\ \A r \in RowsOf(m) :
             /\ o.generated[r] \in 0..(m.spec[r] + 1)
             /\ o.generated[r] > 0 <=> r \in Emitting(m)
             /\ o.lengths # <<>> => o.lengths[r] \in DraftLengths
  <2>1. PICK g : g = [r \in ToSet(rows) |-> count[Runner!RowOf(r)]]
    OBVIOUS
  <2>2. PICK o : o = [generated |-> g, lengths |-> lengths]
    OBVIOUS
  <2>3. g \in [ToSet(rows) -> 0..(NumSpecTokens + 1)]
    BY <1>3, <1>4, <1>6, <2>1
  <2>4. lengths = <<>> \/ lengths \in [ToSet(rows) -> DraftLengths]
    BY SameOperators DEF Runner!ReportedLengths, Runner!None
  <2>5. ToSet(rows) \in SUBSET Requests
    BY <1>3 DEF RowsOf
  <2>6. o \in Answers
    BY <2>2, <2>3, <2>4, <2>5 DEF Answers
  <2>7. ASSUME NEW r \in RowsOf(m)
        PROVE  /\ o.generated[r] \in 0..(m.spec[r] + 1)
               /\ o.generated[r] > 0 <=> r \in Emitting(m)
               /\ o.lengths # <<>> => o.lengths[r] \in DraftLengths
    <3>1. o.generated[r] = count[Runner!RowOf(r)]
      BY <1>3, <2>1, <2>2
    <3>2. o.lengths # <<>> => o.lengths[r] \in DraftLengths
      BY <1>3, <2>2, <2>4
    <3> QED BY <1>8, <3>1, <3>2
  <2> QED BY <1>5, <2>1, <2>2, <2>6, <2>7
<1>10. ASSUME NEW r \in DOMAIN requests
       PROVE  /\ requests'[r] \in Cached
              /\ requests'[r].prevDraft = requests[r].prevDraft
              /\ requests'[r].outs =
                   requests[r].outs + IF r \in Emitting(m) THEN 1 ELSE 0
  <2>1. requests[r] \in Cached
    BY DEF Worker
  <2>2. requests'[r] = IF r \in Emitting(m)
                       THEN [requests[r] EXCEPT !.outs = @ + 1]
                       ELSE requests[r]
    BY <1>4, <1>7
  <2> QED BY <2>1, <2>2 DEF Cached
<1>11. DOMAIN requests' = DOMAIN requests
  BY <1>4
<1>12. DOMAIN prevIndex' = Emitting(m) /\ Emitting(m) \subseteq RowsOf(m)
  BY <1>4, <1>7 DEF Emitting
<1>13. ASSUME NEW r \in DOMAIN prevIndex'
       PROVE  sampled'.count[prevIndex'[r]] \in Int
  <2>1. r \in RowsOf(m)
    BY <1>12, <1>13
  <2>2. prevIndex'[r] = Runner!RowOf(r)
    BY <1>4, <1>13 DEF Runner!SampledRows
  <2>3. count[Runner!RowOf(r)] \in 0..(NumSpecTokens + 1)
    BY <1>4, <1>6, <2>1
  <2>4. NumSpecTokens \in Nat
    BY SchedulerAssumption
  <2> QED BY <1>4, <2>2, <2>3, <2>4
<1>14. DOMAIN prevIndex' \subseteq Requests
  BY <1>12 DEF RowsOf
<1> QED BY <1>1, <1>2, <1>9, <1>10, <1>11, <1>13, <1>14

-----------------------------------------------------------------------------
(* The steps of the worker keep the invariant.                             *)

\* Frames the messages stand for.
LEMMA FramesAnnounced ==
  ASSUME Shape, Pipeline, NEW k \in 1..Len(inbox)
  PROVE  /\ Len(outbox) + InHand + k \in 1..Len(frames)
         /\ Announces(inbox[k], frames[Len(outbox) + InHand + k])
         /\ inbox[k] \in Messages
<1>1. /\ Len(frames) \in Nat /\ Len(inbox) \in Nat /\ Len(outbox) \in Nat
      /\ InHand \in {0, 1}
      /\ Len(frames) = Len(outbox) + InHand + Len(inbox)
      /\ inbox[k] \in Messages
  BY Stages
<1>2. \A x, y \in Nat : \A z \in {0, 1} : \A i \in 1..y :
        x + z + i \in 1..(x + z + y)
  OBVIOUS
<1>3. Len(outbox) + InHand + k \in 1..Len(frames)
  BY <1>1, <1>2
<1> QED BY <1>1, <1>3 DEF Pipeline

\* What is left of the messages when the oldest is taken.
LEMMA TakeOldest ==
  ASSUME Shape, Pipeline, inbox # <<>>, inbox' = Tail(inbox)
  PROVE  /\ Len(inbox) \in {1, 2} /\ Len(inbox') = Len(inbox) - 1
         /\ inbox' \in Seq(Messages)
         /\ \A k \in 1..Len(inbox') :
              k + 1 \in 1..Len(inbox) /\ inbox'[k] = inbox[k + 1]
         /\ 1 \in 1..Len(inbox)
<1>1. Len(inbox) \in {1, 2} /\ inbox \in Seq(Messages)
  BY Stages DEF Pipeline
<1>2. /\ Tail(inbox) \in Seq(Messages) /\ Len(Tail(inbox)) = Len(inbox) - 1
      /\ \A k \in 1..Len(Tail(inbox)) : Tail(inbox)[k] = inbox[k + 1]
  BY <1>1, HeadTailProperties
<1>3. \A k \in 1..(Len(inbox) - 1) : k + 1 \in 1..Len(inbox)
  BY <1>1
<1> QED BY <1>1, <1>2, <1>3

LEMMA ExecutePipeline ==
  ASSUME Shape, Pipeline, Worker, Deliverable, Runner!ExecuteModel,
         frames' = frames
  PROVE  Pipeline'
<1>1. ~Executing /\ inbox # <<>> /\ inbox' = Tail(inbox)
  BY ExecuteEffect
<1>2. PICK m \in Messages : m = inbox[1]
  BY <1>1, Stages
<1>3. PICK L, O \in Nat :
        /\ L = Len(inbox) /\ O = Len(outbox) /\ L > 0
        /\ Len(frames) = O + L
        /\ Len(inbox') = L - 1 /\ inbox' \in Seq(Messages)
        /\ \A k \in 1..(L - 1) : inbox'[k] = inbox[k + 1]
        /\ O + 1 \in 1..Len(frames)
  <2>1. InHand = 0
    BY <1>1 DEF InHand
  <2>2. PICK L \in {1, 2} : L = Len(inbox)
    BY <1>1, TakeOldest
  <2>3. PICK O \in Nat : O = Len(outbox)
    BY Stages
  <2>4. Len(frames) = O + 0 + L
    BY <2>1, <2>2, <2>3, Stages
  <2>5. L \in Nat /\ L > 0 /\ Len(frames) = O + L /\ O + 1 \in 1..(O + L)
    BY <2>2, <2>3, <2>4
  <2>6. /\ Len(inbox') = L - 1 /\ inbox' \in Seq(Messages)
        /\ \A k \in 1..(L - 1) : inbox'[k] = inbox[k + 1]
    BY <1>1, <2>2, TakeOldest
  <2> QED BY <2>2, <2>3, <2>5, <2>6
<1>4. Announces(m, frames[O + 1])
  <2>1. InHand = 0 /\ 1 \in 1..Len(inbox)
    BY <1>1, TakeOldest DEF InHand
  <2>2. O + InHand + 1 = O + 1
    BY <2>1
  <2> QED BY <1>2, <1>3, <2>1, <2>2, FramesAnnounced
<1>5. ASSUME NEW k \in 1..(L - 1)
      PROVE  Announces(inbox'[k], frames[O + 1 + k])
  <2>1. k + 1 \in 1..Len(inbox) /\ InHand = 0
    BY <1>1, <1>3 DEF InHand
  <2>2. O + InHand + (k + 1) = O + 1 + k
    BY <2>1
  <2>3. Announces(inbox[k + 1], frames[O + InHand + (k + 1)])
    BY <1>3, <2>1, FramesAnnounced
  <2> QED BY <1>3, <2>2, <2>3
<1>6. \A k \in 1..O : Reports(outbox[k], frames[k])
  BY <1>3 DEF Pipeline
<1>7. CASE /\ RowsOf(m) = {}
           /\ outbox' = Append(outbox, Runner!EmptyOutput)
           /\ execState' = <<>>
  <2>1. PICK o \in Answers : o = Runner!EmptyOutput
    <3>1. <<>> \in [{} -> 0..(NumSpecTokens + 1)] /\ {} \in SUBSET Requests
      OBVIOUS
    <3>2. Runner!EmptyOutput = [generated |-> <<>>, lengths |-> <<>>]
      BY DEF Runner!EmptyOutput, Runner!None
    <3> QED BY <3>1, <3>2 DEF Answers
  <2>2. /\ outbox' \in Seq(Answers) /\ Len(outbox') = O + 1
        /\ \A k \in 1..O : outbox'[k] = outbox[k]
        /\ outbox'[O + 1] = o
    BY <1>3, <1>7, <2>1, AppendProperties DEF Pipeline
  <2>3. Reports(o, frames[O + 1])
    BY <1>4, <1>7 DEF Reports, Announces, RowsOf
  <2>4. \A k \in 1..(O + 1) : Reports(outbox'[k], frames[k])
    <3>1. \A k \in 1..(O + 1) : k \in 1..O \/ k = O + 1
      OBVIOUS
    <3> QED BY <1>6, <2>2, <2>3, <3>1
  <2>5. ~Executing' /\ InHand' = 0
    BY <1>7 DEF Executing, InHand
  <2>6. Len(frames) = (O + 1) + 0 + (L - 1)
    BY <1>3
  <2>7. \A k \in 1..(L - 1) : Announces(inbox'[k], frames[(O + 1) + 0 + k])
    BY <1>5
  <2> QED BY <1>3, <2>2, <2>4, <2>5, <2>6, <2>7 DEF Pipeline
<1>8. CASE /\ RowsOf(m) # {} /\ outbox' = outbox
           /\ execState' # <<>> /\ execState'.m = m
  <2>1. Executing' /\ InHand' = 1
    BY <1>8 DEF Executing, InHand
  <2>2. Len(frames) = O + 1 + (L - 1)
    BY <1>3
  <2> QED BY <1>3, <1>4, <1>5, <1>6, <1>8, <2>1, <2>2 DEF Pipeline
<1> QED BY <1>2, <1>7, <1>8, ExecuteEffect

LEMMA ExecuteWorker ==
  ASSUME Shape, Pipeline, Worker, Deliverable, Runner!ExecuteModel
  PROVE  Worker'
<1>1. ~Executing /\ inbox # <<>>
  BY ExecuteEffect
<1>2. PICK m \in Messages : m = inbox[1]
  BY <1>1, Stages
<1>3. /\ rows' \in Seq(Requests) /\ IsInjective(rows')
      /\ ToSet(rows') = RowsOf(m) /\ ToSet(rows') \subseteq DOMAIN requests'
      /\ \A r \in DOMAIN requests' : requests'[r] \in Cached
  BY <1>2, ExecuteEffect
<1>4. DOMAIN requests' \subseteq Requests
  <2>1. DOMAIN requests' = (DOMAIN requests \ m.finished) \union m.new
    BY <1>2, ExecuteEffect
  <2> QED BY <2>1 DEF Messages, Worker
<1>5. /\ DOMAIN prevIndex' \subseteq Requests
      /\ sampled' # <<>> =>
           \A r \in DOMAIN prevIndex' : sampled'.count[prevIndex'[r]] \in Int
  BY ExecuteEffect DEF Worker
<1>6. Executing' =>
        /\ execState'.m \in Messages
        /\ ToSet(rows') = RowsOf(execState'.m)
        /\ execState'.discarded =
             {i \in DOMAIN rows' : rows'[i] \notin Emitting(execState'.m)}
  BY <1>2, <1>3, ExecuteEffect DEF Executing
<1> QED BY <1>3, <1>4, <1>5, <1>6 DEF Worker

\* Every message comes one place nearer: it will find the same batch, and
\* the worker will have cached no less for the rows of that batch.
LEMMA ExecuteNearer ==
  ASSUME Shape, Pipeline, Worker, Deliverable, Runner!ExecuteModel,
         NEW k \in 1..Len(inbox)
  PROVE  /\ Before(k)' = Before(k + 1)
         /\ \A r \in Before(k + 1) :
              \A x \in Int : x <= Limit(k + 1, r) => x <= Limit(k, r)'
         /\ \A r \in Requests \ inbox[1].finished :
              Acquainted(k + 1, r) => Acquainted(k, r)'
<1>1. ~Executing /\ inbox # <<>> /\ inbox' = Tail(inbox)
  BY ExecuteEffect
<1>2. PICK m \in Messages : m = inbox[1]
  BY <1>1, Stages
<1>3. /\ Len(inbox) \in {1, 2} /\ Len(inbox') = Len(inbox) - 1
      /\ \A j \in 1..Len(inbox') : inbox'[j] = inbox[j + 1]
  BY <1>1, TakeOldest
<1>4. k \in {1, 2} /\ k + 1 # 1 /\ (k + 1) - 1 = k
  BY <1>3
<1>5. k # 1 => inbox'[k - 1] = inbox[k]
  BY <1>3, <1>4
<1>6. Before(k)' = Before(k + 1)
  <2>1. CASE k = 1
    <3>1. ToSet(rows') = RowsOf(inbox[1])
      BY ExecuteEffect
    <3> QED BY <1>4, <2>1, <3>1 DEF Before
  <2>2. CASE k # 1
    BY <1>4, <1>5, <2>2 DEF Before
  <2> QED BY <2>1, <2>2
<1>7. ASSUME NEW r \in Before(k + 1), NEW x \in Int, x <= Limit(k + 1, r)
      PROVE  x <= Limit(k, r)'
  <2>1. CASE k = 1
    <3>1. r \in RowsOf(m) /\ r \in Requests
      BY <1>2, <1>4, <1>7, <2>1 DEF Before, RowsOf
    <3>2. /\ requests'[r].outs = m.outputs[r]
          /\ requests'[r].prevDraft = m.spec[r]
      BY <1>2, <3>1, ExecuteEffect
    <3>3. Executing' /\ execState'.m = m
      BY <1>2, <3>1, ExecuteEffect DEF Executing
    <3>4. PICK o, s \in Int : o = m.outputs[r] /\ s = m.spec[r] /\ s >= 0
      BY <3>1, MessageFacts
    <3>5. Limit(k + 1, r) = o + IF r \in Emitting(m) THEN 1 + s ELSE 0
      BY <1>2, <1>4, <2>1, <3>4 DEF Limit
    <3>6. Limit(k, r)' = o + s + (IF r \in Emitting(m) THEN 1 ELSE 0)
      BY <2>1, <3>2, <3>3, <3>4 DEF Limit
    <3> QED BY <1>7, <3>4, <3>5, <3>6
  <2>2. CASE k # 1
    <3>1. Limit(k, r)' = Limit(k + 1, r)
      BY <1>4, <1>5, <2>2 DEF Limit
    <3> QED BY <1>7, <3>1
  <2> QED BY <2>1, <2>2
<1>8. ASSUME NEW r \in Requests, r \notin m.finished, Acquainted(k + 1, r)
      PROVE  Acquainted(k, r)'
  <2>1. DOMAIN requests' = (DOMAIN requests \ m.finished) \union m.new
    BY <1>2, ExecuteEffect
  <2>2. CASE r \in DOMAIN requests
    BY <1>8, <2>1, <2>2 DEF Acquainted
  <2>3. CASE \E j \in 1..k : r \in inbox[j].new
    <3>1. PICK j \in 1..k : r \in inbox[j].new
      BY <2>3
    <3>2. CASE j = 1
      BY <1>2, <2>1, <3>1, <3>2 DEF Acquainted
    <3>3. CASE j # 1
      <4>1. j - 1 \in 1..(k - 1) /\ inbox'[j - 1] = inbox[j]
        BY <1>3, <1>4, <3>3
      <4> QED BY <3>1, <4>1 DEF Acquainted
    <3> QED BY <3>2, <3>3
  <2> QED BY <1>4, <1>8, <2>2, <2>3 DEF Acquainted
<1> QED BY <1>2, <1>6, <1>7, <1>8

\* Deliverable for one message.
Executable(k) ==
  LET m == inbox[k]
  IN  /\ m.new \subseteq RowsOf(m)
      /\ \A r \in m.new : m.outputs[r] = 0
      /\ \A r \in RowsOf(m) :
           /\ m.outputs[r] >= 0
           /\ \A j \in 1..k : r \notin inbox[j].finished
           /\ r \notin m.new =>
                /\ Acquainted(k, r)
                /\ r \in m.resumed \/ r \notin Before(k) =>
                     r \in m.all /\ m.outputs[r] = m.out[r]
                /\ r \in Before(k) => m.outputs[r] <= Limit(k, r)

LEMMA EachExecutable == Deliverable <=> \A k \in 1..Len(inbox) : Executable(k)
BY DEF Deliverable, Executable

LEMMA ExecuteDeliverable ==
  ASSUME Shape, Pipeline, Worker, Deliverable, Runner!ExecuteModel
  PROVE  Deliverable'
<1>1. ~Executing /\ inbox # <<>> /\ inbox' = Tail(inbox)
  BY ExecuteEffect
<1>2. ASSUME NEW k \in 1..Len(inbox')
      PROVE  Executable(k)'
  <2>1. /\ k + 1 \in 1..Len(inbox) /\ k \in 1..Len(inbox)
        /\ 1 \in 1..(k + 1) /\ k + 1 # 1
        /\ \A j \in 1..k : j + 1 \in 1..(k + 1) /\ j \in 1..Len(inbox')
    <3>1. Len(inbox) \in {1, 2} /\ Len(inbox') = Len(inbox) - 1
      BY <1>1, TakeOldest
    <3> QED BY <1>2, <3>1
  <2>2. PICK m \in Messages : m = inbox[k + 1] /\ m = inbox'[k]
    BY <1>1, <1>2, <2>1, TakeOldest, Stages
  <2>3. \A j \in 1..k : inbox'[j] = inbox[j + 1]
    BY <1>1, <2>1, TakeOldest
  <2>4. Executable(k + 1)
    BY <2>1 DEF Deliverable, Executable
  <2>5. m.new \subseteq RowsOf(m) /\ \A r \in m.new : m.outputs[r] = 0
    BY <2>2, <2>4 DEF Executable
  <2>6. ASSUME NEW r \in RowsOf(m)
        PROVE  /\ m.outputs[r] >= 0
               /\ \A j \in 1..k : r \notin inbox'[j].finished
               /\ r \notin m.new =>
                    /\ Acquainted(k, r)'
                    /\ r \in m.resumed \/ r \notin Before(k)' =>
                         r \in m.all /\ m.outputs[r] = m.out[r]
                    /\ r \in Before(k)' => m.outputs[r] <= Limit(k, r)'
    <3>1. /\ m.outputs[r] >= 0
          /\ \A j \in 1..(k + 1) : r \notin inbox[j].finished
          /\ r \notin m.new =>
               /\ Acquainted(k + 1, r)
               /\ r \in m.resumed \/ r \notin Before(k + 1) =>
                    r \in m.all /\ m.outputs[r] = m.out[r]
               /\ r \in Before(k + 1) => m.outputs[r] <= Limit(k + 1, r)
      BY <2>2, <2>4 DEF Executable
    <3>2. r \in Requests /\ m.outputs[r] \in Int
      BY MessageFacts DEF RowsOf
    <3>3. r \notin inbox[1].finished
      BY <2>1, <3>1
    <3>4. \A j \in 1..k : r \notin inbox'[j].finished
      BY <2>1, <2>3, <3>1
    <3>5. Before(k)' = Before(k + 1)
      BY <2>1, ExecuteNearer
    <3>6. Acquainted(k + 1, r) => Acquainted(k, r)'
      BY <2>1, <3>2, <3>3, ExecuteNearer
    <3>7. r \in Before(k + 1) /\ m.outputs[r] <= Limit(k + 1, r)
            => m.outputs[r] <= Limit(k, r)'
      BY <2>1, <3>2, ExecuteNearer
    <3> QED BY <3>1, <3>4, <3>5, <3>6, <3>7
  <2> QED BY <2>2, <2>5, <2>6 DEF Executable
<1> QED BY <1>2 DEF Deliverable, Executable

LEMMA ExecuteNext ==
  ASSUME Shape, Pipeline, Worker, Deliverable, NextDeliverable,
         Runner!ExecuteModel, UNCHANGED <<vars, prevStep, admitVars>>
  PROVE  NextDeliverable'
<1>1. ~Executing /\ inbox # <<>> /\ inbox' = Tail(inbox)
  BY ExecuteEffect
<1>2. UNCHANGED <<req, frames, finishedReqIds, phase, sched, preempted, prevStep,
                  newReqs, resumedReqs>>
  BY DEF vars, stepVars, admitVars
<1>3. PICK L \in 1..Len(inbox) :
        /\ L = Len(inbox) /\ Len(inbox') + 1 = L /\ Len(inbox) + 1 = L + 1
        /\ 1 \in 1..Len(inbox)
        /\ \A k \in 1..Len(inbox') :
             k + 1 \in 1..Len(inbox) /\ inbox'[k] = inbox[k + 1]
  <2>1. /\ Len(inbox) \in {1, 2} /\ Len(inbox') = Len(inbox) - 1
        /\ \A k \in 1..Len(inbox') :
             k + 1 \in 1..Len(inbox) /\ inbox'[k] = inbox[k + 1]
    BY <1>1, TakeOldest
  <2> QED BY <2>1
<1>4. prevStep' = Before(L)'
  BY <1>2, <1>3, ExecuteNearer DEF NextDeliverable
<1>5. \A k \in 1..Len(inbox') :
        \A r \in inbox'[k].finished : req'[r].status = "FINISHED"
  BY <1>2, <1>3 DEF NextDeliverable
<1>6. ASSUME NEW r \in Requests, req[r].status \in Active
      PROVE  /\ r \notin newReqs => Acquainted(L, r)'
             /\ r \in prevStep => req[r].out + req[r].ph <= Limit(L, r)'
  <2>1. r \notin inbox[1].finished
    BY <1>3, <1>6 DEF NextDeliverable, Active
  <2>2. /\ r \notin newReqs => Acquainted(L + 1, r)
        /\ r \in prevStep =>
             r \in Before(L + 1) /\ req[r].out + req[r].ph <= Limit(L + 1, r)
    BY <1>3, <1>6 DEF NextDeliverable
  <2>3. req[r].out + req[r].ph \in Int
    BY DEF Shape, ShapedRecord
  <2>4. Acquainted(L + 1, r) => Acquainted(L, r)'
    BY <1>3, <2>1, ExecuteNearer
  <2>5. r \in Before(L + 1) /\ req[r].out + req[r].ph <= Limit(L + 1, r)
          => req[r].out + req[r].ph <= Limit(L, r)'
    BY <1>3, <2>3, ExecuteNearer
  <2> QED BY <2>2, <2>4, <2>5
<1>7. Scheduled' = Scheduled
  BY <1>2 DEF Scheduled
<1> QED BY <1>2, <1>3, <1>4, <1>5, <1>6, <1>7 DEF NextDeliverable

LEMMA SamplePipeline ==
  ASSUME Shape, Pipeline, Worker, Runner!SampleTokens, frames' = frames
  PROVE  Pipeline'
<1>1. PICK m \in Messages : m = execState.m
  BY SampleEffect DEF Worker
<1>2. PICK o \in Answers :
        /\ outbox' = Append(outbox, o)
        /\ \A r \in RowsOf(m) :
             /\ o.generated[r] \in 0..(m.spec[r] + 1)
             /\ o.generated[r] > 0 <=> r \in Emitting(m)
             /\ o.lengths # <<>> => o.lengths[r] \in DraftLengths
  BY <1>1, SampleEffect
<1>3. PICK O, L \in Nat : O = Len(outbox) /\ L = Len(inbox)
  BY Stages
<1>4. /\ Executing /\ InHand = 1 /\ ~Executing' /\ InHand' = 0
      /\ inbox' = inbox
  BY SampleEffect DEF Executing, InHand
<1>5. /\ outbox' \in Seq(Answers) /\ Len(outbox') = O + 1
      /\ \A k \in 1..O : outbox'[k] = outbox[k]
      /\ outbox'[O + 1] = o
  BY <1>2, <1>3, AppendProperties DEF Pipeline
<1>6. /\ Len(frames) = O + 1 + L
      /\ \A k \in 1..O : Reports(outbox[k], frames[k])
      /\ Announces(m, frames[O + 1])
      /\ \A k \in 1..L : Announces(inbox[k], frames[O + 1 + k])
  BY <1>1, <1>3, <1>4 DEF Pipeline
<1>7. Reports(o, frames[O + 1])
  BY <1>2, <1>6 DEF Reports, Announces, RowsOf
<1>8. \A k \in 1..(O + 1) : Reports(outbox'[k], frames[k])
  <2>1. \A k \in 1..(O + 1) : k \in 1..O \/ k = O + 1
    OBVIOUS
  <2> QED BY <1>5, <1>6, <1>7, <2>1
<1>9. Len(frames) = (O + 1) + 0 + L
  BY <1>3, <1>6
<1>10. \A k \in 1..L : Announces(inbox[k], frames[(O + 1) + 0 + k])
  <2>1. (O + 1) + 0 = O + 1
    OBVIOUS
  <2> QED BY <1>6, <2>1
<1> QED BY <1>3, <1>4, <1>5, <1>8, <1>9, <1>10 DEF Pipeline

LEMMA SampleWorker ==
  ASSUME Worker, Runner!SampleTokens
  PROVE  Worker'
<1>1. ~Executing' /\ rows' = rows /\ DOMAIN requests' = DOMAIN requests
  BY SampleEffect DEF Executing
<1>2. \A r \in DOMAIN requests' : requests'[r] \in Cached
  BY <1>1, SampleEffect
<1>3. /\ DOMAIN prevIndex' \subseteq Requests
      /\ \A r \in DOMAIN prevIndex' : sampled'.count[prevIndex'[r]] \in Int
  BY SampleEffect
<1> QED BY <1>1, <1>2, <1>3 DEF Worker

\* What was to be sampled in addition has been.
LEMMA SampleSame ==
  ASSUME Worker, Runner!SampleTokens, NEW k \in Nat
  PROVE  /\ Before(k)' = Before(k)
         /\ \A r \in Before(k) : Limit(k, r)' = Limit(k, r)
         /\ \A r : Acquainted(k, r)' <=> Acquainted(k, r)
<1>1. /\ Executing /\ ~Executing' /\ rows' = rows /\ inbox' = inbox
      /\ DOMAIN requests' = DOMAIN requests
  BY SampleEffect DEF Executing
<1>2. Before(k)' = Before(k)
  BY <1>1 DEF Before
<1>3. \A r : Acquainted(k, r)' <=> Acquainted(k, r)
  BY <1>1 DEF Acquainted
<1>4. ASSUME NEW r \in Before(k)
      PROVE  Limit(k, r)' = Limit(k, r)
  <2>1. CASE k = 1
    <3>1. r \in DOMAIN requests
      BY <2>1 DEF Before, Worker
    <3>2. PICK o, d \in Int : o = requests[r].outs /\ d = requests[r].prevDraft
      BY <3>1 DEF Worker, Cached
    <3>3. PICK e \in {0, 1} : e = IF r \in Emitting(execState.m) THEN 1 ELSE 0
      OBVIOUS
    <3>4. requests'[r].outs = o + e /\ requests'[r].prevDraft = d
      BY <3>1, <3>2, <3>3, SampleEffect
    <3>5. Limit(k, r) = o + d + e
      BY <1>1, <2>1, <3>2, <3>3 DEF Limit
    <3>6. Limit(k, r)' = (o + e) + d + 0
      BY <1>1, <2>1, <3>4 DEF Limit
    <3>7. (o + e) + d + 0 = o + d + e
      OBVIOUS
    <3> QED BY <3>5, <3>6, <3>7
  <2>2. CASE k # 1
    BY <1>1, <2>2 DEF Limit
  <2> QED BY <2>1, <2>2
<1> QED BY <1>2, <1>3, <1>4

LEMMA SampleDeliverable ==
  ASSUME Pipeline, Worker, Deliverable, Runner!SampleTokens
  PROVE  Deliverable'
<1>1. inbox' = inbox
  BY SampleEffect
<1>2. ASSUME NEW k \in 1..Len(inbox)
      PROVE  Executable(k)'
  <2>1. Executable(k) /\ k \in Nat
    BY LenProperties DEF Deliverable, Executable
  <2>2. Before(k)' = Before(k)
    BY <2>1, SampleSame
  <2>3. \A r \in Before(k) : Limit(k, r)' = Limit(k, r)
    BY <2>1, SampleSame
  <2>4. \A r : Acquainted(k, r)' <=> Acquainted(k, r)
    BY <2>1, SampleSame
  <2> QED BY <1>1, <2>1, <2>2, <2>3, <2>4 DEF Executable
<1> QED BY <1>1, <1>2 DEF Deliverable, Executable

LEMMA SampleNext ==
  ASSUME Pipeline, Worker, NextDeliverable, Runner!SampleTokens,
         UNCHANGED <<vars, prevStep, admitVars>>
  PROVE  NextDeliverable'
<1>1. UNCHANGED <<req, frames, finishedReqIds, phase, sched, preempted, prevStep,
                  newReqs, resumedReqs, inbox>>
  BY SampleEffect DEF vars, stepVars, admitVars
<1>2. PICK next \in Nat : next = Len(inbox) + 1
  BY LenProperties DEF Pipeline
<1>3. /\ Before(next)' = Before(next)
      /\ \A r \in Before(next) : Limit(next, r)' = Limit(next, r)
      /\ \A r : Acquainted(next, r)' <=> Acquainted(next, r)
  BY SampleSame
<1>4. Scheduled' = Scheduled
  BY <1>1 DEF Scheduled
<1>5. prevStep' = Before(next)'
  BY <1>1, <1>2, <1>3 DEF NextDeliverable
<1>6. ASSUME NEW r \in Requests, req[r].status \in Active
      PROVE  /\ r \notin newReqs => Acquainted(next, r)'
             /\ r \in prevStep => req[r].out + req[r].ph <= Limit(next, r)'
  BY <1>2, <1>3, <1>6 DEF NextDeliverable
<1> QED BY <1>1, <1>2, <1>4, <1>5, <1>6 DEF NextDeliverable

-----------------------------------------------------------------------------
(* The steps of the scheduler are steps of Scheduler.                      *)

\* Nothing the worker answers is a surprise to update_from_output().
LEMMA UpdateRowRefines ==
  ASSUME IInv, Pipeline, Answering, NEW r \in Requests, UpdateRow(r)
  PROVE  EmptyRow(r) \/ AcceptTokens(r)
<1>1. /\ Visit(r) /\ req[r].status # "FINISHED" /\ phase = "update" /\ r \in todo
      /\ UNCHANGED <<pauseState, frames, phase, stepVars>>
  BY DEF UpdateRow, Visit
<1>2. PICK f : f = Head(frames) /\ f = frames[1]
  BY <1>1, FramesLen DEF IInv, Shape
<1>3. PICK o : o = Head(outbox) /\ o = outbox[1] /\ Reports(o, f)
  <2>1. outbox # <<>> /\ Len(outbox) \in Nat
    BY <1>1, LenProperties DEF Answering, Pipeline
  <2>2. 1 \in 1..Len(outbox)
    BY <2>1, EmptySeq DEF Pipeline
  <2>3. Reports(outbox[1], frames[1])
    BY <2>2 DEF Pipeline
  <2> QED BY <1>2, <2>1, <2>3
<1>4. /\ f.stale = {}
      /\ o.generated[r] \in 0..(f.spec[r] + 1)
      /\ o.generated[r] > 0 <=> r \in f.emits
      /\ o.lengths # <<>> => o.lengths[r] \in DraftLengths
  <2>1. f.n[r] > 0
    BY <1>1, <1>2 DEF Answering
  <2> QED BY <1>3, <2>1 DEF Reports
<1>5. f.spec[r] \in Int
  <2>1. 1 \in 1..Len(frames)
    BY <1>1, FramesLen DEF IInv, Shape
  <2> QED BY <1>2, <2>1, OwedFacts DEF IInv, Ledger
<1>6. \A record : LengthFor(r, record) \in Reported(record)
  BY <1>3, <1>4 DEF LengthFor, Reported
<1>7. PICK generated \in 0..(f.spec[r] + 1) :
        generated = o.generated[r] /\ generated = Head(outbox).generated[r]
  BY <1>3, <1>4
<1>8. \/ /\ generated = 0
         /\ req' = [req EXCEPT ![r] = Resized(req[r], 0, LengthFor(r, req[r]))]
         /\ UNCHANGED <<queueVars, kvVars, finishedReqIds>>
      \/ /\ generated > 0
         /\ \E kept \in 1..generated :
              \/ /\ StopsAfter(r, generated, kept, TRUE)
                 /\ req' = [req EXCEPT ![r] = Finished(Kept(r, generated, kept))]
                 /\ LeaveEngine(r)
              \/ /\ StopsAfter(r, generated, kept, FALSE)
                 /\ req' = [req EXCEPT ![r] =
                      Resized(Kept(r, generated, kept), kept,
                              LengthFor(r, Kept(r, generated, kept)))]
                 /\ UNCHANGED <<queueVars, kvVars, finishedReqIds>>
  <2>1. Head(outbox).generated[r] = generated
    BY <1>7
  <2> QED BY <2>1, Zenon DEF UpdateRow, Kept
<1>9. CASE generated = 0
  <2>1. /\ req' = [req EXCEPT ![r] = Resized(req[r], 0, LengthFor(r, req[r]))]
        /\ UNCHANGED <<queueVars, kvVars, finishedReqIds>>
    <3>1. ~(generated > 0)
      BY <1>9
    <3> QED BY <1>8, <3>1, Zenon
  <2>2. r \notin Head(frames).emits
    BY <1>2, <1>4, <1>7, <1>9
  <2>3. LengthFor(r, req[r]) \in Reported(req[r])
    BY <1>6
  <2>4. EmptyRow(r)
    BY <1>1, <2>1, <2>2, <2>3 DEF EmptyRow
  <2> QED BY <2>4
<1>10. CASE generated # 0
  <2>1. generated > 0 /\ generated \in 1..(Head(frames).spec[r] + 1)
    BY <1>2, <1>5, <1>7, <1>10
  <2>2. PICK kept \in 1..generated :
          \/ /\ StopsAfter(r, generated, kept, TRUE)
             /\ req' = [req EXCEPT ![r] = Finished(Kept(r, generated, kept))]
             /\ LeaveEngine(r)
          \/ /\ StopsAfter(r, generated, kept, FALSE)
             /\ req' = [req EXCEPT ![r] =
                  Resized(Kept(r, generated, kept), kept,
                          LengthFor(r, Kept(r, generated, kept)))]
             /\ UNCHANGED <<queueVars, kvVars, finishedReqIds>>
    BY <1>8, <1>10, Zenon
  <2>3. r \in Head(frames).emits \ Head(frames).stale
    BY <1>2, <1>4, <1>7, <2>1
  <2>4. \/ /\ StopsAfter(r, generated, kept, TRUE)
           /\ req' = [req EXCEPT ![r] = Finished(Kept(r, generated, kept))]
           /\ LeaveEngine(r)
        \/ /\ StopsAfter(r, generated, kept, FALSE)
           /\ \E d \in Reported(Kept(r, generated, kept)) :
                req' = [req EXCEPT ![r] =
                          Resized(Kept(r, generated, kept), kept, d)]
           /\ UNCHANGED <<queueVars, kvVars, finishedReqIds>>
    BY <1>6, <2>2
  <2>5. AcceptTokens(r)
    BY <1>1, <2>1, <2>3, <2>4 DEF AcceptTokens, Kept
  <2> QED BY <2>5
<1> QED BY <1>9, <1>10

LEMMA StepRefines ==
  ASSUME IInv, Pipeline, Answering, [EngineNext]_engineVars
  PROVE  [Next]_vars
<1>1. CASE UNCHANGED engineVars
  BY <1>1 DEF engineVars
<1>2. CASE Begin \/ RunningLoop \/ AdmitHead \/ Send
  BY <1>2 DEF Begin, RunningLoop, AdmitHead, Send, Next, EngineStep, ScheduleStep
<1>3. CASE Execute
  BY <1>3 DEF Execute
<1>4. CASE Receive \/ EndReceive
  BY <1>4 DEF Receive, EndReceive, Next, EngineStep, UpdateStep
<1>5. CASE \E r \in Requests : UpdateRow(r) \/ SkipRow(r)
  <2>1. PICK r \in Requests : UpdateRow(r) \/ SkipRow(r)
    BY <1>5
  <2>2. SkipFinished(r) \/ EmptyRow(r) \/ AcceptTokens(r)
    BY <2>1, UpdateRowRefines DEF SkipRow
  <2> QED BY <2>2 DEF Next, EngineStep, UpdateStep
<1>6. CASE Outside
  BY <1>6 DEF Outside, Next, OperatorStep
<1> QED BY <1>1, <1>2, <1>3, <1>4, <1>5, <1>6 DEF EngineNext

-----------------------------------------------------------------------------
(* The steps of the scheduler keep the invariant.                          *)

\* Every limit is a number of tokens.
LEMMA LimitNat ==
  ASSUME Shape, Pipeline, Worker, Deliverable,
         NEW k \in 1..(Len(inbox) + 1), NEW r \in Before(k)
  PROVE  Limit(k, r) \in Int /\ Limit(k, r) >= 0
<1>1. CASE k = 1
  <2>1. r \in DOMAIN requests
    BY <1>1 DEF Before, Worker
  <2>2. PICK o, d \in Int :
          o = requests[r].outs /\ d = requests[r].prevDraft /\ o >= 0 /\ d >= 0
    BY <2>1 DEF Worker, Cached
  <2> QED BY <1>1, <2>2 DEF Limit
<1>2. CASE k # 1
  <2>1. k - 1 \in 1..Len(inbox)
    BY <1>2, Stages
  <2>2. PICK m \in Messages : m = inbox[k - 1]
    BY <2>1, Stages
  <2>3. r \in RowsOf(m)
    BY <1>2, <2>2 DEF Before
  <2>4. m.outputs[r] >= 0
    BY <2>1, <2>2, <2>3 DEF Deliverable
  <2>5. PICK o, s \in Int : o = m.outputs[r] /\ s = m.spec[r] /\ s >= 0 /\ o >= 0
    BY <2>3, <2>4, MessageFacts DEF RowsOf
  <2>6. Limit(k, r) = o + IF r \in Emitting(m) THEN 1 + s ELSE 0
    BY <1>2, <2>2, <2>5 DEF Limit
  <2> QED BY <2>5, <2>6
<1> QED BY <1>1, <1>2

\* A step of the scheduler that sends nothing: no request counts on more
\* output ids than before, unless it is new to the worker.
LEMMA NextKept ==
  ASSUME Shape, Pipeline, Worker, Deliverable, NextDeliverable,
         UNCHANGED <<inbox, rows, requests, execState, prevStep>>,
         frames' # <<>> => prevStep = RowsOf(frames'[Len(frames')]),
         req' \in [Requests -> ShapedRecord],
         \A r \in Requests :
           req[r].status = "FINISHED" => req'[r].status = "FINISHED",
         \A r \in finishedReqIds' : req'[r].status = "FINISHED",
         \A r \in Requests :
           req'[r].status \in Active =>
             \/ /\ req[r].status \in Active
                /\ r \in newReqs => r \in newReqs'
                /\ req'[r].out + req'[r].ph <= req[r].out + req[r].ph
             \/ r \in newReqs' /\ req'[r].out = 0 /\ req'[r].ph = 0,
         \A r \in Requests :
           req'[r].status = "PREEMPTED" /\ r \notin preempted' =>
             req[r].status = "PREEMPTED" /\ r \notin preempted,
         phase' # "waiting" => newReqs' = {} /\ resumedReqs' = {},
         newReqs' \subseteq Scheduled',
         \A r \in newReqs' : req'[r].out = 0 /\ req'[r].ph = 0,
         resumedReqs' \in SUBSET (Requests \ prevStep)
  PROVE  NextDeliverable'
<1>1. UNCHANGED <<inbox, rows, requests, execState, prevStep>>
  OBVIOUS
<1>2. PICK next \in 1..(Len(inbox) + 1) : next = Len(inbox) + 1
  BY Stages
<1>3. /\ Before(next)' = Before(next)
      /\ \A r : Limit(next, r)' = Limit(next, r)
      /\ \A r : Acquainted(next, r)' <=> Acquainted(next, r)
  BY <1>1 DEF Before, Limit, Acquainted, Executing
<1>4. \A k \in 1..Len(inbox) :
        \A r \in inbox[k].finished : req'[r].status = "FINISHED"
  <2>1. \A k \in 1..Len(inbox) : inbox[k].finished \subseteq Requests
    BY Stages DEF Messages
  <2> QED BY <2>1 DEF NextDeliverable
<1>5. ASSUME NEW r \in Requests, req'[r].status \in Active
      PROVE  /\ r \notin newReqs' => Acquainted(next, r)
             /\ r \in prevStep =>
                  req'[r].out + req'[r].ph <= Limit(next, r)
  <2>1. prevStep = Before(next)
    BY <1>2 DEF NextDeliverable
  <2>2. r \in prevStep => Limit(next, r) \in Int /\ Limit(next, r) >= 0
    BY <2>1, LimitNat
  <2>3. PICK x, y \in Int : /\ x = req[r].out + req[r].ph
                            /\ y = req'[r].out + req'[r].ph
    <3>1. req[r] \in ShapedRecord /\ req'[r] \in ShapedRecord
      BY DEF Shape
    <3>2. /\ req[r].out \in Int /\ req[r].ph \in Int
          /\ req'[r].out \in Int /\ req'[r].ph \in Int
      BY <3>1 DEF ShapedRecord
    <3>3. /\ req[r].out + req[r].ph \in Int
          /\ req'[r].out + req'[r].ph \in Int
      BY <3>2
    <3> QED BY <3>3
  <2>4. CASE /\ req[r].status \in Active
             /\ r \in newReqs => r \in newReqs'
             /\ y <= x
    <3>1. /\ r \notin newReqs => Acquainted(next, r)
          /\ r \in prevStep => x <= Limit(next, r)
      BY <1>2, <2>3, <2>4 DEF NextDeliverable
    <3> QED BY <2>2, <2>3, <2>4, <3>1
  <2>5. CASE r \in newReqs' /\ y = 0
    BY <2>2, <2>3, <2>5
  <2> QED BY <1>5, <2>3, <2>4, <2>5
<1>6. ASSUME NEW r \in Requests, req'[r].status = "PREEMPTED", r \notin preempted'
      PROVE  r \notin prevStep
  BY <1>6 DEF NextDeliverable
<1>7. prevStep = Before(next)
  BY <1>2 DEF NextDeliverable
<1>8. Len(inbox') + 1 = next /\ prevStep' = Before(next)'
  BY <1>1, <1>2, <1>3, <1>7
<1>9. ASSUME NEW r \in Requests, req'[r].status \in Active
      PROVE  /\ r \notin newReqs' => Acquainted(next, r)'
             /\ r \in prevStep =>
                  req'[r].out + req'[r].ph <= Limit(next, r)'
  BY <1>3, <1>5, <1>9
<1> QED BY <1>1, <1>4, <1>6, <1>7, <1>8, <1>9 DEF NextDeliverable

\* A step of the scheduler that touches no request.
LEMMA QuietNext ==
  ASSUME Shape, Pipeline, Worker, Deliverable, NextDeliverable,
         UNCHANGED <<inbox, rows, requests, execState, prevStep, req,
                     finishedReqIds, preempted>>,
         frames' # <<>> => prevStep = RowsOf(frames'[Len(frames')]),
         phase # "waiting", newReqs' = {}, resumedReqs' = {}
  PROVE  NextDeliverable'
<1>1. newReqs = {} /\ resumedReqs = {}
  BY DEF NextDeliverable
<1>2. req' \in [Requests -> ShapedRecord]
  BY DEF Shape
<1>3. \A r \in finishedReqIds' : req'[r].status = "FINISHED"
  BY DEF NextDeliverable
<1>4. \A r \in Requests : req[r].out + req[r].ph <= req[r].out + req[r].ph
  <2>1. \A r \in Requests : req[r].out \in Int /\ req[r].ph \in Int
    BY Numbers
  <2> QED BY <2>1
<1> QED BY <1>1, <1>2, <1>3, <1>4, NextKept

\* A step that changes the record of one request, which stays or becomes
\* preempted, or finishes.
LEMMA OneNext ==
  ASSUME Shape, Pipeline, Worker, Deliverable, NextDeliverable,
         UNCHANGED <<inbox, rows, requests, execState, prevStep, frames,
                     newReqs, resumedReqs>>,
         phase # "waiting", phase' # "waiting",
         NEW r \in Requests, NEW record \in ShapedRecord,
         req' = [req EXCEPT ![r] = record],
         finishedReqIds' \subseteq finishedReqIds \union {r},
         r \in finishedReqIds' => record.status = "FINISHED",
         req[r].status = "FINISHED" => record.status = "FINISHED",
         record.status \in Active =>
           /\ req[r].status \in Active
           /\ record.out + record.ph <= req[r].out + req[r].ph,
         preempted \subseteq preempted',
         record.status = "PREEMPTED" =>
           req[r].status = "PREEMPTED" \/ r \in preempted'
  PROVE  NextDeliverable'
<1>1. newReqs' = {} /\ resumedReqs' = {}
  BY DEF NextDeliverable
<1>2. req' \in [Requests -> ShapedRecord]
  BY DEF Shape
<1>3. req'[r] = record /\ \A q \in Requests : q # r => req'[q] = req[q]
  BY DEF Shape
<1>4. finishedReqIds' \subseteq Requests
  BY DEF Shape
<1>5. \A q \in finishedReqIds' : req'[q].status = "FINISHED"
  BY <1>3, <1>4 DEF NextDeliverable
<1>6. \A q \in Requests : req[q].out + req[q].ph <= req[q].out + req[q].ph
  <2>1. \A q \in Requests : req[q].out \in Int /\ req[q].ph \in Int
    BY Numbers
  <2> QED BY <2>1
<1>7. frames' # <<>> => prevStep = RowsOf(frames'[Len(frames')])
  BY DEF NextDeliverable
<1>8. newReqs = {}
  BY DEF NextDeliverable
<1>9. ASSUME NEW q \in Requests, req'[q].status \in Active
      PROVE  /\ req[q].status \in Active
             /\ q \in newReqs => q \in newReqs'
             /\ req'[q].out + req'[q].ph <= req[q].out + req[q].ph
  BY <1>3, <1>6, <1>8, <1>9
<1>10. \A q \in Requests :
         req'[q].status = "PREEMPTED" /\ q \notin preempted' =>
           req[q].status = "PREEMPTED" /\ q \notin preempted
  BY <1>3
<1>11. \A q \in Requests :
         req[q].status = "FINISHED" => req'[q].status = "FINISHED"
  BY <1>3
<1> QED BY <1>1, <1>2, <1>5, <1>7, <1>9, <1>10, <1>11, NextKept

LEMMA RunningLoopNext ==
  ASSUME EInv, RunningLoop
  PROVE  NextDeliverable'
<1>1. /\ Shape /\ Queued /\ Ledger /\ Pipeline /\ Worker /\ Deliverable
      /\ NextDeliverable
  BY DEF EInv, IInv
<1>2. UNCHANGED <<inbox, rows, requests, execState, prevStep, newReqs,
                  resumedReqs>>
  BY DEF RunningLoop, runnerVars, admitVars
<1>3. frames # <<>> => prevStep = RowsOf(frames[Len(frames)])
  BY <1>1 DEF NextDeliverable
<1>4. CASE SkipRunning \/ EndRunning
  <2>1. /\ phase = "running"
        /\ UNCHANGED <<req, finishedReqIds, preempted, frames>>
    BY <1>4 DEF SkipRunning, EndRunning, InRunningLoop, stepVars
  <2>2. newReqs' = {} /\ resumedReqs' = {}
    BY <1>1, <1>2, <2>1 DEF NextDeliverable
  <2> QED BY <1>1, <1>2, <1>3, <2>1, <2>2, QuietNext
<1>5. CASE ScheduleRunning
  <2>1. PICK r \in Requests : r = running[cursor]
    BY <1>1, <1>5, RunningRequest DEF ScheduleRunning
  <2>2. /\ phase = "running" /\ phase' = "running"
        /\ req' = [req EXCEPT ![r].spec = 0]
        /\ UNCHANGED <<finishedReqIds, preempted, frames>>
    BY <1>5, <2>1 DEF ScheduleRunning, InRunningLoop
  <2>3. PICK record \in ShapedRecord :
          /\ record = [req[r] EXCEPT !.spec = 0]
          /\ record.status = req[r].status /\ record.out = req[r].out
          /\ record.ph = req[r].ph
    <3>1. req[r] \in ShapedRecord /\ 0 \in 0..NumSpecTokens
      BY <1>1, SchedulerAssumption DEF Shape
    <3>2. /\ [req[r] EXCEPT !.spec = 0] \in ShapedRecord
          /\ [req[r] EXCEPT !.spec = 0].status = req[r].status
          /\ [req[r] EXCEPT !.spec = 0].out = req[r].out
          /\ [req[r] EXCEPT !.spec = 0].ph = req[r].ph
      BY <3>1 DEF ShapedRecord
    <3> QED BY <3>2
  <2>4. req' = [req EXCEPT ![r] = record]
    BY <2>2, <2>3
  <2>5. /\ r \in finishedReqIds => req[r].status = "FINISHED"
        /\ record.status # "FINISHED" /\ record.status # "PREEMPTED"
    BY <1>1, <1>5, <2>1, <2>3, RunningRequest
    DEF NextDeliverable, ScheduleRunning
  <2>6. req[r].out + req[r].ph <= req[r].out + req[r].ph
    <3>1. req[r].out \in Int /\ req[r].ph \in Int
      BY <1>1, Numbers
    <3> QED BY <3>1
  <2> QED BY <1>1, <1>2, <2>2, <2>3, <2>4, <2>5, <2>6, OneNext
<1>6. CASE PreemptLast
  <2>1. PICK r \in Requests : r = Last(running) /\ req[r].status = "RUNNING"
    <3>1. running # <<>>
      BY <1>1, <1>6, RunningRequest DEF PreemptLast
    <3>2. Last(running) \in Requests /\ Last(running) \in ToSet(running)
      BY <1>1, <3>1, FrontOfQueue DEF Queued
    <3> QED BY <1>1, <3>2 DEF Queued
  <2>2. /\ phase = "running" /\ phase' = "running"
        /\ req' = [req EXCEPT ![r] = Preempted(req[r])]
        /\ preempted' = preempted \union {r}
        /\ UNCHANGED <<finishedReqIds, frames>>
    BY <1>6, <2>1 DEF PreemptLast, InRunningLoop
  <2>3. PICK record \in ShapedRecord :
          /\ record = Preempted(req[r])
          /\ record.status = "PREEMPTED" /\ record.out = req[r].out
          /\ record.ph = req[r].ph
    <3>1. req[r] \in ShapedRecord /\ 0 \in 0..NumSpecTokens
      BY <1>1, SchedulerAssumption DEF Shape
    <3>2. /\ Preempted(req[r]) \in ShapedRecord
          /\ Preempted(req[r]).status = "PREEMPTED"
          /\ Preempted(req[r]).out = req[r].out
          /\ Preempted(req[r]).ph = req[r].ph
      BY <3>1 DEF ShapedRecord, Preempted, Statuses
    <3> QED BY <3>2
  <2>4. r \notin finishedReqIds /\ req[r].status \in Active
    BY <1>1, <2>1 DEF NextDeliverable, Active
  <2>5. req[r].out + req[r].ph <= req[r].out + req[r].ph
    <3>1. req[r].out \in Int /\ req[r].ph \in Int
      BY <1>1, Numbers
    <3> QED BY <3>1
  <2> QED BY <1>1, <1>2, <2>1, <2>2, <2>3, <2>4, <2>5, OneNext
<1> QED BY <1>4, <1>5, <1>6 DEF RunningLoop

LEMMA AdmitHeadNext ==
  ASSUME EInv, AdmitHead
  PROVE  NextDeliverable'
<1>1. /\ IInv /\ Shape /\ Queued /\ Ledger /\ Pipeline /\ Worker
      /\ Deliverable /\ NextDeliverable /\ InWaitingLoop
  BY DEF EInv, IInv, AdmitHead, Admit
<1>2. PICK r \in Requests :
        r = Head(waiting) /\ req[r].status \in {"WAITING", "PREEMPTED"}
  BY <1>1, WaitingRequest
<1>3. PICK hit \in CachedPrefixes(r), n \in Int :
        /\ n = NumPrefillTokens(r, hit) /\ hit \in Int /\ 0 <= hit
        /\ sched' = [sched EXCEPT ![r] = n]
        /\ req' = [req EXCEPT ![r].status = "RUNNING", ![r].computed = hit]
  BY <1>1, <1>2, WaitingRequest DEF AdmitHead, Admit
<1>4. /\ UNCHANGED <<inbox, rows, requests, execState, prevStep, finishedReqIds,
                     frames, phase, preempted>>
      /\ phase = "waiting" /\ preempted = {} /\ budget > 0
  BY <1>1 DEF AdmitHead, Admit, runnerVars, InWaitingLoop
<1>5. IF req[r].status = "WAITING"
      THEN newReqs' = newReqs \union {r} /\ resumedReqs' = resumedReqs
      ELSE resumedReqs' = resumedReqs \union {r} /\ newReqs' = newReqs
  BY <1>2 DEF AdmitHead
<1>6. n > 0
  <2>1. /\ NumTokens(r) \in Int /\ NumTokens(r) > 0
        /\ budget \in Int /\ LongPrefillThreshold \in Int
    BY <1>1, Numbers
  <2>2. hit < NumTokens(r)
    BY <1>3, <2>1 DEF CachedPrefixes
  <2>3. n = Least(Capped(NumTokens(r) - hit), budget)
    BY <1>3 DEF NumPrefillTokens
  <2> QED BY <1>3, <1>4, <2>1, <2>2, <2>3 DEF Least, Capped
<1>7. /\ req' \in [Requests -> ShapedRecord]
      /\ req'[r].status = "RUNNING" /\ req'[r].out = req[r].out
      /\ req'[r].ph = req[r].ph
      /\ \A q \in Requests : q # r => req'[q] = req[q]
  <2>1. PICK record \in ShapedRecord :
          /\ record = [req[r] EXCEPT !.status = "RUNNING", !.computed = hit]
          /\ record.status = "RUNNING" /\ record.out = req[r].out
          /\ record.ph = req[r].ph
    <3>1. req[r] \in ShapedRecord
      BY <1>1 DEF Shape
    <3> DEFINE new == [req[r] EXCEPT !.status = "RUNNING", !.computed = hit]
    <3>2. /\ new \in ShapedRecord /\ new.status = "RUNNING"
          /\ new.out = req[r].out /\ new.ph = req[r].ph
      BY <1>3, <3>1 DEF ShapedRecord, Statuses
    <3> QED BY <3>2
  <2>2. req' = [req EXCEPT ![r] = record]
    BY <1>3, <2>1
  <2> QED BY <1>1, <2>1, <2>2 DEF Shape
<1>8. req[r].status = "WAITING" => req[r].out = 0 /\ req[r].ph = 0
  BY <1>1 DEF Ledger, Books, AtRest
<1>9. req[r].status = "PREEMPTED" => r \notin prevStep
  BY <1>1, <1>4 DEF NextDeliverable
<1>10. newReqs' \subseteq Scheduled'
  <2>1. \A q \in newReqs : sched[q] > 0
    BY <1>1 DEF NextDeliverable, Scheduled
  <2>2. \A q \in Requests : sched'[q] = IF q = r THEN n ELSE sched[q]
    BY <1>1, <1>3 DEF Shape
  <2>3. newReqs' \subseteq Requests
    BY <1>1, <1>5 DEF NextDeliverable, Scheduled
  <2> QED BY <1>5, <1>6, <2>1, <2>2, <2>3 DEF Scheduled
<1>11. r \notin newReqs
  <2>1. ~(sched[r] > 0)
    BY <1>1, <1>2 DEF Ledger, Books, StepBooked
  <2> QED BY <1>1, <2>1 DEF NextDeliverable, Scheduled
<1>12. \A q \in newReqs' : req'[q].out = 0 /\ req'[q].ph = 0
  <2>1. newReqs \subseteq Requests
    BY <1>1 DEF NextDeliverable, Scheduled
  <2>2. \A q \in newReqs : req'[q].out = 0 /\ req'[q].ph = 0
    BY <1>1, <1>7, <1>11, <2>1 DEF NextDeliverable
  <2> QED BY <1>5, <1>7, <1>8, <2>2
<1>13. resumedReqs' \in SUBSET (Requests \ prevStep)
  BY <1>1, <1>2, <1>5, <1>9 DEF NextDeliverable
<1>14. \A q \in Requests :
         req'[q].status \in Active =>
           \/ /\ req[q].status \in Active
              /\ q \in newReqs => q \in newReqs'
              /\ req'[q].out + req'[q].ph <= req[q].out + req[q].ph
           \/ q \in newReqs' /\ req'[q].out = 0 /\ req'[q].ph = 0
  <2>1. \A q \in Requests : req[q].out + req[q].ph <= req[q].out + req[q].ph
    <3>1. \A q \in Requests : req[q].out \in Int /\ req[q].ph \in Int
      BY <1>1, Numbers
    <3> QED BY <3>1
  <2>2. newReqs \subseteq newReqs'
    BY <1>5
  <2> QED BY <1>2, <1>5, <1>7, <1>12, <2>1, <2>2 DEF Active
<1>15. \A q \in finishedReqIds' : req'[q].status = "FINISHED"
  BY <1>1, <1>2, <1>4, <1>7 DEF NextDeliverable, Shape
<1>16. \A q \in Requests :
         /\ req[q].status = "FINISHED" => req'[q].status = "FINISHED"
         /\ req'[q].status = "PREEMPTED" => req[q].status = "PREEMPTED"
  BY <1>2, <1>7
<1>17. frames' # <<>> => prevStep = RowsOf(frames'[Len(frames')])
  BY <1>1, <1>4 DEF NextDeliverable
<1> QED BY <1>1, <1>4, <1>7, <1>10, <1>12, <1>13, <1>14, <1>15, <1>16, <1>17,
           NextKept

LEMMA RowNext ==
  ASSUME EInv, NEW r \in Requests, UpdateRow(r) \/ SkipRow(r)
  PROVE  NextDeliverable'
<1>1. /\ IInv /\ Shape /\ Queued /\ Ledger /\ Pipeline /\ Worker
      /\ Deliverable /\ NextDeliverable
  BY DEF EInv, IInv
<1>2. SkipFinished(r) \/ EmptyRow(r) \/ AcceptTokens(r)
  BY UpdateRowRefines DEF EInv, SkipRow
<1>3. /\ UNCHANGED <<inbox, rows, requests, execState, prevStep, newReqs,
                     resumedReqs, frames, phase, preempted>>
      /\ phase = "update" /\ r \in todo
  BY DEF UpdateRow, SkipRow, SkipFinished, Visit, runnerVars, admitVars, stepVars
<1>4. frames # <<>> => prevStep = RowsOf(frames[Len(frames)])
  BY <1>1 DEF NextDeliverable
<1>5. newReqs' = {} /\ resumedReqs' = {}
  BY <1>1, <1>3 DEF NextDeliverable
<1>6. CASE SkipFinished(r) \/ EmptyRow(r)
  <2>1. req' = req
    BY <1>1, <1>6, RowsKeepRecords
  <2>2. finishedReqIds' = finishedReqIds
    BY <1>6 DEF SkipFinished, EmptyRow
  <2> QED BY <1>1, <1>3, <1>4, <1>5, <2>1, <2>2, QuietNext
<1>7. CASE AcceptTokens(r)
  <2>1. r \in Owes(Head(frames)) /\ req[r].status # "FINISHED"
    BY <1>7 DEF AcceptTokens, Owes
  <2>2. PICK generated \in 1..(Head(frames).spec[r] + 1) :
        \E kept \in 1..generated :
          \/ /\ req' = [req EXCEPT ![r] = Finished(Kept(r, generated, kept))]
             /\ LeaveEngine(r)
          \/ /\ \E d \in Reported(Kept(r, generated, kept)) :
                  req' = [req EXCEPT
                           ![r] = Resized(Kept(r, generated, kept), kept, d)]
             /\ UNCHANGED <<queueVars, kvVars, finishedReqIds>>
    BY <1>7 DEF AcceptTokens, Kept
  <2>3. PICK kept \in 1..generated :
          \/ /\ req' = [req EXCEPT ![r] = Finished(Kept(r, generated, kept))]
             /\ LeaveEngine(r)
          \/ /\ \E d \in Reported(Kept(r, generated, kept)) :
                  req' = [req EXCEPT
                           ![r] = Resized(Kept(r, generated, kept), kept, d)]
             /\ UNCHANGED <<queueVars, kvVars, finishedReqIds>>
    BY <2>2
  <2>4. PICK kr \in ShapedRecord :
          /\ kr = Kept(r, generated, kept) /\ kr.status = req[r].status
          /\ kr.out = req[r].out + kept
    BY <1>1, <1>3, KeptShape
  <2>5. /\ req[r].status \in Active
        /\ kr.out + kr.ph <= req[r].out + req[r].ph
    <3>1. PICK offered \in Int :
            /\ offered = frames[1].spec[r]
            /\ generated \in Int /\ kept \in Int /\ generated <= offered + 1
            /\ req[r].status \in {"RUNNING", "PREEMPTED"}
            /\ InFlight(r) \in Int
            /\ kr.ph = InFlight(r) - (offered + 1 - generated) - kept
      BY <1>1, <1>3, <2>1, <2>4, KeptCounts
    <3>2. req[r].ph = InFlight(r)
      BY <1>1, <3>1 DEF Ledger, Books, Counted, Unfinished
    <3>3. req[r].out \in Int
      BY <1>1, Numbers
    <3> QED BY <2>4, <3>1, <3>2, <3>3 DEF Active
  <2>6. CASE /\ req' = [req EXCEPT ![r] = Finished(kr)]
             /\ LeaveEngine(r)
    <3>1. PICK record \in ShapedRecord :
            record = Finished(kr) /\ record.status = "FINISHED"
      <4>1. 0 \in 0..NumSpecTokens /\ kr.out \in Nat
        BY <2>4, SchedulerAssumption DEF ShapedRecord
      <4>2. Finished(kr) \in ShapedRecord /\ Finished(kr).status = "FINISHED"
        BY <4>1 DEF Finished, ShapedRecord, Statuses
      <4> QED BY <4>2
    <3>2. finishedReqIds' = finishedReqIds \union {r}
      BY <2>6 DEF LeaveEngine
    <3>3. record.status \notin Active
      BY <3>1 DEF Active
    <3> QED BY <1>1, <1>3, <2>6, <3>1, <3>2, <3>3, OneNext
  <2>7. CASE /\ \E d \in Reported(kr) :
                  req' = [req EXCEPT ![r] = Resized(kr, kept, d)]
             /\ UNCHANGED <<queueVars, kvVars, finishedReqIds>>
    <3>1. PICK d \in Reported(kr) :
            req' = [req EXCEPT ![r] = Resized(kr, kept, d)]
      BY <2>7
    <3>2. PICK record \in ShapedRecord :
            /\ record = Resized(kr, kept, d)
            /\ record.status = req[r].status /\ record.out = kr.out
            /\ record.ph = kr.ph
      <4>1. kept \in Int
        BY <1>1, <1>3, KeptShape
      <4>2. /\ Resized(kr, kept, d) \in ShapedRecord
            /\ Resized(kr, kept, d).status = req[r].status
            /\ Resized(kr, kept, d).out = kr.out
        BY <2>4, <4>1, ResizedShape
      <4>3. Resized(kr, kept, d).ph = kr.ph
        BY DEF Resized, ShapedRecord
      <4> QED BY <4>2, <4>3
    <3>3. r \notin finishedReqIds' /\ finishedReqIds' = finishedReqIds
      BY <1>1, <2>1, <2>7 DEF NextDeliverable
    <3> QED BY <1>1, <1>3, <2>1, <2>5, <3>1, <3>2, <3>3, OneNext
  <2> QED BY <2>3, <2>4, <2>6, <2>7
<1> QED BY <1>2, <1>6, <1>7

LEMMA OutsideNext ==
  ASSUME EInv, Outside
  PROVE  NextDeliverable'
<1>1. /\ IInv /\ Shape /\ Queued /\ Ledger /\ Pipeline /\ Worker
      /\ Deliverable /\ NextDeliverable
  BY DEF EInv, IInv
<1>2. UNCHANGED <<inbox, rows, requests, execState, prevStep, newReqs,
                  resumedReqs>>
  BY DEF Outside, runnerVars, admitVars
<1>3. frames # <<>> => prevStep = RowsOf(frames[Len(frames)])
  BY <1>1 DEF NextDeliverable
<1>4. CASE \E p \in PauseStates : SetPauseState(p)
  <2>1. phase = "idle" /\ UNCHANGED <<req, finishedReqIds, preempted, frames>>
    BY <1>4 DEF SetPauseState, stepVars
  <2>2. newReqs' = {} /\ resumedReqs' = {}
    BY <1>1, <1>2, <2>1 DEF NextDeliverable
  <2> QED BY <1>1, <1>2, <1>3, <2>1, <2>2, QuietNext
<1>5. CASE ClientStep
  <2>1. PICK r \in Requests : AddRequest(r) \/ Abort(r)
    BY <1>5 DEF ClientStep
  <2>2. /\ phase = "idle" /\ phase' = "idle" /\ req[r].status # "FINISHED"
        /\ UNCHANGED <<frames, preempted>>
    BY <2>1 DEF AddRequest, Abort, Unfinished, stepVars
  <2>3. req[r] \in ShapedRecord
    BY <1>1 DEF Shape
  <2>4. CASE AddRequest(r)
    <3>1. PICK record \in ShapedRecord :
            /\ record = [req[r] EXCEPT !.status = "WAITING"]
            /\ record.status = "WAITING"
      <4> DEFINE new == [req[r] EXCEPT !.status = "WAITING"]
      <4>1. new \in ShapedRecord /\ new.status = "WAITING"
        BY <2>3 DEF ShapedRecord, Statuses
      <4> QED BY <4>1
    <3>2. req' = [req EXCEPT ![r] = record] /\ finishedReqIds' = finishedReqIds
      BY <2>4, <3>1 DEF AddRequest
    <3>3. record.status \notin Active /\ r \notin finishedReqIds'
      BY <1>1, <2>2, <3>1, <3>2 DEF Active, NextDeliverable
    <3>4. record.status # "PREEMPTED"
      BY <3>1
    <3> QED BY <1>1, <1>2, <2>2, <3>2, <3>3, <3>4, OneNext
  <2>5. CASE Abort(r)
    <3>1. PICK record \in ShapedRecord :
            record = Finished(req[r]) /\ record.status = "FINISHED"
      <4>1. 0 \in 0..NumSpecTokens /\ req[r].out \in Nat
        BY <2>3, SchedulerAssumption DEF ShapedRecord
      <4>2. /\ Finished(req[r]) \in ShapedRecord
            /\ Finished(req[r]).status = "FINISHED"
        BY <4>1 DEF Finished, ShapedRecord, Statuses
      <4> QED BY <4>2
    <3>2. /\ req' = [req EXCEPT ![r] = record]
          /\ finishedReqIds' = finishedReqIds \union {r}
      BY <2>5, <3>1 DEF Abort, LeaveEngine
    <3>3. record.status \notin Active /\ record.status # "PREEMPTED"
      BY <3>1 DEF Active
    <3> QED BY <1>1, <1>2, <2>2, <3>1, <3>2, <3>3, OneNext
  <2> QED BY <2>1, <2>4, <2>5
<1> QED BY <1>4, <1>5 DEF Outside

LEMMA LoopEndsNext ==
  ASSUME EInv, Begin \/ Receive
  PROVE  NextDeliverable'
<1>1. /\ IInv /\ Shape /\ Ledger /\ Pipeline /\ Worker
      /\ Deliverable /\ NextDeliverable
  BY DEF EInv, IInv
<1>2. /\ UNCHANGED <<inbox, rows, requests, execState, prevStep, req,
                     finishedReqIds, frames>>
      /\ phase = "idle"
  BY DEF Begin, Receive, BeginSchedule, BeginUpdate, runnerVars
<1>3. preempted = {} /\ newReqs = {} /\ resumedReqs = {}
  BY <1>1, <1>2 DEF Ledger, StepOrdered, NextDeliverable
<1>4. preempted' = {} /\ newReqs' = {} /\ resumedReqs' = {}
  BY <1>3 DEF Begin, Receive, BeginSchedule, BeginUpdate, stepVars, admitVars
<1>5. frames # <<>> => prevStep = RowsOf(frames[Len(frames)])
  BY <1>1 DEF NextDeliverable
<1>6. phase # "waiting"
  BY <1>2
<1> QED BY <1>1, <1>2, <1>3, <1>4, <1>5, <1>6, QuietNext

LEMMA EndReceiveNext ==
  ASSUME EInv, EndReceive
  PROVE  NextDeliverable'
<1>1. /\ IInv /\ Shape /\ Ledger /\ Pipeline /\ Worker
      /\ Deliverable /\ NextDeliverable
  BY DEF EInv, IInv
<1>2. /\ UNCHANGED <<inbox, rows, requests, execState, prevStep, req,
                     finishedReqIds, preempted, newReqs, resumedReqs>>
      /\ phase = "update" /\ frames' = Tail(frames)
  BY DEF EndReceive, EndUpdate, admitVars, stepVars
<1>3. newReqs' = {} /\ resumedReqs' = {} /\ phase # "waiting"
  BY <1>1, <1>2 DEF NextDeliverable
<1>4. frames' # <<>> => prevStep = RowsOf(frames'[Len(frames')])
  <2>1. frames \in Seq(ShapedFrame) /\ frames # <<>>
    BY <1>1, <1>2 DEF Shape
  <2>2. /\ Tail(frames) \in Seq(ShapedFrame)
        /\ Len(Tail(frames)) = Len(frames) - 1
        /\ \A i \in 1..Len(Tail(frames)) : Tail(frames)[i] = frames[i + 1]
    BY <2>1, HeadTailProperties
  <2>3. ASSUME Tail(frames) # <<>>
        PROVE  Tail(frames)[Len(Tail(frames))] = frames[Len(frames)]
    <3>1. Len(Tail(frames)) \in Nat \ {0}
      BY <2>2, <2>3, EmptySeq
    <3>2. Len(frames) \in Nat
      BY <2>1, LenProperties
    <3>3. /\ Len(Tail(frames)) \in 1..Len(Tail(frames))
          /\ Len(Tail(frames)) + 1 = Len(frames)
      BY <2>2, <3>1, <3>2
    <3> QED BY <2>2, <3>3
  <2>4. prevStep = RowsOf(frames[Len(frames)])
    BY <1>1, <2>1 DEF NextDeliverable
  <2> QED BY <1>2, <2>3, <2>4
<1> QED BY <1>1, <1>2, <1>3, <1>4, QuietNext

LEMMA EndReceivePipeline ==
  ASSUME Shape, Pipeline, Answering, EndReceive
  PROVE  Pipeline'
<1>1. /\ inbox' = inbox /\ execState' = execState /\ outbox' = Tail(outbox)
      /\ phase = "update" /\ frames' = Tail(frames)
  BY DEF EndReceive, EndUpdate
<1>2. /\ frames \in Seq(ShapedFrame) /\ frames # <<>>
      /\ outbox \in Seq(Answers) /\ outbox # <<>>
  BY <1>1 DEF Shape, Answering, Pipeline
<1>3. /\ Tail(frames) \in Seq(ShapedFrame)
      /\ Len(Tail(frames)) = Len(frames) - 1
      /\ \A i \in 1..Len(Tail(frames)) : Tail(frames)[i] = frames[i + 1]
  BY <1>2, HeadTailProperties
<1>4. /\ Tail(outbox) \in Seq(Answers)
      /\ Len(Tail(outbox)) = Len(outbox) - 1
      /\ \A i \in 1..Len(Tail(outbox)) : Tail(outbox)[i] = outbox[i + 1]
  BY <1>2, HeadTailProperties
<1>5. PICK O \in Nat, L \in Nat, h \in {0, 1} :
        /\ O + 1 = Len(outbox) /\ L = Len(inbox) /\ h = InHand
        /\ InHand' = h /\ (Executing' <=> Executing)
        /\ Len(frames) = (O + 1) + h + L
  <2>1. Len(outbox) \in Nat \ {0}
    BY <1>2, EmptySeq
  <2>2. PICK O \in Nat : O + 1 = Len(outbox)
    <3>1. Len(outbox) - 1 \in Nat /\ (Len(outbox) - 1) + 1 = Len(outbox)
      BY <2>1
    <3> QED BY <3>1
  <2>3. Len(inbox) \in Nat
    BY Stages
  <2>4. InHand' = InHand /\ (Executing' <=> Executing)
    BY <1>1 DEF InHand, Executing
  <2>5. Len(frames) = Len(outbox) + InHand + Len(inbox) /\ InHand \in {0, 1}
    BY Stages
  <2> QED BY <2>2, <2>3, <2>4, <2>5
<1>6. Len(outbox') = O /\ Len(frames') = O + h + L
  <2>1. (O + 1) - 1 = O /\ ((O + 1) + h + L) - 1 = O + h + L
    OBVIOUS
  <2> QED BY <1>1, <1>3, <1>4, <1>5, <2>1
<1>7. \A i \in 1..(O + h + L) : frames'[i] = frames[i + 1]
  BY <1>1, <1>3, <1>6
<1>8. \A k \in 1..O : Reports(outbox'[k], frames'[k])
  <2>1. \A k \in 1..(O + 1) : Reports(outbox[k], frames[k])
    BY <1>5 DEF Pipeline
  <2>2. \A k \in 1..O : k + 1 \in 1..(O + 1) /\ k \in 1..(O + h + L)
    OBVIOUS
  <2>3. \A k \in 1..O : outbox'[k] = outbox[k + 1]
    BY <1>1, <1>4, <1>6
  <2> QED BY <1>7, <2>1, <2>2, <2>3
<1>9. Executing => Announces(execState.m, frames'[O + 1])
  <2>1. Executing => Announces(execState.m, frames[(O + 1) + 1])
    BY <1>5 DEF Pipeline
  <2>2. Executing => O + 1 \in 1..(O + h + L)
    <3>1. Executing => h = 1
      BY <1>5 DEF InHand
    <3> QED BY <3>1
  <2> QED BY <1>7, <2>1, <2>2
<1>10. \A k \in 1..L : Announces(inbox[k], frames'[O + h + k])
  <2>1. \A k \in 1..L : Announces(inbox[k], frames[(O + 1) + h + k])
    BY <1>5 DEF Pipeline
  <2>2. \A k \in 1..L : /\ O + h + k \in 1..(O + h + L)
                        /\ (O + h + k) + 1 = (O + 1) + h + k
    OBVIOUS
  <2> QED BY <1>7, <2>1, <2>2
<1> QED BY <1>1, <1>4, <1>5, <1>6, <1>8, <1>9, <1>10 DEF Pipeline

LEMMA PipelineSame ==
  ASSUME Pipeline, UNCHANGED <<inbox, outbox, execState, frames>>
  PROVE  Pipeline'
BY DEF Pipeline, InHand, Executing

LEMMA WorkerSame ==
  ASSUME Worker,
         UNCHANGED <<requests, rows, prevIndex, sampled, execState>>
  PROVE  Worker'
BY DEF Worker, Executing

LEMMA DeliverableSame ==
  ASSUME Deliverable, UNCHANGED <<inbox, requests, rows, execState>>
  PROVE  Deliverable'
<1>1. ASSUME NEW k \in 1..Len(inbox)
      PROVE  Executable(k)'
  <2>1. Executable(k)
    BY DEF Deliverable, Executable
  <2>2. /\ Before(k)' = Before(k)
        /\ \A r : Limit(k, r)' = Limit(k, r)
        /\ \A r : Acquainted(k, r)' <=> Acquainted(k, r)
    BY DEF Before, Limit, Acquainted, Executing
  <2> QED BY <2>1, <2>2 DEF Executable
<1> QED BY <1>1 DEF Deliverable, Executable

-----------------------------------------------------------------------------
(* What the scheduler sends.                                               *)

LEMMA OutputFields ==
  ASSUME Shape, NextDeliverable
  PROVE  /\ Output \in Messages
         /\ RowsOf(Output) = Scheduled
         /\ Emitting(Output) = SampledRows
         /\ Output.n = sched /\ Output.spec = schedSpec
         /\ Output.new = newReqs /\ Output.resumed = resumedReqs
         /\ Output.all = Scheduled \ (newReqs \union prevStep)
         /\ Output.finished = finishedReqIds
         /\ \A r \in Requests :
              /\ Output.out[r] = req[r].out
              /\ Output.outputs[r] = req[r].out + req[r].ph
<1>1. /\ Output.n = sched /\ Output.spec = schedSpec
      /\ Output.new = newReqs /\ Output.resumed = resumedReqs
      /\ Output.all = Scheduled \ (newReqs \union prevStep)
      /\ Output.finished = finishedReqIds
      /\ Output.computed = [r \in Requests |-> req[r].computed]
      /\ Output.out = [r \in Requests |-> req[r].out]
      /\ Output.outputs = [r \in Requests |-> req[r].out + req[r].ph]
  BY DEF Output, AllTokenIds, OutputTokens
<1>2. /\ sched \in [Requests -> Int] /\ schedSpec \in [Requests -> 0..NumSpecTokens]
      /\ newReqs \subseteq Requests /\ resumedReqs \subseteq Requests
      /\ finishedReqIds \subseteq Requests
      /\ Scheduled \subseteq Requests
  BY DEF Shape, NextDeliverable, Scheduled
<1>3. /\ [r \in Requests |-> req[r].computed] \in [Requests -> Int]
      /\ [r \in Requests |-> req[r].out] \in [Requests -> Int]
      /\ [r \in Requests |-> req[r].out + req[r].ph] \in [Requests -> Int]
  <2>1. \A r \in Requests : /\ req[r].computed \in Int /\ req[r].out \in Int
                            /\ req[r].ph \in Int
    BY Numbers
  <2> QED BY <2>1
<1>4. Output \in Messages
  <2>1. Output = [n |-> Output.n, spec |-> Output.spec,
                  computed |-> Output.computed, out |-> Output.out,
                  outputs |-> Output.outputs, new |-> Output.new,
                  resumed |-> Output.resumed, all |-> Output.all,
                  finished |-> Output.finished]
    BY DEF Output
  <2>2. /\ Output.n \in [Requests -> Int]
        /\ Output.spec \in [Requests -> 0..NumSpecTokens]
        /\ Output.computed \in [Requests -> Int]
        /\ Output.out \in [Requests -> Int]
        /\ Output.outputs \in [Requests -> Int]
        /\ Output.new \in SUBSET Requests /\ Output.resumed \in SUBSET Requests
        /\ Output.all \in SUBSET Requests
        /\ Output.finished \in SUBSET Requests
    BY <1>1, <1>2, <1>3
  <2> QED BY <2>1, <2>2 DEF Messages
<1>5. RowsOf(Output) = Scheduled
  BY <1>1 DEF RowsOf, Scheduled
<1>6. ASSUME NEW r \in Scheduled
      PROVE  r \in Emitting(Output) <=> r \in SampledRows
  <2>1. r \in Requests
    BY <1>2
  <2>2. PICK c, n, o, ph, pl \in Int :
          /\ c = req[r].computed /\ n = sched[r] /\ o = req[r].out
          /\ ph = req[r].ph /\ pl = PromptLen[r]
    BY <2>1, Numbers
  <2>3. /\ Output.computed[r] = c /\ Output.n[r] = n
        /\ Output.outputs[r] = o + ph
    BY <1>1, <2>1, <2>2
  <2>4. r \in Emitting(Output) <=> c + n >= pl + (o + ph)
    BY <1>5, <2>2, <2>3 DEF Emitting
  <2>5. Advanced(r).chunk <=> c + n < pl + o + ph
    BY <2>2 DEF Advanced, NumTokens
  <2>6. (c + n >= pl + (o + ph)) <=> ~(c + n < pl + o + ph)
    OBVIOUS
  <2> QED BY <2>4, <2>5, <2>6 DEF SampledRows
<1>7. Emitting(Output) = SampledRows
  <2>1. Emitting(Output) \subseteq Scheduled /\ SampledRows \subseteq Scheduled
    BY <1>5 DEF Emitting, SampledRows
  <2> QED BY <1>6, <2>1
<1>8. \A r \in Requests :
        /\ Output.out[r] = req[r].out
        /\ Output.outputs[r] = req[r].out + req[r].ph
  BY <1>1
<1> QED BY <1>1, <1>4, <1>5, <1>7, <1>8

LEMMA SendEffect ==
  ASSUME Shape, Pipeline, NextDeliverable, Send
  PROVE  /\ inbox' \in Seq(Messages) /\ Len(inbox') = Len(inbox) + 1
         /\ \A k \in 1..Len(inbox) : inbox'[k] = inbox[k]
         /\ inbox'[Len(inbox) + 1] = Output
         /\ UNCHANGED <<outbox, requests, rows, prevIndex, sampled, execState>>
         /\ phase = "waiting" /\ phase' = "idle" /\ Len(frames) < 2
         /\ frames' \in Seq(ShapedFrame) /\ Len(frames') = Len(frames) + 1
         /\ \A k \in 1..Len(frames) : frames'[k] = frames[k]
         /\ frames'[Len(frames) + 1] =
              [n |-> sched, spec |-> schedSpec, emits |-> SampledRows,
               stale |-> {}]
         /\ req' = [r \in Requests |->
                     IF r \in Scheduled THEN Advanced(r) ELSE req[r]]
         /\ finishedReqIds' = {} /\ preempted' = {} /\ newReqs' = {}
         /\ resumedReqs' = {} /\ prevStep' = Scheduled
<1>1. /\ inbox' = Append(inbox, Output)
      /\ UNCHANGED <<outbox, requests, rows, prevIndex, sampled, execState>>
      /\ phase = "waiting" /\ phase' = "idle"
      /\ frames' = Append(frames, [n |-> sched, spec |-> schedSpec,
                                   emits |-> SampledRows, stale |-> {}])
      /\ req' = [r \in Requests |->
                  IF r \in Scheduled THEN Advanced(r) ELSE req[r]]
      /\ finishedReqIds' = {} /\ preempted' = {} /\ newReqs' = {}
      /\ resumedReqs' = {} /\ prevStep' = Scheduled
  BY DEF Send, EndSchedule, WaitingLoopOver
<1>2. /\ inbox' \in Seq(Messages) /\ Len(inbox') = Len(inbox) + 1
      /\ \A k \in 1..Len(inbox) : inbox'[k] = inbox[k]
      /\ inbox'[Len(inbox) + 1] = Output
  BY <1>1, OutputFields, AppendProperties DEF Pipeline
<1>3. Len(frames) < 2
  BY <1>1 DEF Shape
<1>4. PICK f \in ShapedFrame :
        f = [n |-> sched, spec |-> schedSpec, emits |-> SampledRows, stale |-> {}]
  <2>1. SampledRows \in SUBSET Requests
    BY DEF SampledRows, Scheduled
  <2>2. [n |-> sched, spec |-> schedSpec, emits |-> SampledRows, stale |-> {}]
          \in ShapedFrame
    BY <2>1 DEF Shape, ShapedFrame
  <2> QED BY <2>2
<1>5. /\ frames' \in Seq(ShapedFrame) /\ Len(frames') = Len(frames) + 1
      /\ \A k \in 1..Len(frames) : frames'[k] = frames[k]
      /\ frames'[Len(frames) + 1] = f
  BY <1>1, <1>4, AppendProperties DEF Shape
<1> QED BY <1>1, <1>2, <1>3, <1>4, <1>5

LEMMA SendPipeline ==
  ASSUME Shape, Pipeline, NextDeliverable, Send
  PROVE  Pipeline'
<1>1. PICK O, L \in Nat, h \in {0, 1} :
        /\ O = Len(outbox) /\ L = Len(inbox) /\ h = InHand
        /\ Len(frames) = O + h + L
  BY Stages
<1>2. InHand' = h /\ (Executing' <=> Executing) /\ execState' = execState
      /\ outbox' = outbox
  BY <1>1, SendEffect DEF InHand, Executing
<1>3. /\ Len(inbox') = L + 1 /\ Len(frames') = O + h + L + 1
      /\ \A k \in 1..L : inbox'[k] = inbox[k]
      /\ \A k \in 1..(O + h + L) : frames'[k] = frames[k]
  BY <1>1, SendEffect
<1>4. O + h + L + 1 = O + h + (L + 1)
  OBVIOUS
<1>5. Announces(inbox'[L + 1], frames'[O + h + (L + 1)])
  <2>1. inbox'[L + 1] = Output
    BY <1>1, SendEffect
  <2>2. frames'[O + h + (L + 1)] =
          [n |-> sched, spec |-> schedSpec, emits |-> SampledRows, stale |-> {}]
    BY <1>1, <1>4, SendEffect
  <2> QED BY <2>1, <2>2, OutputFields DEF Announces
<1>6. \A k \in 1..(L + 1) : Announces(inbox'[k], frames'[O + h + k])
  <2>1. \A k \in 1..L : Announces(inbox[k], frames[O + h + k])
    BY <1>1 DEF Pipeline
  <2>2. \A k \in 1..L : O + h + k \in 1..(O + h + L)
    OBVIOUS
  <2>3. \A k \in 1..L : Announces(inbox'[k], frames'[O + h + k])
    BY <1>3, <2>1, <2>2
  <2>4. \A k \in 1..(L + 1) : k \in 1..L \/ k = L + 1
    OBVIOUS
  <2> QED BY <1>5, <2>3, <2>4
<1>7. \A k \in 1..O : Reports(outbox[k], frames'[k])
  <2>1. \A k \in 1..O : k \in 1..(O + h + L)
    OBVIOUS
  <2>2. \A k \in 1..O : Reports(outbox[k], frames[k])
    BY <1>1 DEF Pipeline
  <2> QED BY <1>3, <2>1, <2>2
<1>8. Executing => Announces(execState.m, frames'[O + 1])
  <2>1. Executing => h = 1
    BY <1>1 DEF InHand
  <2>2. h = 1 => O + 1 \in 1..(O + h + L)
    OBVIOUS
  <2>3. Executing => Announces(execState.m, frames[O + 1])
    BY <1>1 DEF Pipeline
  <2> QED BY <1>3, <2>1, <2>2, <2>3
<1>9. inbox' \in Seq(Messages) /\ outbox \in Seq(Answers)
  BY SendEffect DEF Pipeline
<1> QED BY <1>1, <1>2, <1>3, <1>4, <1>6, <1>7, <1>8, <1>9 DEF Pipeline

\* The messages before the new one and what they find stay the same.
LEMMA SendSame ==
  ASSUME Shape, Pipeline, NextDeliverable, Send,
         NEW k \in 1..(Len(inbox) + 1)
  PROVE  /\ Before(k)' = Before(k)
         /\ \A r : Limit(k, r)' = Limit(k, r)
         /\ \A r : Acquainted(k, r)' <=> Acquainted(k, r)
<1>1. /\ \A j \in 1..Len(inbox) : inbox'[j] = inbox[j]
      /\ UNCHANGED <<requests, rows, execState>>
  BY SendEffect
<1>2. /\ k # 1 => k - 1 \in 1..Len(inbox)
      /\ \A j \in 1..(k - 1) : j \in 1..Len(inbox)
  BY Stages
<1>3. k # 1 => inbox'[k - 1] = inbox[k - 1]
  BY <1>1, <1>2
<1>4. \A j \in 1..(k - 1) : inbox'[j] = inbox[j]
  BY <1>1, <1>2
<1>5. Before(k)' = Before(k)
  BY <1>1, <1>3 DEF Before
<1>6. \A r : Limit(k, r)' = Limit(k, r)
  BY <1>1, <1>3 DEF Limit, Executing
<1>7. \A r : Acquainted(k, r)' <=> Acquainted(k, r)
  BY <1>1, <1>4 DEF Acquainted
<1> QED BY <1>5, <1>6, <1>7

LEMMA SendDeliverable ==
  ASSUME EInv, Send
  PROVE  Deliverable'
<1>1. /\ IInv /\ Shape /\ Ledger /\ Pipeline /\ Worker
      /\ Deliverable /\ NextDeliverable
  BY DEF EInv, IInv
<1>2. PICK L \in Nat : L = Len(inbox)
  BY <1>1, Stages
<1>3. /\ Len(inbox') = L + 1
      /\ \A k \in 1..L : inbox'[k] = inbox[k]
      /\ inbox'[L + 1] = Output
  BY <1>1, <1>2, SendEffect
<1>4. ASSUME NEW k \in 1..L
      PROVE  Executable(k)'
  <2>1. Executable(k) /\ k \in 1..(Len(inbox) + 1)
    BY <1>1, <1>2 DEF Deliverable, Executable
  <2>2. /\ Before(k)' = Before(k)
        /\ \A r : Limit(k, r)' = Limit(k, r)
        /\ \A r : Acquainted(k, r)' <=> Acquainted(k, r)
    BY <1>1, <2>1, SendSame
  <2>3. \A j \in 1..k : inbox'[j] = inbox[j]
    <3>1. \A j \in 1..k : j \in 1..L
      OBVIOUS
    <3> QED BY <1>3, <3>1
  <2>4. inbox'[k] = inbox[k]
    BY <1>3
  <2> QED BY <2>1, <2>2, <2>3, <2>4 DEF Executable
<1>5. PICK m \in Messages : m = Output
  BY <1>1, OutputFields
<1>6. /\ m.new = newReqs /\ m.resumed = resumedReqs /\ RowsOf(m) = Scheduled
      /\ m.all = Scheduled \ (newReqs \union prevStep)
      /\ m.finished = finishedReqIds
      /\ \A r \in Requests :
           m.out[r] = req[r].out /\ m.outputs[r] = req[r].out + req[r].ph
  BY <1>1, <1>5, OutputFields
<1>7. m.new \subseteq RowsOf(m) /\ \A r \in m.new : m.outputs[r] = 0
  <2>1. /\ newReqs \subseteq Scheduled /\ newReqs \subseteq Requests
        /\ \A r \in newReqs : req[r].out = 0 /\ req[r].ph = 0
    BY <1>1 DEF NextDeliverable, Scheduled
  <2>2. \A r \in newReqs : m.outputs[r] = 0 + 0
    BY <1>6, <2>1
  <2> QED BY <1>6, <2>1, <2>2
<1>8. ASSUME NEW r \in Scheduled
      PROVE  /\ m.outputs[r] >= 0
             /\ \A j \in 1..(L + 1) : r \notin inbox'[j].finished
             /\ r \notin m.new =>
                  /\ Acquainted(L + 1, r)
                  /\ r \in m.resumed \/ r \notin Before(L + 1) =>
                       r \in m.all /\ m.outputs[r] = m.out[r]
                  /\ r \in Before(L + 1) => m.outputs[r] <= Limit(L + 1, r)
  <2>1. /\ r \in Requests /\ req[r].status = "RUNNING" /\ req[r].ph = InFlight(r)
        /\ req[r].status \in Active
    BY <1>1 DEF Scheduled, Ledger, Books, StepBooked, Counted, Unfinished, Active
  <2>2. /\ phase = "waiting"
        /\ Len(frames) \in {0, 1}
    <3>1. Len(frames) < 2 /\ phase = "waiting"
      BY <1>1, SendEffect
    <3> QED BY <1>1, <3>1, FramesLen
  <2>3. /\ InFlight(r) \in Int /\ InFlight(r) >= 0
        /\ r \notin prevStep => InFlight(r) = 0
    <3>1. CASE Len(frames) = 0
      BY <3>1 DEF InFlight
    <3>2. CASE Len(frames) = 1
      <4>1. 1 \in 1..Len(frames) /\ 1 \in DOMAIN frames /\ frames # <<>>
        <5>1. 1 \in 1..Len(frames)
          BY <3>2
        <5>2. DOMAIN frames = 1..Len(frames)
          BY <1>1, FramesLen
        <5>3. frames # <<>>
          BY <5>1, Len(<<>>) = 0, 1 \notin 1..0
        <5> QED BY <5>1, <5>2, <5>3
      <4>2. InFlight(r) = Owed(frames[1], r) + 0
        BY <2>2, <3>2 DEF InFlight
      <4>3. /\ Owed(frames[1], r) \in Int /\ Owed(frames[1], r) >= 0
            /\ r \notin frames[1].emits => Owed(frames[1], r) = 0
        BY <1>1, <2>1, <4>1, OwedFacts DEF Ledger
      <4>4. r \notin prevStep => r \notin frames[1].emits
        <5>1. prevStep = RowsOf(frames[1])
          BY <1>1, <3>2, <4>1 DEF NextDeliverable
        <5>2. r \in frames[1].emits => frames[1].n[r] > 0
          BY <1>1, <4>1 DEF Ledger, FramesSound
        <5> QED BY <2>1, <5>1, <5>2 DEF RowsOf
      <4> QED BY <4>2, <4>3, <4>4
    <3> QED BY <2>2, <3>1, <3>2
  <2>4. PICK o, p \in Int :
          /\ o = req[r].out /\ p = req[r].ph /\ o >= 0 /\ p >= 0
          /\ m.outputs[r] = o + p /\ m.out[r] = o
          /\ r \notin prevStep => p = 0
    BY <1>1, <1>6, <2>1, <2>3, Numbers
  <2>5. \A j \in 1..(L + 1) : r \notin inbox'[j].finished
    <3>1. \A j \in 1..L : r \notin inbox[j].finished
      BY <1>1, <1>2, <2>1 DEF NextDeliverable
    <3>2. r \notin m.finished
      BY <1>1, <1>6, <2>1 DEF NextDeliverable
    <3>3. \A j \in 1..(L + 1) : j \in 1..L \/ j = L + 1
      OBVIOUS
    <3> QED BY <1>3, <1>5, <3>1, <3>2, <3>3
  <2>6. /\ prevStep = Before(L + 1)
        /\ r \notin newReqs => Acquainted(L + 1, r)
        /\ r \in prevStep => req[r].out + req[r].ph <= Limit(L + 1, r)
        /\ resumedReqs \in SUBSET (Requests \ prevStep)
    BY <1>1, <1>2, <2>1 DEF NextDeliverable
  <2>7. r \notin prevStep => m.outputs[r] = m.out[r]
    BY <2>4
  <2>8. m.outputs[r] >= 0
    BY <2>4
  <2> QED BY <1>6, <2>4, <2>5, <2>6, <2>7, <2>8
<1>9. Executable(L + 1)'
  <2>1. L + 1 \in 1..(Len(inbox) + 1)
    BY <1>2
  <2>2. /\ Before(L + 1)' = Before(L + 1)
        /\ \A r : Limit(L + 1, r)' = Limit(L + 1, r)
        /\ \A r : Acquainted(L + 1, r)' <=> Acquainted(L + 1, r)
    BY <1>1, <2>1, SendSame
  <2> QED BY <1>3, <1>5, <1>6, <1>7, <1>8, <2>2 DEF Executable
<1>10. \A k \in 1..(L + 1) : k \in 1..L \/ k = L + 1
  OBVIOUS
<1>11. ASSUME NEW k \in 1..Len(inbox')
       PROVE  Executable(k)'
  <2>1. k \in 1..L \/ k = L + 1
    BY <1>3, <1>10
  <2> QED BY <1>4, <1>9, <2>1
<1> QED BY <1>11 DEF Deliverable, Executable

LEMMA SendNext ==
  ASSUME EInv, Send
  PROVE  NextDeliverable'
<1>1. /\ IInv /\ Shape /\ Ledger /\ Pipeline /\ Worker
      /\ Deliverable /\ NextDeliverable
  BY DEF EInv, IInv
<1>2. PICK L \in Nat : L = Len(inbox)
  BY <1>1, Stages
<1>3. /\ Len(inbox') = L + 1
      /\ \A k \in 1..L : inbox'[k] = inbox[k]
      /\ inbox'[L + 1] = Output
      /\ UNCHANGED <<requests, rows, execState>>
      /\ phase' = "idle" /\ newReqs' = {} /\ resumedReqs' = {}
      /\ finishedReqIds' = {} /\ preempted' = {} /\ prevStep' = Scheduled
      /\ Len(frames') = Len(frames) + 1
      /\ frames'[Len(frames) + 1].n = sched
      /\ req' = [r \in Requests |->
                  IF r \in Scheduled THEN Advanced(r) ELSE req[r]]
  BY <1>1, <1>2, SendEffect
<1>4. PICK m \in Messages : m = Output
  BY <1>1, OutputFields
<1>5. /\ m.new = newReqs /\ RowsOf(m) = Scheduled /\ Emitting(m) = SampledRows
      /\ m.finished = finishedReqIds /\ m.spec = schedSpec
      /\ \A r \in Requests : m.outputs[r] = req[r].out + req[r].ph
  BY <1>1, <1>4, OutputFields
<1>6. L + 1 # 0 /\ (L + 2) # 1 /\ (L + 2) - 1 = L + 1 /\ (L + 1) + 1 = L + 2
  OBVIOUS
<1>7. Before(L + 2)' = Scheduled
  BY <1>3, <1>4, <1>5, <1>6 DEF Before
<1>8. frames'[Len(frames')].n = sched
  BY <1>3
<1>9. RowsOf(frames'[Len(frames')]) = Scheduled
  BY <1>8 DEF RowsOf, Scheduled
<1>10. \A r \in Requests : req'[r].status = req[r].status
  BY <1>3 DEF Advanced
<1>11. \A k \in 1..(L + 1) :
         \A r \in inbox'[k].finished : req'[r].status = "FINISHED"
  <2>1. \A k \in 1..L : \A r \in inbox[k].finished :
          r \in Requests /\ req[r].status = "FINISHED"
    <3>1. \A k \in 1..L : inbox[k] \in Messages
      BY <1>1, <1>2, Stages
    <3> QED BY <1>1, <1>2, <3>1 DEF NextDeliverable, Messages
  <2>2. \A r \in m.finished : r \in Requests /\ req[r].status = "FINISHED"
    BY <1>1, <1>5 DEF NextDeliverable, Shape
  <2>3. \A k \in 1..(L + 1) : k \in 1..L \/ k = L + 1
    OBVIOUS
  <2> QED BY <1>3, <1>4, <1>10, <2>1, <2>2, <2>3
<1>12. ASSUME NEW r \in Requests, req'[r].status \in Active
       PROVE  Acquainted(L + 2, r)'
  <2>1. req[r].status \in Active
    BY <1>10, <1>12
  <2>2. CASE r \in newReqs
    <3>1. L + 1 \in 1..((L + 2) - 1)
      OBVIOUS
    <3> QED BY <1>3, <1>4, <1>5, <2>2, <3>1 DEF Acquainted
  <2>3. CASE r \notin newReqs
    <3>1. Acquainted(L + 1, r)
      BY <1>1, <1>2, <2>1, <2>3 DEF NextDeliverable
    <3>2. CASE r \in DOMAIN requests
      BY <1>3, <3>2 DEF Acquainted
    <3>3. CASE \E j \in 1..((L + 1) - 1) : r \in inbox[j].new
      <4>1. PICK j \in 1..((L + 1) - 1) : r \in inbox[j].new
        BY <3>3
      <4>2. j \in 1..L /\ j \in 1..((L + 2) - 1)
        OBVIOUS
      <4>3. r \in inbox'[j].new
        BY <1>3, <4>1, <4>2
      <4> QED BY <4>2, <4>3 DEF Acquainted
    <3> QED BY <3>1, <3>2, <3>3 DEF Acquainted
  <2> QED BY <2>2, <2>3
<1>13. ASSUME NEW r \in Scheduled
       PROVE  req'[r].out + req'[r].ph <= Limit(L + 2, r)'
  <2>1. r \in Requests
    BY DEF Scheduled
  <2>2. PICK o, p, s \in Int :
          o = req[r].out /\ p = req[r].ph /\ s = schedSpec[r]
    BY <1>1, <2>1, Numbers
  <2>3. PICK e \in BOOLEAN : e <=> r \in SampledRows
    OBVIOUS
  <2>4. e <=> ~Advanced(r).chunk
    BY <2>3 DEF SampledRows
  <2>5. req'[r].out = o /\ req'[r].ph = IF e THEN p + 1 + s ELSE p
    <3>1. req'[r] = Advanced(r)
      BY <1>3, <2>1
    <3> QED BY <2>2, <2>4, <3>1 DEF Advanced
  <2>6. Limit(L + 2, r)' =
          m.outputs[r] + IF r \in Emitting(m) THEN 1 + m.spec[r] ELSE 0
    BY <1>3, <1>4, <1>6 DEF Limit
  <2>7. Limit(L + 2, r)' = (o + p) + IF e THEN 1 + s ELSE 0
    BY <1>5, <2>1, <2>2, <2>3, <2>6
  <2>8. CASE e
    BY <2>2, <2>5, <2>7, <2>8
  <2>9. CASE ~e
    BY <2>2, <2>5, <2>7, <2>9
  <2> QED BY <2>8, <2>9
<1>14. \A r \in Requests : req'[r].status = "PREEMPTED" => r \notin Scheduled
  BY <1>1, <1>10 DEF Ledger, Books, StepBooked, Scheduled
<1>15. Len(inbox') + 1 = L + 2
  BY <1>3, <1>6
<1>16. newReqs' \subseteq Scheduled' /\ resumedReqs' \in SUBSET (Requests \ prevStep')
  BY <1>3
<1> QED BY <1>3, <1>7, <1>9, <1>11, <1>12, <1>13, <1>14, <1>15, <1>16
    DEF NextDeliverable

-----------------------------------------------------------------------------
(* The invariant holds.                                                    *)

LEMMA InitEngine ==
  ASSUME EngineInit
  PROVE  EInv
<1>1. /\ Init /\ inbox = <<>> /\ outbox = <<>> /\ requests = <<>>
      /\ rows = <<>> /\ prevIndex = <<>> /\ sampled = <<>> /\ execState = <<>>
      /\ prevStep = {} /\ newReqs = {} /\ resumedReqs = {}
  BY DEF EngineInit, Runner!RunnerInit, Runner!None
<1>2. /\ frames = <<>> /\ phase = "idle" /\ finishedReqIds = {}
      /\ \A r \in Requests : req[r].status = "NEW"
  BY <1>1 DEF Init
<1>3. IInv
  BY <1>1, InitLayer1, InitLedger DEF IInv
<1>4. \A S : <<>> \in Seq(S) /\ Len(<<>>) = 0 /\ DOMAIN <<>> = {}
  OBVIOUS
<1>5. Pipeline
  <2>1. Len(frames) = Len(outbox) + InHand + Len(inbox)
    BY <1>1, <1>2, <1>4 DEF InHand, Executing
  <2> QED BY <1>1, <1>4, <2>1 DEF Pipeline, Executing
<1>6. ToSet(rows) = {} /\ IsInjective(rows)
  BY <1>1, <1>4 DEF ToSet, IsInjective
<1>7. Worker
  BY <1>1, <1>4, <1>6 DEF Worker, Executing
<1>8. Deliverable
  BY <1>1, <1>4 DEF Deliverable
<1>9. NextDeliverable
  <2>1. Len(inbox) + 1 = 1
    BY <1>1, <1>4
  <2>2. prevStep = Before(Len(inbox) + 1)
    BY <1>1, <1>6, <2>1 DEF Before
  <2>3. \A k \in 1..Len(inbox) : FALSE
    BY <1>1, <1>4
  <2> QED BY <1>1, <1>2, <2>2, <2>3 DEF NextDeliverable, Active
<1>10. Answering
  BY <1>2 DEF Answering
<1> QED BY <1>3, <1>5, <1>7, <1>8, <1>9, <1>10 DEF EInv

\* Of the steps of the scheduler only BeginUpdate begins to answer.
LEMMA AnsweringKept ==
  ASSUME EInv, EngineNext
  PROVE  Answering'
<1>1. /\ IInv /\ Shape /\ Ledger /\ Pipeline /\ Answering
  BY DEF EInv, IInv
<1>2. CASE Begin
  BY <1>2 DEF Begin, BeginSchedule, Answering
<1>3. CASE RunningLoop
  BY <1>3 DEF RunningLoop, SkipRunning, ScheduleRunning, PreemptLast, EndRunning,
     InRunningLoop, Answering
<1>4. CASE AdmitHead
  BY <1>4 DEF AdmitHead, Admit, InWaitingLoop, Answering
<1>5. CASE Send
  BY <1>5 DEF Send, EndSchedule, Answering
<1>6. CASE Execute
  BY <1>6 DEF Execute, vars, Answering
<1>7. CASE Receive
  BY <1>7 DEF Receive, BeginUpdate, runnerVars, Answering
<1>8. ASSUME NEW r \in Requests, UpdateRow(r) \/ SkipRow(r)
      PROVE  Answering'
  BY <1>1, <1>8 DEF UpdateRow, SkipRow, SkipFinished, Visit, runnerVars, Answering
<1>9. CASE EndReceive
  BY <1>9 DEF EndReceive, EndUpdate, Answering
<1>10. CASE Outside
  BY <1>10 DEF Outside, ClientStep, AddRequest, Abort, SetPauseState, Answering
<1> QED
  BY <1>2, <1>3, <1>4, <1>5, <1>6, <1>7, <1>8, <1>9, <1>10 DEF EngineNext

\* Only Execute and Send touch what the worker has or is sent, and only
\* EndReceive takes an answer.
LEMMA WorkerUndisturbed ==
  ASSUME EngineNext, ~Execute, ~Send
  PROVE  /\ UNCHANGED <<inbox, requests, rows, prevIndex, sampled, execState>>
         /\ EndReceive \/ UNCHANGED <<outbox, frames>>
<1>1. CASE Begin
  BY <1>1 DEF Begin, BeginSchedule, runnerVars
<1>2. CASE RunningLoop
  BY <1>2 DEF RunningLoop, SkipRunning, ScheduleRunning, PreemptLast, EndRunning,
     runnerVars
<1>3. CASE AdmitHead
  BY <1>3 DEF AdmitHead, Admit, runnerVars
<1>4. CASE Receive
  BY <1>4 DEF Receive, BeginUpdate, runnerVars
<1>5. ASSUME NEW r \in Requests, UpdateRow(r) \/ SkipRow(r)
      PROVE  UNCHANGED <<inbox, requests, rows, prevIndex, sampled, execState,
                         outbox, frames>>
  BY <1>5 DEF UpdateRow, SkipRow, SkipFinished, runnerVars
<1>6. CASE EndReceive
  BY <1>6 DEF EndReceive
<1>7. CASE Outside
  BY <1>7 DEF Outside, ClientStep, AddRequest, Abort, SetPauseState, runnerVars
<1> QED BY <1>1, <1>2, <1>3, <1>4, <1>5, <1>6, <1>7 DEF EngineNext

LEMMA ExecuteStep ==
  ASSUME EInv, Execute
  PROVE  Pipeline' /\ Worker' /\ Deliverable' /\ NextDeliverable'
<1>1. /\ IInv /\ Shape /\ Pipeline /\ Worker /\ Deliverable /\ NextDeliverable
      /\ Runner!ExecuteModel \/ Runner!SampleTokens
      /\ UNCHANGED <<vars, prevStep, admitVars>> /\ frames' = frames
  BY DEF EInv, IInv, Execute, Runner!RunnerStep, vars
<1>2. CASE Runner!ExecuteModel
  BY <1>1, <1>2, ExecutePipeline, ExecuteWorker, ExecuteDeliverable, ExecuteNext
<1>3. CASE Runner!SampleTokens
  BY <1>1, <1>3, SamplePipeline, SampleWorker, SampleDeliverable, SampleNext
<1> QED BY <1>1, <1>2, <1>3

LEMMA EngineStepKeeps ==
  ASSUME EInv, [EngineNext]_engineVars
  PROVE  EInv'
<1>1. /\ IInv /\ Shape /\ Pipeline /\ Worker /\ Deliverable /\ NextDeliverable
      /\ Answering
  BY DEF EInv, IInv
<1>2. IInv'
  BY <1>1, StepRefines, StepLedger, EngineAssumption
<1>3. CASE UNCHANGED engineVars
  <2>1. /\ UNCHANGED <<inbox, outbox, requests, rows, prevIndex, sampled, execState>>
        /\ UNCHANGED <<req, frames, finishedReqIds, phase, sched, preempted, todo>>
        /\ UNCHANGED <<prevStep, newReqs, resumedReqs>>
    BY <1>3 DEF engineVars, vars, runnerVars, admitVars, stepVars
  <2>2. Pipeline' /\ Worker' /\ Deliverable'
    BY <1>1, <2>1, PipelineSame, WorkerSame, DeliverableSame
  <2>3. Answering'
    BY <1>1, <2>1 DEF Answering
  <2>4. NextDeliverable'
    <3>1. /\ Before(Len(inbox) + 1)' = Before(Len(inbox) + 1)
          /\ \A r : Limit(Len(inbox) + 1, r)' = Limit(Len(inbox) + 1, r)
          /\ \A r : Acquainted(Len(inbox) + 1, r)' <=> Acquainted(Len(inbox) + 1, r)
      BY <2>1 DEF Before, Limit, Acquainted, Executing
    <3>2. Scheduled' = Scheduled
      BY <2>1 DEF Scheduled
    <3> QED BY <1>1, <2>1, <3>1, <3>2 DEF NextDeliverable
  <2> QED BY <1>2, <2>2, <2>3, <2>4 DEF EInv
<1>4. CASE EngineNext
  <2>1. Answering'
    BY <1>4, AnsweringKept
  <2>2. CASE Execute
    BY <1>2, <2>1, <2>2, ExecuteStep DEF EInv
  <2>3. CASE Send
    <3>1. Worker'
      BY <1>1, <2>3, WorkerSame DEF Send
    <3> QED BY <1>1, <1>2, <2>1, <2>3, <3>1, SendPipeline, SendDeliverable, SendNext
        DEF EInv
  <2>4. CASE ~Execute /\ ~Send
    <3>1. /\ UNCHANGED <<inbox, requests, rows, prevIndex, sampled, execState>>
          /\ EndReceive \/ UNCHANGED <<outbox, frames>>
      BY <1>4, <2>4, WorkerUndisturbed
    <3>2. Worker' /\ Deliverable'
      BY <1>1, <3>1, WorkerSame, DeliverableSame
    <3>3. Pipeline'
      BY <1>1, <3>1, PipelineSame, EndReceivePipeline
    <3>4. NextDeliverable'
      <4>1. ASSUME NEW r \in Requests, UpdateRow(r) \/ SkipRow(r)
            PROVE  NextDeliverable'
        BY <4>1, RowNext
      <4> QED BY <1>4, <2>4, <4>1, LoopEndsNext, RunningLoopNext, AdmitHeadNext,
                 EndReceiveNext, OutsideNext DEF EngineNext
    <3> QED BY <1>2, <2>1, <3>2, <3>3, <3>4 DEF EInv
  <2> QED BY <2>2, <2>3, <2>4
<1> QED BY <1>3, <1>4

\* In every state of the engine the ledger of the scheduler is right, every
\* frame is on its way, in execution or answered, and what is on its way can
\* be executed.
THEOREM EInvHolds == EngineSpec => []EInv
<1>1. EngineInit => EInv
  BY InitEngine
<1>2. EInv /\ [EngineNext]_engineVars => EInv'
  BY EngineStepKeeps
<1> QED BY <1>1, <1>2, PTL DEF EngineSpec

(***************************************************************************)
(* The engine implements its scheduler: whatever the model runner makes of *)
(* the steps it is sent, two of them in flight and its counts a step       *)
(* behind, its answers are answers Scheduler allows for, row by row: no    *)
(* token for a row the scheduler counts as a prompt chunk, at least one    *)
(* for every other and at most one more than its drafts.                   *)
(***************************************************************************)
THEOREM RefinesScheduler == EngineSpec => SchedulerSpec
<1>1. EngineInit => Init
  BY DEF EngineInit
<1>2. EInv /\ [EngineNext]_engineVars => [Next]_vars
  BY StepRefines DEF EInv
<1> QED BY <1>1, <1>2, EInvHolds, PTL DEF EngineSpec, SchedulerSpec

(***************************************************************************)
(* What the scheduler sends suffices: the request of a row that is not new *)
(* is cached by the worker, and one that lost its row comes with all its   *)
(* token ids, none of them a placeholder still.                            *)
(***************************************************************************)
THEOREM HandoverIsComplete == EngineSpec => []HandoverComplete
<1>1. EInv => HandoverComplete
  <2> SUFFICES ASSUME EInv, execState = <<>>, inbox # <<>>
               PROVE  LET m == Head(inbox)
                          cachedReqs == Runner!InStep(m) \ m.new
                      IN  /\ cachedReqs \subseteq DOMAIN requests
                          /\ \A r \in cachedReqs \ Runner!KeepRow(m) :
                               m.outputs[r] > 0
                                 => r \in m.all /\ m.outputs[r] = m.out[r]
    BY DEF HandoverComplete
  <2>1. /\ Shape /\ Pipeline /\ Worker /\ Deliverable /\ ~Executing
    BY DEF EInv, IInv, Executing
  <2>2. Head(inbox) = inbox[1] /\ 1 \in 1..Len(inbox) /\ inbox[1] \in Messages
    BY <2>1, Stages
  <2>3. PICK m \in Messages : m = inbox[1]
    BY <2>2
  <2>4. Runner!InStep(m) = RowsOf(m)
    BY DEF Runner!InStep, RowsOf
  <2>5. \A r \in RowsOf(m) \ m.new : r \in DOMAIN requests /\ r \notin m.finished
    BY <2>1, <2>3, Oldest
  <2>6. \A r \in RowsOf(m) \ m.new :
          r \in m.resumed \/ r \notin Before(1) =>
            r \in m.all /\ m.outputs[r] = m.out[r]
    BY <2>1, <2>2, <2>3 DEF Deliverable
  <2>7. Before(1) = Runner!ToSet(rows)
    BY SameOperators DEF Before
  <2>8. \A r \in RowsOf(m) \ m.new :
          r \notin Runner!KeepRow(m) => r \in m.resumed \/ r \notin Before(1)
    BY <2>4, <2>5, <2>7 DEF Runner!KeepRow
  <2> QED BY <2>2, <2>3, <2>4, <2>5, <2>6, <2>8
<1> QED BY <1>1, EInvHolds, PTL

-----------------------------------------------------------------------------
(* Answers on their way.                                                   *)

\* What frame k keeps num_computed_tokens of r ahead of the worker: the
\* drafts rejected in an answer not yet read, or all its tokens.
Share(k, r) ==
  IF k <= Len(outbox)
  THEN IF r \in frames[k].emits /\ (k = 1 /\ phase = "update" => r \in todo)
       THEN frames[k].spec[r] + 1 - outbox[k].generated[r] ELSE 0
  ELSE frames[k].n[r]


\* A request in no frame that is in flight.
Absent(r) == \A k \in 1..Len(frames) : frames[k].n[r] = 0


LEMMA ShareFacts ==
  ASSUME Shape, FramesSound, Pipeline, NEW k \in 1..Len(frames),
         NEW r \in Requests
  PROVE  /\ frames[k].n[r] \in Int /\ frames[k].spec[r] \in Int
         /\ Share(k, r) \in Int
         /\ frames[k].n[r] = 0 => Share(k, r) = 0
         /\ r \notin frames[k].emits /\ k <= Len(outbox) => Share(k, r) = 0
         /\ k <= Len(outbox) /\ r \in frames[k].emits =>
              /\ frames[k].spec[r] = 0 => outbox[k].generated[r] = 1
              /\ outbox[k].generated[r] \in Int
<1>1. /\ frames[k] \in ShapedFrame /\ frames[k].spec[r] \in Int
      /\ frames[k].spec[r] >= 0 /\ k \in DOMAIN frames
  BY OwedFacts, FramesLen
<1>2. frames[k].n[r] \in Int
  BY <1>1 DEF ShapedFrame
<1>3. r \in frames[k].emits => frames[k].n[r] > 0
  BY <1>1 DEF FramesSound
<1>4. CASE k <= Len(outbox)
  <2>1. k \in 1..Len(outbox)
    <3>1. Len(outbox) \in Nat
      BY LenProperties DEF Pipeline
    <3> QED BY <1>4, <3>1
  <2>2. Reports(outbox[k], frames[k])
    BY <2>1 DEF Pipeline
  <2>3. CASE r \in frames[k].emits
    <3>1. PICK s, g \in Int :
            /\ s = frames[k].spec[r] /\ g = outbox[k].generated[r]
            /\ g > 0 /\ g <= s + 1
      BY <1>1, <1>3, <2>2, <2>3 DEF Reports
    <3>2. s + 1 - g \in Int /\ (s = 0 => g = 1)
      BY <3>1
    <3> QED BY <1>1, <1>2, <1>3, <1>4, <2>3, <3>1, <3>2 DEF Share
  <2>4. CASE r \notin frames[k].emits
    BY <1>1, <1>2, <1>4, <2>4 DEF Share
  <2> QED BY <2>3, <2>4
<1>5. CASE ~(k <= Len(outbox))
  BY <1>1, <1>2, <1>5 DEF Share
<1> QED BY <1>4, <1>5


-----------------------------------------------------------------------------
(* Tokens: how many of a request there are, by the count of either side.   *)

\* Tokens for r in the k-th answer that are not taken in yet.
Unread(k, r) ==
  IF /\ k <= Len(outbox) /\ r \in frames[k].emits
     /\ k = 1 /\ phase = "update" => r \in todo
  THEN outbox[k].generated[r] ELSE 0

Pending(r) == Unread(1, r) + Unread(2, r)

\* The tokens of r the worker knows of, or will with the messages on their way.
Told(r) ==
  IF \E k \in 1..Len(inbox) : r \in inbox[k].new THEN PromptLen[r] ELSE known[r]

\* The scheduler has the tokens of the worker, but for those in the answers it
\* has not read.
Tally ==
  /\ known \in [Requests -> Int]
  /\ \A r \in Requests :
       req[r].status \in Active /\ r \notin newReqs =>
         NumTokens(r) + Pending(r) = Told(r)

LEMMA UnreadFacts ==
  ASSUME Shape, FramesSound, Pipeline, NEW k \in {1, 2}, NEW r \in Requests
  PROVE  /\ Unread(k, r) \in Int
         /\ Len(outbox) < k => Unread(k, r) = 0
         /\ k <= Len(frames) /\ frames[k].n[r] = 0 => Unread(k, r) = 0
<1>1. PICK O \in Nat : O = Len(outbox) /\ O <= Len(frames) /\ Len(frames) \in Nat
  BY Stages
<1>2. CASE O < k
  <2>1. ~(k <= Len(outbox))
    BY <1>1, <1>2
  <2> QED BY <2>1 DEF Unread
<1>3. CASE k <= O
  <2>1. k \in 1..Len(frames)
    BY <1>1, <1>3
  <2>2. r \in frames[k].emits => outbox[k].generated[r] \in Int
    BY <1>1, <1>3, <2>1, ShareFacts
  <2>3. frames[k].n[r] = 0 => r \notin frames[k].emits
    BY <2>1, FramesLen DEF FramesSound
  <2> QED BY <1>1, <1>3, <2>2, <2>3 DEF Unread
<1> QED BY <1>1, <1>2, <1>3

LEMMA PendingFacts ==
  ASSUME Shape, FramesSound, Pipeline, NEW r \in Requests
  PROVE  /\ Pending(r) \in Int
         /\ Absent(r) => Pending(r) = 0
<1>1. /\ Unread(1, r) \in Int /\ Unread(2, r) \in Int
      /\ Len(outbox) < 1 => Unread(1, r) = 0
      /\ Len(outbox) < 2 => Unread(2, r) = 0
      /\ 1 <= Len(frames) /\ frames[1].n[r] = 0 => Unread(1, r) = 0
      /\ 2 <= Len(frames) /\ frames[2].n[r] = 0 => Unread(2, r) = 0
  BY UnreadFacts
<1>2. PICK F, O \in Nat : F = Len(frames) /\ O = Len(outbox) /\ O <= F
  BY Stages
<1>3. ASSUME Absent(r)
      PROVE  Unread(1, r) = 0 /\ Unread(2, r) = 0
  <2>1. 1 <= F => 1 \in 1..Len(frames)
    BY <1>2
  <2>2. 2 <= F => 2 \in 1..Len(frames)
    BY <1>2
  <2>3. Unread(1, r) = 0
    BY <1>1, <1>2, <1>3, <2>1 DEF Absent
  <2>4. Unread(2, r) = 0
    BY <1>1, <1>2, <1>3, <2>2 DEF Absent
  <2> QED BY <2>3, <2>4
<1> QED BY <1>1, <1>3 DEF Pending

LEMMA SamePending ==
  ASSUME UNCHANGED <<frames, outbox>>,
         NEW r \in Requests,
         (phase' = "update" => r \in todo') <=> (phase = "update" => r \in todo)
  PROVE  Pending(r)' = Pending(r)
<1>1. Unread(1, r)' = Unread(1, r) /\ Unread(2, r)' = Unread(2, r)
  BY DEF Unread
<1> QED BY <1>1 DEF Pending

LEMMA TallyKept ==
  ASSUME Tally, UNCHANGED <<known, inbox>>,
         \A r \in Requests :
           req'[r].status \in Active /\ r \notin newReqs' =>
             /\ req[r].status \in Active /\ r \notin newReqs
             /\ NumTokens(r)' + Pending(r)' = NumTokens(r) + Pending(r)
  PROVE  Tally'
<1>1. \A r \in Requests : Told(r)' = Told(r)
  BY DEF Told
<1> QED BY <1>1 DEF Tally

LEMMA BeginTally ==
  ASSUME EInv, Tally, Begin \/ Receive
  PROVE  Tally'
<1>1. /\ Shape /\ Ledger /\ Pipeline /\ NextDeliverable /\ FramesSound
  BY DEF EInv, IInv, Ledger
<1>2. /\ UNCHANGED <<known, inbox, outbox, frames, req>> /\ phase = "idle"
  BY DEF Begin, Receive, BeginSchedule, BeginUpdate, runnerVars
<1>3. newReqs = {} /\ newReqs' = {}
  BY <1>1, <1>2 DEF NextDeliverable, Begin, Receive, admitVars
<1>4. ASSUME NEW r \in Requests
      PROVE  Pending(r)' = Pending(r)
  <2>1. CASE Begin
    <3>1. phase' = "running"
      BY <2>1 DEF Begin, BeginSchedule
    <3> QED BY <1>2, <3>1, SamePending
  <2>2. CASE Receive
    <3>1. /\ phase' = "update" /\ frames # <<>>
          /\ todo' = {q \in Requests : Head(frames).n[q] > 0}
      BY <2>2 DEF Receive, BeginUpdate
    <3>2. CASE r \in todo'
      BY <1>2, <3>2, SamePending
    <3>3. CASE r \notin todo'
      <4>1. 1 \in 1..Len(frames) /\ 1 \in DOMAIN frames /\ Head(frames) = frames[1]
        BY <1>1, <3>1, FramesLen
      <4>2. r \notin frames[1].emits
        BY <1>1, <3>1, <3>3, <4>1 DEF FramesSound
      <4>3. Unread(1, r)' = Unread(1, r) /\ Unread(2, r)' = Unread(2, r)
        BY <1>2, <4>2 DEF Unread
      <4> QED BY <4>3 DEF Pending
    <3> QED BY <3>2, <3>3
  <2> QED BY <2>1, <2>2
<1>5. \A r \in Requests : NumTokens(r)' = NumTokens(r)
  BY <1>2 DEF NumTokens
<1> QED BY <1>2, <1>3, <1>4, <1>5, TallyKept

LEMMA RunningLoopTally ==
  ASSUME EInv, Tally, RunningLoop
  PROVE  Tally'
<1>1. /\ Shape /\ Queued
  BY DEF EInv, IInv
<1>2. /\ UNCHANGED <<known, inbox, outbox, newReqs, resumedReqs>>
  BY DEF RunningLoop, runnerVars, admitVars
<1>3. /\ phase = "running" /\ phase' # "update" /\ frames' = frames
  BY DEF RunningLoop, SkipRunning, ScheduleRunning, PreemptLast, EndRunning,
     InRunningLoop
<1>4. \A r \in Requests : Pending(r)' = Pending(r)
  BY <1>2, <1>3, SamePending
<1>5. \A r \in Requests :
        /\ req'[r].status \in Active => req[r].status \in Active
        /\ req'[r].out = req[r].out
  <2>1. CASE SkipRunning \/ EndRunning
    BY <2>1 DEF SkipRunning, EndRunning
  <2>2. CASE ScheduleRunning
    <3>1. PICK q \in Requests : q = running[cursor]
      BY <1>1, <2>2, RunningRequest DEF ScheduleRunning
    <3>2. req' = [req EXCEPT ![q].spec = 0] /\ req[q] \in ShapedRecord
      BY <1>1, <2>2, <3>1 DEF ScheduleRunning, Shape
    <3>3. req'[q].status = req[q].status /\ req'[q].out = req[q].out
      BY <1>1, <3>2 DEF Shape, ShapedRecord
    <3>4. \A r \in Requests : r # q => req'[r] = req[r]
      BY <1>1, <3>2 DEF Shape
    <3> QED BY <3>3, <3>4
  <2>3. CASE PreemptLast
    <3>1. PICK q \in Requests : q = Last(running) /\ req[q].status = "RUNNING"
      <4>1. running # <<>>
        BY <1>1, <2>3, RunningRequest DEF PreemptLast
      <4>2. Last(running) \in Requests /\ Last(running) \in ToSet(running)
        BY <1>1, <4>1, FrontOfQueue DEF Queued
      <4> QED BY <1>1, <4>2 DEF Queued
    <3>2. req' = [req EXCEPT ![q] = Preempted(req[q])]
      BY <2>3, <3>1 DEF PreemptLast
    <3>3. Preempted(req[q]).out = req[q].out
      BY DEF Preempted
    <3> QED BY <1>1, <3>1, <3>2, <3>3 DEF Shape, Active
  <2> QED BY <2>1, <2>2, <2>3 DEF RunningLoop
<1>6. \A r \in Requests : NumTokens(r)' = NumTokens(r)
  BY <1>5 DEF NumTokens
<1> QED BY <1>2, <1>4, <1>5, <1>6, TallyKept

LEMMA AdmitHeadTally ==
  ASSUME EInv, Tally, AdmitHead
  PROVE  Tally'
<1>1. /\ Shape /\ Queued /\ InWaitingLoop
  BY DEF EInv, IInv, AdmitHead, Admit
<1>2. PICK r \in Requests :
        r = Head(waiting) /\ req[r].status \in {"WAITING", "PREEMPTED"}
  BY <1>1, WaitingRequest
<1>3. PICK hit :
        req' = [req EXCEPT ![r].status = "RUNNING", ![r].computed = hit]
  BY <1>2 DEF AdmitHead, Admit
<1>4. UNCHANGED <<known, inbox, outbox, frames, phase>> /\ phase = "waiting"
  BY <1>1 DEF AdmitHead, Admit, runnerVars, InWaitingLoop
<1>5. /\ req[r].status = "WAITING" => r \in newReqs'
      /\ newReqs \subseteq newReqs'
  BY <1>2 DEF AdmitHead
<1>6. /\ req'[r].out = req[r].out
      /\ \A q \in Requests : q # r => req'[q] = req[q]
  BY <1>1, <1>3 DEF Shape, ShapedRecord
<1>7. ASSUME NEW q \in Requests
      PROVE  Pending(q)' = Pending(q) /\ NumTokens(q)' = NumTokens(q)
  BY <1>4, <1>6, SamePending DEF NumTokens
<1>8. \A q \in Requests :
        req'[q].status \in Active /\ q \notin newReqs' =>
          req[q].status \in Active /\ q \notin newReqs
  BY <1>2, <1>5, <1>6 DEF Active
<1> QED BY <1>4, <1>7, <1>8, TallyKept

LEMMA OutsideTally ==
  ASSUME EInv, Tally, Outside
  PROVE  Tally'
<1>1. Shape
  BY DEF EInv, IInv
<1>2. UNCHANGED <<known, inbox, outbox, frames, newReqs, phase>> /\ phase = "idle"
  BY DEF Outside, runnerVars, admitVars, ClientStep, AddRequest, Abort,
     SetPauseState, stepVars
<1>3. \A r \in Requests : Pending(r)' = Pending(r)
  BY <1>2, SamePending
<1>4. \A r \in Requests : req'[r].status \in Active => req'[r] = req[r]
  <2>1. CASE \E p \in PauseStates : SetPauseState(p)
    BY <2>1 DEF SetPauseState
  <2>2. ASSUME NEW q \in Requests, AddRequest(q)
        PROVE  \A r \in Requests : req'[r].status \in Active => req'[r] = req[r]
    <3>1. req' = [req EXCEPT ![q].status = "WAITING"]
      BY <2>2 DEF AddRequest
    <3>2. req'[q].status = "WAITING"
      BY <1>1, <3>1 DEF Shape, ShapedRecord
    <3>3. \A r \in Requests : r # q => req'[r] = req[r]
      BY <1>1, <3>1 DEF Shape
    <3> QED BY <3>2, <3>3 DEF Active
  <2>3. ASSUME NEW q \in Requests, Abort(q)
        PROVE  \A r \in Requests : req'[r].status \in Active => req'[r] = req[r]
    <3>1. req' = [req EXCEPT ![q] = Finished(req[q])]
      BY <2>3 DEF Abort
    <3>2. Finished(req[q]).status = "FINISHED"
      BY DEF Finished
    <3> QED BY <1>1, <3>1, <3>2 DEF Shape, Active
  <2> QED BY <2>1, <2>2, <2>3 DEF Outside, ClientStep
<1>5. \A r \in Requests :
        req'[r].status \in Active => NumTokens(r)' = NumTokens(r)
  BY <1>4 DEF NumTokens
<1> QED BY <1>2, <1>3, <1>4, <1>5, TallyKept

\* A request that goes on keeps all tokens of its row.
LEMMA RowTokens ==
  ASSUME IInv, Pipeline, Answering, NEW r \in Requests, UpdateRow(r),
         req'[r].status \in Active
  PROVE  /\ req[r].status \in Active /\ 1 \in 1..Len(outbox)
         /\ r \notin frames[1].emits => req'[r].out = req[r].out
         /\ r \in frames[1].emits =>
              req'[r].out = req[r].out + outbox[1].generated[r]
<1>1. /\ Shape /\ Ledger /\ Visit(r) /\ req[r].status # "FINISHED"
      /\ phase = "update" /\ r \in todo
      /\ req \in [Requests -> ShapedRecord] /\ req[r] \in ShapedRecord
  BY DEF IInv, UpdateRow, Visit, Shape
<1>2. /\ 1 \in 1..Len(frames) /\ Head(frames) = frames[1]
  BY <1>1, FramesLen DEF Shape
<1>3. /\ outbox # <<>> /\ Head(outbox) = outbox[1] /\ 1 \in 1..Len(outbox)
  <2>1. outbox # <<>> /\ outbox \in Seq(Answers) /\ Len(outbox) \in Nat
    BY <1>1, LenProperties DEF Answering, Pipeline
  <2> QED BY <2>1, EmptySeq
<1>4. Reports(outbox[1], frames[1]) /\ frames[1].n[r] > 0
  BY <1>1, <1>2, <1>3 DEF Pipeline, Answering
<1>5. PICK s \in Int : s = frames[1].spec[r] /\ s >= 0
  BY <1>1, <1>2, OwedFacts DEF Ledger
<1>6. PICK generated \in 0..(s + 1) :
        /\ generated = outbox[1].generated[r]
        /\ generated > 0 <=> r \in frames[1].emits
  BY <1>4, <1>5 DEF Reports
<1>7. \/ /\ generated = 0
         /\ req' = [req EXCEPT ![r] = Resized(req[r], 0, LengthFor(r, req[r]))]
      \/ /\ generated > 0
         /\ \E kept \in 1..generated :
              \/ req' = [req EXCEPT ![r] = Finished(Kept(r, generated, kept))]
              \/ /\ StopsAfter(r, generated, kept, FALSE)
                 /\ req' = [req EXCEPT ![r] =
                      Resized(Kept(r, generated, kept), kept,
                              LengthFor(r, Kept(r, generated, kept)))]
  <2>1. Head(outbox).generated[r] = generated
    BY <1>3, <1>6
  <2> QED BY <2>1, Zenon DEF UpdateRow, Kept
<1>8. CASE generated = 0
  <2>1. ~(generated > 0)
    BY <1>8
  <2>2. req' = [req EXCEPT ![r] = Resized(req[r], 0, LengthFor(r, req[r]))]
    BY <1>7, <2>1, Zenon
  <2>3. Resized(req[r], 0, LengthFor(r, req[r])) = req[r]
    BY DEF Resized
  <2>4. req'[r] = req[r]
    BY <1>1, <2>2, <2>3
  <2> QED BY <1>3, <1>6, <2>1, <2>4
<1>9. CASE generated # 0
  <2>1. generated > 0 /\ generated \in 1..(Head(frames).spec[r] + 1)
    BY <1>2, <1>5, <1>9
  <2>2. PICK kept \in 1..generated :
          \/ req' = [req EXCEPT ![r] = Finished(Kept(r, generated, kept))]
          \/ /\ StopsAfter(r, generated, kept, FALSE)
             /\ req' = [req EXCEPT ![r] =
                  Resized(Kept(r, generated, kept), kept,
                          LengthFor(r, Kept(r, generated, kept)))]
    BY <1>7, <1>9, Zenon
  <2>3. PICK kr \in ShapedRecord :
          /\ kr = Kept(r, generated, kept) /\ kr.status = req[r].status
          /\ kr.out = req[r].out + kept
    BY <1>1, <2>1, KeptShape
  <2>4. CASE req' = [req EXCEPT ![r] = Finished(kr)]
    <3>1. req'[r].status = "FINISHED"
      BY <1>1, <2>4 DEF Finished
    <3> QED BY <3>1 DEF Active
  <2>5. CASE /\ StopsAfter(r, generated, kept, FALSE)
             /\ req' = [req EXCEPT ![r] = Resized(kr, kept, LengthFor(r, kr))]
    <3>1. /\ req'[r].out = kr.out /\ req'[r].status = kr.status
      <4>1. req'[r] = Resized(kr, kept, LengthFor(r, kr))
        BY <1>1, <2>5
      <4> QED BY <4>1 DEF Resized, ShapedRecord
    <3>2. kept = generated
      <4>1. ~(kept < generated)
        BY <2>5 DEF StopsAfter
      <4> QED BY <2>1, <4>1
    <3> QED BY <1>3, <1>6, <2>1, <2>3, <3>1, <3>2
  <2> QED BY <2>2, <2>3, <2>4, <2>5
<1> QED BY <1>8, <1>9

LEMMA RowTally ==
  ASSUME EInv, Tally, NEW r \in Requests, UpdateRow(r) \/ SkipRow(r)
  PROVE  Tally'
<1>1. /\ IInv /\ Shape /\ Ledger /\ FramesSound /\ Pipeline /\ Answering
  BY DEF EInv, IInv, Ledger
<1>2. /\ UNCHANGED <<known, inbox, outbox, frames, newReqs, phase>>
      /\ phase = "update" /\ todo' = todo \ {r} /\ r \in todo
  BY DEF UpdateRow, SkipRow, SkipFinished, Visit, runnerVars, admitVars, stepVars
<1>3. SkipFinished(r) \/ EmptyRow(r) \/ AcceptTokens(r)
  BY <1>1, UpdateRowRefines DEF SkipRow
<1>4. \A q \in Requests : q # r => req'[q] = req[q]
  <2>1. CASE SkipFinished(r) \/ EmptyRow(r)
    BY <1>1, <2>1, RowsKeepRecords
  <2>2. CASE AcceptTokens(r)
    <3>1. PICK record \in ShapedRecord : req' = [req EXCEPT ![r] = record]
      BY <1>1, <2>2, AcceptedRecord
    <3> QED BY <1>1, <3>1 DEF Shape
  <2> QED BY <1>3, <2>1, <2>2
<1>5. ASSUME NEW q \in Requests, q # r
      PROVE  Pending(q)' = Pending(q) /\ NumTokens(q)' = NumTokens(q)
  BY <1>2, <1>4, <1>5, SamePending DEF NumTokens
<1>6. ASSUME req'[r].status \in Active
      PROVE  /\ req[r].status \in Active
             /\ NumTokens(r)' + Pending(r)' = NumTokens(r) + Pending(r)
  <2>1. UpdateRow(r)
    BY <1>6 DEF SkipRow, SkipFinished, Active
  <2>2. /\ req[r].status \in Active /\ 1 \in 1..Len(outbox) /\ 1 <= Len(outbox)
        /\ r \notin frames[1].emits => req'[r].out = req[r].out
        /\ r \in frames[1].emits =>
             req'[r].out = req[r].out + outbox[1].generated[r]
    BY <1>1, <1>6, <2>1, RowTokens
  <2>3. PICK one, two, o, pl \in Int :
          /\ one = Unread(1, r) /\ two = Unread(2, r)
          /\ o = req[r].out /\ pl = PromptLen[r]
    BY <1>1, UnreadFacts, Numbers
  <2>4. Unread(2, r)' = two
    BY <1>2, <2>3 DEF Unread
  <2>5. Unread(1, r)' = 0
    BY <1>2 DEF Unread
  <2>6. req'[r].out = o + one
    <3>1. CASE r \in frames[1].emits
      <4>1. one = outbox[1].generated[r]
        BY <1>2, <2>2, <2>3, <3>1 DEF Unread
      <4> QED BY <2>2, <2>3, <3>1, <4>1
    <3>2. CASE r \notin frames[1].emits
      <4>1. one = 0
        BY <2>3, <3>2 DEF Unread
      <4> QED BY <2>2, <2>3, <3>2, <4>1
    <3> QED BY <3>1, <3>2
  <2>7. NumTokens(r)' = pl + (o + one) /\ NumTokens(r) = pl + o
    BY <2>3, <2>6 DEF NumTokens
  <2>8. Pending(r)' = 0 + two /\ Pending(r) = one + two
    BY <2>3, <2>4, <2>5 DEF Pending
  <2> QED BY <2>2, <2>3, <2>7, <2>8
<1>7. \A q \in Requests :
        req'[q].status \in Active /\ q \notin newReqs' =>
          /\ req[q].status \in Active /\ q \notin newReqs
          /\ NumTokens(q)' + Pending(q)' = NumTokens(q) + Pending(q)
  BY <1>2, <1>4, <1>5, <1>6
<1> QED BY <1>2, <1>7, TallyKept

LEMMA EndReceiveTally ==
  ASSUME EInv, Tally, EndReceive
  PROVE  Tally'
<1>1. /\ Shape /\ FramesSound /\ Pipeline /\ Answering
  BY DEF EInv, IInv, Ledger
<1>2. /\ UNCHANGED <<known, inbox, req, newReqs>>
      /\ phase = "update" /\ phase' = "idle" /\ todo = {}
      /\ frames' = Tail(frames) /\ outbox' = Tail(outbox)
  BY DEF EndReceive, EndUpdate, admitVars
<1>3. /\ frames \in Seq(ShapedFrame) /\ frames # <<>>
      /\ outbox \in Seq(Answers) /\ outbox # <<>>
  BY <1>1, <1>2 DEF Shape, Answering, Pipeline
<1>4. PICK O \in {1, 2} :
        /\ O = Len(outbox) /\ Len(outbox') = O - 1
        /\ O = 2 => frames'[1] = frames[2] /\ outbox'[1] = outbox[2]
  <2>1. /\ Len(frames') = Len(frames) - 1 /\ Len(outbox') = Len(outbox) - 1
        /\ \A k \in 1..Len(frames') : frames'[k] = frames[k + 1]
        /\ \A k \in 1..Len(outbox') : outbox'[k] = outbox[k + 1]
    BY <1>2, <1>3, HeadTailProperties
  <2>2. PICK F, O \in {0, 1, 2} :
          F = Len(frames) /\ O = Len(outbox) /\ O <= F /\ O # 0
    <3>1. Len(outbox) # 0 /\ Len(outbox) <= Len(frames)
      BY <1>1, <1>3, EmptySeq, Stages
    <3> QED BY <1>1, <3>1, Stages
  <2>3. ASSUME O = 2
        PROVE  frames'[1] = frames[2] /\ outbox'[1] = outbox[2]
    <3>1. F = 2 /\ 1 \in 1..Len(frames') /\ 1 \in 1..Len(outbox') /\ 1 + 1 = 2
      BY <2>1, <2>2, <2>3
    <3>2. frames'[1] = frames[1 + 1] /\ outbox'[1] = outbox[1 + 1]
      BY <2>1, <3>1
    <3> QED BY <3>1, <3>2
  <2> QED BY <2>1, <2>2, <2>3
<1>5. ASSUME NEW r \in Requests
      PROVE  Pending(r)' = Pending(r)
  <2>1. Unread(1, r) = 0
    BY <1>2 DEF Unread
  <2>2. Unread(2, r)' = 0
    <3>1. ~(2 <= Len(outbox'))
      BY <1>4
    <3> QED BY <3>1 DEF Unread
  <2>3. Unread(1, r)' = Unread(2, r)
    <3>1. CASE O = 1
      <4>1. ~(1 <= Len(outbox')) /\ ~(2 <= Len(outbox))
        BY <1>4, <3>1
      <4> QED BY <4>1 DEF Unread
    <3>2. CASE O = 2
      <4>1. 1 <= Len(outbox') /\ 2 <= Len(outbox)
        BY <1>4, <3>2
      <4>2. Unread(1, r)' = IF r \in frames'[1].emits
                            THEN outbox'[1].generated[r] ELSE 0
        BY <1>2, <4>1 DEF Unread
      <4>3. Unread(2, r) = IF r \in frames[2].emits
                           THEN outbox[2].generated[r] ELSE 0
        BY <4>1 DEF Unread
      <4> QED BY <1>4, <3>2, <4>2, <4>3
    <3> QED BY <3>1, <3>2
  <2>4. PICK two \in Int : two = Unread(2, r)
    BY <1>1, UnreadFacts
  <2>5. Pending(r)' = two + 0 /\ Pending(r) = 0 + two
    BY <2>1, <2>2, <2>3, <2>4 DEF Pending
  <2> QED BY <2>5
<1>6. \A r \in Requests : NumTokens(r)' = NumTokens(r)
  BY <1>2 DEF NumTokens
<1> QED BY <1>2, <1>5, <1>6, TallyKept

LEMMA TakeUpTokens ==
  ASSUME Shape, Pipeline, Worker, Deliverable, Runner!ExecuteModel
  PROVE  /\ UNCHANGED <<sampled, drafts>>
         /\ RowsOf(inbox[1]) = {} => rows' = <<>> /\ requests' = States
         /\ RowsOf(inbox[1]) # {} =>
              /\ execState'.m = inbox[1]
              /\ execState'.common = Runner!Common(inbox[1], rows')
              /\ execState'.ids = Runner!InputIds(inbox[1], States, rows')
         /\ known \in [Requests -> Int] =>
              /\ known' \in [Requests -> Int]
              /\ \A r \in Requests :
                   known'[r] = IF r \in inbox[1].new THEN PromptLen[r] ELSE known[r]
<1>1. inbox # <<>>
  BY ExecuteEffect
<1>2. PICK m \in Messages : m = inbox[1] /\ Head(inbox) = m /\ m.new \subseteq RowsOf(m)
  <2>1. 1 \in 1..Len(inbox)
    BY <1>1, Stages
  <2> QED BY <1>1, <2>1, Stages DEF Deliverable
<1>3. Runner!InStep(m) = RowsOf(m) /\ RowsOf(m) \in SUBSET Requests
  BY DEF Runner!InStep, RowsOf
<1>4. States = Runner!UpdatedRequests(m)
  BY <1>2 DEF States
<1>5. PICK batch \in Runner!RowOrders(RowsOf(m)) :
        /\ rows' = batch
        /\ IF batch = <<>>
           THEN requests' = States /\ known' = known
           ELSE /\ execState' =
                     [m |-> m, discarded |-> Runner!Discarded(m, States, batch),
                      common |-> Runner!Common(m, batch),
                      ids |-> Runner!InputIds(m, States, batch),
                      fits |-> Runner!FitsDrafter(m, batch)]
                /\ known' = [r \in Requests |->
                               IF r \in m.new THEN PromptLen[r] ELSE known[r]]
  BY <1>2, <1>3, <1>4 DEF Runner!ExecuteModel
<1>6. batch = <<>> <=> RowsOf(m) = {}
  BY <1>3, <1>5, Batches
<1>7. UNCHANGED <<sampled, drafts>>
  BY DEF Runner!ExecuteModel
<1>8. ASSUME known \in [Requests -> Int]
      PROVE  /\ known' \in [Requests -> Int]
             /\ \A r \in Requests :
                  known'[r] = IF r \in m.new THEN PromptLen[r] ELSE known[r]
  <2>1. \A r \in Requests : PromptLen[r] \in Int
    BY Numbers
  <2>2. CASE RowsOf(m) = {}
    BY <1>2, <1>5, <1>6, <1>8, <2>2
  <2>3. CASE RowsOf(m) # {}
    BY <1>5, <1>6, <1>8, <2>1, <2>3
  <2> QED BY <2>2, <2>3
<1> QED BY <1>2, <1>5, <1>6, <1>7, <1>8

LEMMA ExecuteTally ==
  ASSUME EInv, Tally, Runner!ExecuteModel, UNCHANGED <<vars, prevStep, admitVars>>
  PROVE  Tally'
<1>1. /\ Shape /\ FramesSound /\ Pipeline /\ Worker /\ Deliverable
  BY DEF EInv, IInv, Ledger
<1>2. /\ UNCHANGED <<req, frames, phase, todo, newReqs>>
  BY DEF vars, admitVars
<1>3. PICK m \in Messages : m = inbox[1] /\ ~Executing /\ 1 \in 1..Len(inbox)
  <2>1. ~Executing /\ inbox # <<>>
    BY <1>1, ExecuteEffect
  <2> QED BY <1>1, <2>1, Stages
<1>4. PICK L \in Nat :
        /\ Len(inbox) = L + 1 /\ Len(inbox') = L
        /\ \A k \in 1..L : inbox'[k] = inbox[k + 1]
  <2>1. /\ Len(inbox) \in {1, 2} /\ Len(inbox') = Len(inbox) - 1
        /\ \A k \in 1..Len(inbox') : inbox'[k] = inbox[k + 1]
    BY <1>1, ExecuteEffect, TakeOldest
  <2>2. PICK L \in Nat : L = Len(inbox) - 1
    BY <2>1
  <2> QED BY <2>1, <2>2
<1>5. /\ known' \in [Requests -> Int]
      /\ \A r \in Requests :
           known'[r] = IF r \in m.new THEN PromptLen[r] ELSE known[r]
  BY <1>1, <1>3, TakeUpTokens DEF Tally
<1>6. ASSUME NEW r \in Requests
      PROVE  Told(r)' = Told(r)
  <2>1. CASE \E k \in 1..L : r \in inbox'[k].new
    <3>1. PICK k \in 1..L : r \in inbox'[k].new
      BY <2>1
    <3>2. k + 1 \in 1..(L + 1) /\ r \in inbox[k + 1].new
      BY <1>4, <3>1
    <3> QED BY <1>4, <2>1, <3>2 DEF Told
  <2>2. CASE ~\E k \in 1..L : r \in inbox'[k].new
    <3>1. Told(r)' = known'[r]
      BY <1>4, <2>2 DEF Told
    <3>2. CASE r \in m.new
      BY <1>3, <1>5, <3>1, <3>2 DEF Told
    <3>3. CASE r \notin m.new
      <4>1. ASSUME NEW k \in 1..(L + 1), r \in inbox[k].new
            PROVE  FALSE
        <5>1. k # 1
          BY <1>3, <3>3, <4>1
        <5>2. PICK j \in 1..L : k = j + 1
          <6>1. k - 1 \in 1..L /\ k = (k - 1) + 1
            BY <5>1
          <6> QED BY <6>1
        <5> QED BY <1>4, <2>2, <4>1, <5>2
      <4>2. Told(r) = known[r]
        BY <1>4, <4>1 DEF Told
      <4> QED BY <1>5, <3>1, <3>3, <4>2
    <3> QED BY <3>2, <3>3
  <2> QED BY <2>1, <2>2
<1>7. ASSUME NEW r \in Requests
      PROVE  Pending(r)' = Pending(r)
  <2>1. CASE outbox' = outbox
    BY <1>2, <2>1, SamePending
  <2>2. CASE RowsOf(m) = {} /\ outbox' = Append(outbox, Runner!EmptyOutput)
    <3>1. PICK O \in Nat : O = Len(outbox)
      BY <1>1, Stages
    <3>2. Len(outbox') = O + 1 /\ \A j \in 1..O : outbox'[j] = outbox[j]
      BY <1>1, <2>2, <3>1, AppendProperties DEF Pipeline
    <3>3. ASSUME NEW k \in {1, 2}
          PROVE  Unread(k, r)' = Unread(k, r)
      <4>1. CASE k <= O
        <5>1. k \in 1..O /\ k <= O + 1
          BY <4>1
        <5> QED BY <1>2, <3>1, <3>2, <5>1 DEF Unread
      <4>2. CASE k = O + 1
        <5>1. Announces(m, frames[O + InHand + 1])
          BY <1>1, <1>3, <3>1, FramesAnnounced
        <5>2. O + InHand + 1 = k
          BY <1>3, <3>1, <4>2 DEF InHand
        <5>3. r \notin frames[k].emits
          BY <2>2, <5>1, <5>2 DEF Announces, Emitting
        <5> QED BY <1>2, <5>3 DEF Unread
      <4>3. CASE k > O + 1
        <5>1. ~(k <= Len(outbox)) /\ ~(k <= Len(outbox'))
          BY <3>1, <3>2, <4>3
        <5> QED BY <5>1 DEF Unread
      <4> QED BY <3>1, <4>1, <4>2, <4>3
    <3>4. Unread(1, r)' = Unread(1, r) /\ Unread(2, r)' = Unread(2, r)
      BY <3>3
    <3> QED BY <3>4 DEF Pending
  <2> QED BY <1>1, <1>3, <2>1, <2>2, ExecuteEffect
<1>8. \A r \in Requests : NumTokens(r)' = NumTokens(r)
  BY <1>2 DEF NumTokens
<1> QED BY <1>2, <1>5, <1>6, <1>7, <1>8 DEF Tally

-----------------------------------------------------------------------------
(* What sample_tokens() leaves for the next step.                          *)

\* The tokens of r in the answer this step gives.
Given(r) == outbox'[Len(outbox) + 1].generated[r]

\* The position of the token sampled last for the request of row p.
LastOf(m, p) ==
  gpuComputed[p] + m.n[rows[p]] - m.spec[rows[p]] - 1 + Given(rows[p])

\* The token for the next step, and the drafts behind it.
Noted(m, p) ==
  /\ sampled'.next[p] = <<rows[p], LastOf(m, p)>>
  /\ \A j \in 1..NumSpecTokens :
       drafts'[p][j] \in {<<rows[p], LastOf(m, p) + j>>, Runner!Zero}

LEMMA Outcome ==
  ASSUME Pipeline, Worker, Runner!SampleTokens, NEW m, m = execState.m
  PROVE  /\ DOMAIN prevIndex' = Emitting(m)
         /\ sampled' # <<>> /\ (rows # <<>> => drafts' # <<>>)
         /\ known' = [r \in Requests |-> IF r \in RowsOf(m)
                                         THEN known[r] + Given(r) ELSE known[r]]
         /\ \A r \in Emitting(m) :
              /\ prevIndex'[r] \in DOMAIN rows /\ rows[prevIndex'[r]] = r
              /\ Noted(m, prevIndex'[r])
         /\ \A r \in DOMAIN requests : requests'[r].real = requests[r].real
<1>1. Executing /\ m \in Messages
  BY DEF Runner!SampleTokens, Executing, Runner!None, Worker
<1>2. /\ rows \in Seq(Requests) /\ ToSet(rows) = RowsOf(m) /\ IsInjective(rows)
      /\ execState.discarded = {i \in DOMAIN rows : rows[i] \notin Emitting(m)}
  BY <1>1 DEF Worker
<1>3. PICK count \in [DOMAIN rows -> 0..(NumSpecTokens + 1)] :
        /\ \A i \in DOMAIN rows : count[i] \in Runner!SampledCounts(m, i)
        /\ sampled' = [next |-> Runner!NextTokens(m, count), count |-> count]
        /\ Runner!Propose(m, count)
        /\ prevIndex' = Runner!SampledRows
        /\ requests' = [r \in DOMAIN requests |->
                          IF r \in DOMAIN Runner!SampledRows
                          THEN [requests[r] EXCEPT !.outs = @ + 1]
                          ELSE requests[r]]
        /\ \E lengths \in Runner!ReportedLengths :
             outbox' = Append(outbox,
               [generated |->
                  [r \in Runner!ToSet(rows) |-> count[Runner!RowOf(r)]],
                lengths |-> lengths])
        /\ known' = [r \in Requests |->
                       IF r \in Runner!ToSet(rows)
                       THEN known[r] + count[Runner!RowOf(r)] ELSE known[r]]
  BY Zenon DEF Runner!SampleTokens
<1>4. ASSUME NEW r \in RowsOf(m)
      PROVE  Runner!RowOf(r) \in DOMAIN rows /\ rows[Runner!RowOf(r)] = r
  <2>1. \E i \in DOMAIN rows : rows[i] = r
    BY <1>2 DEF ToSet
  <2> QED BY <2>1 DEF Runner!RowOf
<1>5. ASSUME NEW r \in RowsOf(m)
      PROVE  Given(r) = count[Runner!RowOf(r)]
  <2>1. PICK g : g = [q \in RowsOf(m) |-> count[Runner!RowOf(q)]]
    OBVIOUS
  <2>2. g = [q \in Runner!ToSet(rows) |-> count[Runner!RowOf(q)]]
    BY <1>2, <2>1, SameOperators
  <2>3. PICK lengths :
          outbox' = Append(outbox, [generated |-> g, lengths |-> lengths])
    BY <1>3, <2>2, Zenon
  <2>4. PICK o : o = [generated |-> g, lengths |-> lengths]
    OBVIOUS
  <2>5. outbox \in Seq(Answers \union {o}) /\ o \in Answers \union {o}
    BY SeqDef DEF Pipeline
  <2>6. outbox'[Len(outbox) + 1] = o
    BY <2>3, <2>4, <2>5, AppendProperties
  <2> QED BY <2>1, <2>4, <2>6 DEF Given
<1>6. Runner!ToSet(rows) = RowsOf(m)
  BY <1>2, SameOperators
<1>7. \A r \in Requests :
        known'[r] = IF r \in RowsOf(m) THEN known[r] + Given(r) ELSE known[r]
  BY <1>3, <1>5, <1>6
<1>8. known' = [r \in Requests |-> IF r \in RowsOf(m)
                                   THEN known[r] + Given(r) ELSE known[r]]
  BY <1>3, <1>7
<1>9. {rows[i] : i \in DOMAIN rows \ execState.discarded} = Emitting(m)
  <2>1. \A i \in DOMAIN rows : rows[i] \in RowsOf(m)
    BY <1>2 DEF ToSet
  <2>2. \A r \in Emitting(m) : \E i \in DOMAIN rows : rows[i] = r
    BY <1>2 DEF ToSet, Emitting
  <2> QED BY <1>2, <2>1, <2>2
<1>10. prevIndex' = [r \in Emitting(m) |-> Runner!RowOf(r)]
  BY <1>3, <1>9 DEF Runner!SampledRows
<1>11. ASSUME NEW p \in DOMAIN rows, rows[p] \in Emitting(m)
       PROVE  Noted(m, p)
  <2>1. PICK r \in RowsOf(m) : r = rows[p]
    BY <1>11 DEF Emitting
  <2>2. Runner!RowOf(r) = p
    BY <1>2, <1>4, <2>1 DEF IsInjective
  <2>3. count[p] = Given(r)
    BY <1>5, <2>1, <2>2
  <2>4. count[p] # 0
    <3>1. p \notin execState.discarded
      BY <1>2, <1>11
    <3>2. count[p] \in 1..(m.spec[rows[p]] + 1)
      BY <1>3, <3>1 DEF Runner!SampledCounts
    <3>3. m.spec[rows[p]] \in Nat
      BY <1>1, <2>1, MessageFacts DEF RowsOf
    <3> QED BY <3>2, <3>3
  <2>5. Runner!LastSampled(m, count, p) = LastOf(m, p)
    BY <2>1, <2>3 DEF Runner!LastSampled, LastOf
  <2>6. sampled'.next[p] = <<rows[p], LastOf(m, p)>>
    BY <1>3, <2>4, <2>5 DEF Runner!NextTokens
  <2>7. \/ drafts' = Runner!ProposedDrafts(m, count)
        \/ drafts' = Runner!ZeroDrafts
    BY <1>3 DEF Runner!Propose
  <2>8. ASSUME NEW j \in 1..NumSpecTokens
        PROVE  drafts'[p][j] \in {<<rows[p], LastOf(m, p) + j>>, Runner!Zero}
    <3>1. CASE drafts' = Runner!ProposedDrafts(m, count)
      <4>1. drafts'[p][j] = <<rows[p], LastOf(m, p) + j>>
        BY <2>4, <2>5, <3>1 DEF Runner!ProposedDrafts
      <4> QED BY <4>1
    <3>2. CASE drafts' = Runner!ZeroDrafts
      BY <3>2 DEF Runner!ZeroDrafts
    <3> QED BY <2>7, <3>1, <3>2
  <2> QED BY <2>6, <2>8 DEF Noted
<1>12. ASSUME NEW r \in Emitting(m)
       PROVE  /\ prevIndex'[r] \in DOMAIN rows /\ rows[prevIndex'[r]] = r
              /\ Noted(m, prevIndex'[r])
  <2>1. r \in RowsOf(m) /\ prevIndex'[r] = Runner!RowOf(r)
    BY <1>10 DEF Emitting
  <2> QED BY <1>4, <1>11, <2>1
<1>13. sampled' # <<>>
  BY <1>3
<1>14. rows # <<>> => drafts' # <<>>
  <2>1. ASSUME rows # <<>> PROVE DOMAIN rows # {}
    <3>1. Len(rows) \in Nat /\ DOMAIN rows = 1..Len(rows) /\ Len(rows) # 0
      BY <1>2, <2>1, LenProperties, EmptySeq
    <3> QED BY <3>1
  <2>2. DOMAIN drafts' = DOMAIN rows
    BY <1>3 DEF Runner!Propose, Runner!ProposedDrafts, Runner!ZeroDrafts
  <2>3. DOMAIN <<>> = {}
    OBVIOUS
  <2> QED BY <2>1, <2>2, <2>3
<1>15. \A r \in DOMAIN requests : requests'[r].real = requests[r].real
  BY <1>1, <1>3 DEF Worker, Cached
<1>16. DOMAIN prevIndex' = Emitting(m)
  BY <1>10
<1> QED BY <1>8, <1>12, <1>13, <1>14, <1>15, <1>16

-----------------------------------------------------------------------------
(* A request is new to the worker once.                                    *)

Unmet(r) ==
  r \notin DOMAIN requests /\ \A k \in 1..Len(inbox) : r \notin inbox[k].new

NewOnce ==
  /\ \A r \in Requests :
       req[r].status \in {"NEW", "WAITING"} \/ r \in newReqs => Unmet(r)
  /\ \A k \in 1..Len(inbox) : \A r \in inbox[k].new :
       /\ r \notin DOMAIN requests
       /\ \A j \in 1..Len(inbox) : r \in inbox[j].new => j = k

LEMMA NewOnceKept ==
  ASSUME NewOnce, UNCHANGED <<inbox, requests>>,
         \A r \in Requests :
           req'[r].status \in {"NEW", "WAITING"} \/ r \in newReqs' =>
             req[r].status \in {"NEW", "WAITING"} \/ r \in newReqs
  PROVE  NewOnce'
BY DEF NewOnce, Unmet

LEMMA ScheduleNewOnce ==
  ASSUME EInv, NewOnce, RunningLoop \/ AdmitHead
  PROVE  NewOnce'
<1>1. Shape /\ Queued
  BY DEF EInv, IInv
<1>2. UNCHANGED <<inbox, requests>>
  BY DEF RunningLoop, AdmitHead, runnerVars
<1>3. CASE RunningLoop
  <2>1. newReqs' = newReqs
    BY <1>3 DEF RunningLoop, admitVars
  <2>2. \A r \in Requests :
          req'[r].status \in {"NEW", "WAITING"} => req[r].status \in {"NEW", "WAITING"}
    <3>1. CASE SkipRunning \/ EndRunning
      BY <3>1 DEF SkipRunning, EndRunning
    <3>2. CASE ScheduleRunning
      <4>1. PICK q \in Requests : q = running[cursor]
        BY <1>1, <3>2, RunningRequest DEF ScheduleRunning
      <4>2. req' = [req EXCEPT ![q].spec = 0] /\ req[q] \in ShapedRecord
        BY <1>1, <3>2, <4>1 DEF ScheduleRunning, Shape
      <4>3. req'[q].status = req[q].status
        BY <1>1, <4>2 DEF Shape, ShapedRecord
      <4> QED BY <1>1, <4>2, <4>3 DEF Shape
    <3>3. CASE PreemptLast
      <4>1. req' = [req EXCEPT ![Last(running)] = Preempted(req[Last(running)])]
        BY <3>3 DEF PreemptLast
      <4>2. Preempted(req[Last(running)]).status = "PREEMPTED"
        BY DEF Preempted
      <4> QED BY <1>1, <4>1, <4>2 DEF Shape
    <3> QED BY <1>3, <3>1, <3>2, <3>3 DEF RunningLoop
  <2> QED BY <1>2, <2>1, <2>2, NewOnceKept
<1>4. CASE AdmitHead
  <2>1. InWaitingLoop
    BY <1>4 DEF AdmitHead, Admit
  <2>2. PICK r \in Requests : r = Head(waiting)
    BY <1>1, <2>1, WaitingRequest
  <2>3. PICK hit :
          req' = [req EXCEPT ![r].status = "RUNNING", ![r].computed = hit]
    BY <1>4, <2>2 DEF AdmitHead, Admit
  <2>4. newReqs' = IF req[r].status = "WAITING" THEN newReqs \union {r} ELSE newReqs
    BY <1>4, <2>2 DEF AdmitHead
  <2>5. /\ req'[r].status = "RUNNING"
        /\ \A q \in Requests : q # r => req'[q] = req[q]
    BY <1>1, <2>3 DEF Shape, ShapedRecord
  <2>6. \A q \in Requests :
          req'[q].status \in {"NEW", "WAITING"} \/ q \in newReqs' =>
            req[q].status \in {"NEW", "WAITING"} \/ q \in newReqs
    BY <2>4, <2>5
  <2> QED BY <1>2, <2>6, NewOnceKept
<1> QED BY <1>3, <1>4

LEMMA OutsideNewOnce ==
  ASSUME EInv, NewOnce, Outside
  PROVE  NewOnce'
<1>1. Shape
  BY DEF EInv, IInv
<1>2. UNCHANGED <<inbox, requests, newReqs>>
  BY DEF Outside, runnerVars, admitVars
<1>3. \A r \in Requests :
        req'[r].status \in {"NEW", "WAITING"} => req[r].status \in {"NEW", "WAITING"}
  <2>1. CASE \E p \in PauseStates : SetPauseState(p)
    BY <2>1 DEF SetPauseState
  <2>2. ASSUME NEW q \in Requests, AddRequest(q)
        PROVE  \A r \in Requests : req'[r].status \in {"NEW", "WAITING"} =>
                                     req[r].status \in {"NEW", "WAITING"}
    BY <1>1, <2>2 DEF AddRequest, Shape
  <2>3. ASSUME NEW q \in Requests, Abort(q)
        PROVE  \A r \in Requests : req'[r].status \in {"NEW", "WAITING"} =>
                                     req[r].status \in {"NEW", "WAITING"}
    <3>1. req' = [req EXCEPT ![q] = Finished(req[q])]
      BY <2>3 DEF Abort
    <3>2. Finished(req[q]).status = "FINISHED"
      BY DEF Finished
    <3> QED BY <1>1, <3>1, <3>2 DEF Shape
  <2> QED BY <2>1, <2>2, <2>3 DEF Outside, ClientStep
<1> QED BY <1>2, <1>3, NewOnceKept

LEMMA ReceiveNewOnce ==
  ASSUME EInv, NewOnce,
         \/ Begin \/ Receive \/ EndReceive
         \/ \E r \in Requests : UpdateRow(r) \/ SkipRow(r)
  PROVE  NewOnce'
<1>1. /\ IInv /\ Shape /\ Pipeline /\ Answering /\ NextDeliverable
  BY DEF EInv, IInv
<1>2. CASE Begin \/ Receive \/ EndReceive
  <2>1. /\ UNCHANGED <<inbox, requests, req>>
    BY <1>2 DEF Begin, Receive, EndReceive, BeginSchedule, BeginUpdate, EndUpdate,
       runnerVars
  <2>2. newReqs' \subseteq newReqs
    BY <1>2 DEF Begin, Receive, EndReceive, admitVars
  <2> QED BY <2>1, <2>2, NewOnceKept
<1>3. ASSUME NEW r \in Requests, UpdateRow(r) \/ SkipRow(r)
      PROVE  NewOnce'
  <2>1. UNCHANGED <<inbox, requests, newReqs>>
    BY <1>3 DEF UpdateRow, SkipRow, runnerVars, admitVars
  <2>2. SkipFinished(r) \/ EmptyRow(r) \/ AcceptTokens(r)
    BY <1>1, <1>3, UpdateRowRefines DEF SkipRow
  <2>3. \A q \in Requests :
          req'[q].status \in {"NEW", "WAITING"} => req[q].status \in {"NEW", "WAITING"}
    <3>1. CASE SkipFinished(r) \/ EmptyRow(r)
      BY <1>1, <3>1, RowsKeepRecords
    <3>2. CASE AcceptTokens(r)
      BY <1>1, <3>2, AcceptedRecord DEF Shape
    <3> QED BY <2>2, <3>1, <3>2
  <2> QED BY <2>1, <2>3, NewOnceKept
<1> QED BY <1>2, <1>3

LEMMA SendNewOnce ==
  ASSUME EInv, NewOnce, Send
  PROVE  NewOnce'
<1>1. /\ Shape /\ Ledger /\ Pipeline /\ NextDeliverable
  BY DEF EInv, IInv
<1>2. requests' = requests /\ newReqs' = {}
  BY <1>1, SendEffect DEF Send
<1>3. \A r \in Requests : req'[r].status = req[r].status
  <2>1. req' = [r \in Requests |-> IF r \in Scheduled THEN Advanced(r) ELSE req[r]]
    BY <1>1, SendEffect
  <2> QED BY <2>1 DEF Advanced
<1>4. PICK L \in Nat :
        /\ L = Len(inbox) /\ Len(inbox') = L + 1
        /\ \A k \in 1..L : inbox'[k] = inbox[k]
        /\ inbox'[L + 1].new = newReqs
  <2>1. PICK L \in Nat : L = Len(inbox)
    BY <1>1, Stages
  <2>2. Output.new = newReqs
    BY DEF Output
  <2> QED BY <1>1, <2>1, <2>2, SendEffect
<1>5. \A k \in 1..(L + 1) : k \in 1..L \/ k = L + 1
  BY <1>4
<1>6. \A r \in newReqs : r \in Requests /\ req[r].status = "RUNNING" /\ Unmet(r)
  <2>1. SUFFICES ASSUME NEW r \in newReqs
                 PROVE  r \in Requests /\ req[r].status = "RUNNING" /\ Unmet(r)
    OBVIOUS
  <2>2. r \in Scheduled /\ r \in Requests
    BY <1>1 DEF NextDeliverable, Scheduled
  <2> QED BY <1>1, <2>2 DEF Ledger, Books, StepBooked, Scheduled, NewOnce
<1>7. ASSUME NEW r \in Requests, req'[r].status \in {"NEW", "WAITING"}
      PROVE  Unmet(r)'
  <2>1. Unmet(r) /\ r \notin newReqs
    BY <1>3, <1>6, <1>7 DEF NewOnce
  <2> QED BY <1>2, <1>4, <1>5, <2>1 DEF Unmet
<1>8. ASSUME NEW k \in 1..(L + 1), NEW r \in inbox'[k].new
      PROVE  /\ r \notin DOMAIN requests
             /\ \A j \in 1..(L + 1) : r \in inbox'[j].new => j = k
  <2>1. CASE k \in 1..L
    <3>1. /\ r \in inbox[k].new /\ r \notin DOMAIN requests
          /\ \A j \in 1..L : r \in inbox[j].new => j = k
      BY <1>4, <2>1 DEF NewOnce
    <3>2. r \notin newReqs
      BY <1>4, <1>6, <2>1, <3>1 DEF Unmet
    <3>3. \A j \in 1..(L + 1) : r \in inbox'[j].new => j = k
      BY <1>4, <1>5, <3>1, <3>2
    <3> QED BY <3>1, <3>3
  <2>2. CASE k = L + 1
    <3>1. Unmet(r)
      BY <1>4, <1>6, <2>2
    <3>2. \A j \in 1..L : r \notin inbox'[j].new
      BY <1>4, <3>1 DEF Unmet
    <3>3. \A j \in 1..(L + 1) : r \in inbox'[j].new => j = k
      BY <1>5, <2>2, <3>2
    <3> QED BY <3>1, <3>3 DEF Unmet
  <2> QED BY <1>5, <2>1, <2>2
<1> QED BY <1>2, <1>4, <1>7, <1>8 DEF NewOnce

LEMMA ExecuteNewOnce ==
  ASSUME EInv, NewOnce, Execute
  PROVE  NewOnce'
<1>1. /\ Shape /\ Pipeline /\ Worker /\ Deliverable
  BY DEF EInv, IInv
<1>2. UNCHANGED <<req, newReqs>>
  BY DEF Execute, vars, admitVars
<1>3. CASE Runner!SampleTokens
  <2>1. inbox' = inbox /\ DOMAIN requests' = DOMAIN requests
    BY <1>1, <1>3, SampleEffect
  <2> QED BY <1>2, <2>1 DEF NewOnce, Unmet
<1>4. CASE Runner!ExecuteModel
  <2>1. DOMAIN requests' = (DOMAIN requests \ inbox[1].finished) \union inbox[1].new
    BY <1>1, <1>4, ExecuteEffect
  <2>2. PICK L \in Nat :
          /\ Len(inbox) = L + 1 /\ Len(inbox') = L
          /\ \A k \in 1..L : inbox'[k] = inbox[k + 1]
    <3>1. inbox # <<>> /\ inbox' = Tail(inbox)
      BY <1>1, <1>4, ExecuteEffect
    <3>2. /\ Len(inbox) \in {1, 2} /\ Len(inbox') = Len(inbox) - 1
          /\ \A k \in 1..Len(inbox') : inbox'[k] = inbox[k + 1]
      BY <1>1, <3>1, TakeOldest
    <3>3. PICK L \in Nat : L = Len(inbox) - 1
      BY <3>2
    <3> QED BY <3>2, <3>3
  <2>3. /\ \A k \in 1..L : k + 1 \in 1..(L + 1) /\ k + 1 # 1
        /\ 1 \in 1..(L + 1)
        /\ \A j, k \in 1..L : j + 1 = k + 1 => j = k
    OBVIOUS
  <2>4. ASSUME NEW r \in Requests, req[r].status \in {"NEW", "WAITING"} \/ r \in newReqs
        PROVE  Unmet(r)'
    <3>1. Unmet(r)
      BY <2>4 DEF NewOnce
    <3> QED BY <2>1, <2>2, <2>3, <3>1 DEF Unmet
  <2>5. ASSUME NEW k \in 1..L, NEW r \in inbox'[k].new
        PROVE  /\ r \notin DOMAIN requests'
               /\ \A j \in 1..L : r \in inbox'[j].new => j = k
    <3>1. /\ k + 1 \in 1..(L + 1) /\ r \in inbox[k + 1].new
      BY <2>2, <2>3, <2>5
    <3>2. /\ r \notin DOMAIN requests
          /\ \A j \in 1..(L + 1) : r \in inbox[j].new => j = k + 1
      BY <2>2, <3>1 DEF NewOnce
    <3>3. r \notin inbox[1].new
      BY <2>3, <3>2
    <3> QED BY <2>1, <2>2, <2>3, <3>2, <3>3
  <2> QED BY <1>2, <2>2, <2>4, <2>5 DEF NewOnce
<1> QED BY <1>3, <1>4 DEF Execute, Runner!RunnerStep

-----------------------------------------------------------------------------
(* The flattened batch.                                                    *)

\* ModelRunner has its own copy of the folds.
LEMMA SameTotal == \A f : Runner!Total(f) = Total(f)
BY DEF Runner!Total, Total, Runner!FoldFunction, FoldFunction,
   Runner!FoldFunctionOnSet, FoldFunctionOnSet, Runner!MapThenFoldSet,
   MapThenFoldSet

\* Every row has tokens.
Filled(m, batch) ==
  batch \in Seq(Requests) /\ \A i \in DOMAIN batch : m.n[batch[i]] \in Nat \ {0}

LEMMA CuIsUpto ==
  ASSUME NEW m, NEW batch, Filled(m, batch)
  PROVE  \E n \in Nat : \E f \in [1..n -> Nat \ {0}] :
           /\ n = Len(batch) /\ DOMAIN batch = 1..n
           /\ \A i \in 1..n : f[i] = m.n[batch[i]]
           /\ \A i \in 0..n : Runner!CuNumTokens(m, batch, i) = Upto(f, i)
           /\ Runner!TotalTokens(m, batch) = Upto(f, n)
           /\ Runner!TotalTokens(m, batch) = Total(f)
<1>1. PICK n \in Nat : n = Len(batch) /\ DOMAIN batch = 1..n
  BY Members DEF Filled
<1>2. PICK f \in [1..n -> Nat \ {0}] : f = [i \in 1..n |-> m.n[batch[i]]]
  BY <1>1 DEF Filled
<1>3. \A i \in 1..n : f[i] = m.n[batch[i]]
  BY <1>2
<1>4. ASSUME NEW i \in 0..n
      PROVE  Runner!CuNumTokens(m, batch, i) = Upto(f, i)
  <2>1. [j \in 1..i |-> m.n[batch[j]]] = [j \in 1..i |-> f[j]]
    <3>1. \A j \in 1..i : f[j] = m.n[batch[j]]
      BY <1>3
    <3> QED BY <3>1
  <2> QED BY <2>1, SameTotal DEF Runner!CuNumTokens, Upto
<1>5. Runner!TotalTokens(m, batch) = Upto(f, n)
  BY <1>1, <1>4 DEF Runner!TotalTokens
<1>6. Upto(f, n) = Total(f)
  <2>1. [j \in 1..n |-> f[j]] = f
    OBVIOUS
  <2> QED BY <2>1 DEF Upto
<1> QED BY <1>1, <1>3, <1>4, <1>5, <1>6

\* The rows follow each other.
LEMMA Layout ==
  ASSUME NEW m, NEW batch, Filled(m, batch)
  PROVE  /\ Runner!CuNumTokens(m, batch, 0) = 0
         /\ Len(batch) \in Nat /\ DOMAIN batch = 1..Len(batch)
         /\ \A i \in 0..Len(batch) :
              /\ Runner!CuNumTokens(m, batch, i) \in Nat
              /\ i <= Runner!CuNumTokens(m, batch, i)
              /\ Runner!CuNumTokens(m, batch, i) <= Runner!TotalTokens(m, batch)
         /\ \A i \in 1..Len(batch) :
              Runner!CuNumTokens(m, batch, i)
                = Runner!CuNumTokens(m, batch, i - 1) + m.n[batch[i]]
         /\ \A i, j \in 1..Len(batch) :
              i < j => Runner!CuNumTokens(m, batch, i)
                         <= Runner!CuNumTokens(m, batch, j - 1)
<1>1. PICK n \in Nat : \E f \in [1..n -> Nat \ {0}] :
        /\ n = Len(batch) /\ DOMAIN batch = 1..n
        /\ \A i \in 1..n : f[i] = m.n[batch[i]]
        /\ \A i \in 0..n : Runner!CuNumTokens(m, batch, i) = Upto(f, i)
        /\ Runner!TotalTokens(m, batch) = Upto(f, n)
  BY CuIsUpto
<1>2. PICK f \in [1..n -> Nat \ {0}] :
        /\ n = Len(batch) /\ DOMAIN batch = 1..n
        /\ \A i \in 1..n : f[i] = m.n[batch[i]]
        /\ \A i \in 0..n : Runner!CuNumTokens(m, batch, i) = Upto(f, i)
        /\ Runner!TotalTokens(m, batch) = Upto(f, n)
  BY <1>1
<1>3. /\ \A i \in 0..n : Upto(f, i) \in Nat /\ i <= Upto(f, i)
      /\ \A i, j \in 0..n : i <= j => Upto(f, i) <= Upto(f, j)
      /\ \A i \in 0..n : \A j \in 1..n : i < j => Upto(f, i) <= Upto(f, j - 1)
  BY UptoGrows
<1>4. /\ Upto(f, 0) = 0
      /\ \A i \in 1..n : Upto(f, i) = Upto(f, i - 1) + f[i]
  <2>1. f \in [1..n -> Int]
    OBVIOUS
  <2> QED BY <2>1, UptoSteps
<1>5. /\ 0 \in 0..n /\ n \in 0..n /\ \A i \in 0..n : i <= n
      /\ \A i \in 1..n : i \in 0..n /\ i - 1 \in 0..n
  OBVIOUS
<1> QED BY <1>2, <1>3, <1>4, <1>5

\* What the CPU has for position p of r.
CpuId(states, r, p) ==
  IF p < PromptLen[r] + states[r].real THEN <<r, p>> ELSE Runner!Placeholder

LEMMA CpuIdAt ==
  ASSUME NEW m, NEW batch, Filled(m, batch), NEW states,
         NEW i \in DOMAIN batch, NEW k \in Int,
         Runner!CuNumTokens(m, batch, i - 1) < k,
         k <= Runner!CuNumTokens(m, batch, i)
  PROVE  /\ k \in 1..Runner!TotalTokens(m, batch)
         /\ Runner!CpuIds(m, states, batch)[k] =
              CpuId(states, batch[i], m.computed[batch[i]]
                + (k - Runner!CuNumTokens(m, batch, i - 1) - 1))
<1>1. PICK n \in Nat : n = Len(batch) /\ DOMAIN batch = 1..n
  BY Layout
<1>2. i \in 1..n /\ i \in 0..n /\ i - 1 \in 0..n
  BY <1>1
<1>3. PICK lo, hi, t \in Nat :
        /\ lo = Runner!CuNumTokens(m, batch, i - 1)
        /\ hi = Runner!CuNumTokens(m, batch, i)
        /\ t = Runner!TotalTokens(m, batch) /\ hi <= t
  <2>1. /\ Runner!CuNumTokens(m, batch, i - 1) \in Nat
        /\ Runner!CuNumTokens(m, batch, i) \in Nat
        /\ Runner!CuNumTokens(m, batch, i) <= Runner!TotalTokens(m, batch)
    BY <1>1, <1>2, Layout
  <2>2. Runner!TotalTokens(m, batch) \in Nat
    <3>1. n \in 0..n
      OBVIOUS
    <3> QED BY <1>1, <3>1, Layout DEF Runner!TotalTokens
  <2> QED BY <2>1, <2>2
<1>4. k \in 1..t
  BY <1>3
<1>5. ASSUME NEW j \in 1..n, Runner!CuNumTokens(m, batch, j - 1) < k,
             k <= Runner!CuNumTokens(m, batch, j)
      PROVE  j = i
  <2>1. j \in 0..n /\ j - 1 \in 0..n
    OBVIOUS
  <2>2. PICK a, b \in Nat :
          /\ a = Runner!CuNumTokens(m, batch, j - 1)
          /\ b = Runner!CuNumTokens(m, batch, j)
    BY <1>1, <2>1, Layout
  <2>3. i < j => hi <= a
    BY <1>1, <1>2, <1>3, <2>2, Layout
  <2>4. j < i => b <= lo
    BY <1>1, <1>2, <1>3, <2>2, Layout
  <2>5. ~(i < j) /\ ~(j < i)
    BY <1>3, <1>5, <2>2, <2>3, <2>4
  <2> QED BY <1>2, <2>5
<1>6. (CHOOSE j \in DOMAIN batch : /\ Runner!CuNumTokens(m, batch, j - 1) < k
                                   /\ k <= Runner!CuNumTokens(m, batch, j)) = i
  BY <1>1, <1>5
<1>7. Runner!CpuIds(m, states, batch)[k] =
        CpuId(states, batch[i], m.computed[batch[i]]
                + (k - Runner!CuNumTokens(m, batch, i - 1) - 1))
  BY <1>3, <1>4, <1>6 DEF Runner!CpuIds, CpuId
<1> QED BY <1>3, <1>4, <1>7

\* Rows from the last batch that are decodes.
Decodes(m, batch) ==
  \A i \in Runner!Common(m, batch) :
    /\ m.spec[batch[i]] \in Nat
    /\ m.n[batch[i]] = m.spec[batch[i]] + 1

\* A row from elsewhere makes the CPU copy all ids.
LEMMA CpuBase ==
  ASSUME NEW m, NEW batch, Filled(m, batch), Decodes(m, batch), NEW states,
         NEW x \in DOMAIN batch, x \notin Runner!Common(m, batch)
  PROVE  Runner!BaseIds(m, states, batch) = Runner!CpuIds(m, states, batch)
<1>1. PICK n \in Nat : \E f \in [1..n -> Nat \ {0}] :
        /\ n = Len(batch) /\ DOMAIN batch = 1..n
        /\ \A i \in 1..n : f[i] = m.n[batch[i]]
        /\ \A i \in 0..n : Runner!CuNumTokens(m, batch, i) = Upto(f, i)
        /\ Runner!TotalTokens(m, batch) = Upto(f, n)
        /\ Runner!TotalTokens(m, batch) = Total(f)
  BY CuIsUpto
<1>2. PICK f \in [1..n -> Nat \ {0}] :
        /\ n = Len(batch) /\ DOMAIN batch = 1..n
        /\ \A i \in 1..n : f[i] = m.n[batch[i]]
        /\ Runner!TotalTokens(m, batch) = Total(f)
  BY <1>1
<1>3. PICK C \in SUBSET (1..n) : C = Runner!Common(m, batch)
  BY <1>2 DEF Runner!Common
<1>4. PICK g \in [C -> Nat] : g = [i \in C |-> m.spec[batch[i]]]
  BY <1>3 DEF Decodes
<1>5. PICK D : D = 1..n /\ IsFiniteSet(D)
  BY FS_Interval
<1>6. /\ f \in [D -> Nat] /\ C \in SUBSET D /\ x \in D \ C /\ f[x] > 0
      /\ \A i \in C : f[i] = g[i] + 1
  BY <1>2, <1>3, <1>4, <1>5 DEF Decodes
<1>7. Cardinality(C) < Total(f) - Total(g)
  BY <1>5, <1>6, SumExcess
<1>8. Runner!Cardinality(Runner!Common(m, batch)) <
        Runner!TotalTokens(m, batch)
          - Runner!Total([i \in Runner!Common(m, batch) |-> m.spec[batch[i]]])
  BY <1>2, <1>3, <1>4, <1>7, SameTotal, SameCardinality
<1> QED BY <1>8 DEF Runner!BaseIds

\* Which token a flat index holds, in a row of the last batch and in another.
LEMMA InputIdAt ==
  ASSUME NEW m, NEW batch, Filled(m, batch), Decodes(m, batch), NEW states,
         Runner!Common(m, batch) # {} => sampled # <<>> /\ drafts # <<>>,
         NEW i \in DOMAIN batch, NEW k \in Int, NEW lo \in Int,
         lo = Runner!CuNumTokens(m, batch, i - 1), lo < k,
         k <= Runner!CuNumTokens(m, batch, i)
  PROVE  Runner!InputIds(m, states, batch)[k] =
           IF i \notin Runner!Common(m, batch)
           THEN CpuId(states, batch[i], m.computed[batch[i]] + (k - lo - 1))
           ELSE IF k = lo + 1
           THEN sampled.next[Runner!PrevPosition(m, batch, i)]
           ELSE drafts[Runner!PrevPosition(m, batch, i)][k - lo - 1]
<1> DEFINE Cu(j) == Runner!CuNumTokens(m, batch, j)
           C == Runner!Common(m, batch)
           P(j) == Runner!PrevPosition(m, batch, j)
<1>1. PICK n \in Nat : n = Len(batch) /\ DOMAIN batch = 1..n
  BY Layout
<1>2. /\ k \in 1..Runner!TotalTokens(m, batch)
      /\ Runner!CpuIds(m, states, batch)[k] =
           CpuId(states, batch[i], m.computed[batch[i]] + (k - lo - 1))
  BY CpuIdAt
<1>3. C \in SUBSET (1..n)
  BY <1>1 DEF Runner!Common
<1>4. CASE sampled = <<>> \/ C = {}
  <2>1. Runner!InputIds(m, states, batch) = Runner!CpuIds(m, states, batch)
    BY <1>4 DEF Runner!InputIds, Runner!None
  <2>2. i \notin C
    BY <1>4
  <2> QED BY <1>2, <2>1, <2>2
<1>5. CASE sampled # <<>> /\ C # {} /\ Runner!SliceSuffices(m, batch)
  <2>1. Runner!InputIds(m, states, batch)[k] =
          IF k <= Runner!Cardinality(C) THEN sampled.next[k]
          ELSE Runner!BaseIds(m, states, batch)[k]
    BY <1>2, <1>5 DEF Runner!InputIds, Runner!None
  <2>2. PICK f \in [1..n -> Nat \ {0}] :
          \A j \in 0..n : Cu(j) = Upto(f, j)
    BY <1>1, CuIsUpto
  <2>3. \A j \in C : Cu(j) = P(j) /\ Cu(j) <= Cardinality(C)
    BY <1>5, SameCardinality DEF Runner!SliceSuffices
  <2>4. \A j \in C : Upto(f, j) <= Cardinality(C)
    <3>1. \A j \in C : j \in 0..n
      BY <1>3
    <3> QED BY <2>2, <2>3, <3>1
  <2>5. PICK c \in 0..n :
          /\ c = Cardinality(C)
          /\ \A j \in 1..n : j \in C <=> j <= c
          /\ \A j \in 0..c : Upto(f, j) = j
    BY ONLY <1>3, <2>2, <2>4, n \in Nat, UptoFirst
  <2>6. i \in 1..n /\ i \in 0..n /\ i - 1 \in 0..n
    BY <1>1
  <2>7. CASE i \in C
    <3>1. i <= c /\ i \in 0..c /\ i - 1 \in 0..c
      BY <2>5, <2>6, <2>7
    <3>2. Cu(i) = i /\ lo = i - 1
      BY <2>2, <2>5, <2>6, <3>1
    <3>3. k = i /\ k = lo + 1
      BY <2>6, <3>2
    <3>4. P(i) = i
      BY <2>3, <2>7, <3>2
    <3> QED BY <2>1, <2>5, <2>7, <3>1, <3>3, <3>4, SameCardinality
  <2>8. CASE i \notin C
    <3>1. c <= i - 1
      BY <2>5, <2>6, <2>8
    <3>2. c <= lo
      <4>1. i - 1 <= Cu(i - 1)
        BY <1>1, <2>6, Layout
      <4> QED BY <2>6, <3>1, <4>1
    <3>3. ~(k <= Runner!Cardinality(C))
      <4>1. ~(k <= c)
        BY <3>2
      <4> QED BY <2>5, <4>1, SameCardinality
    <3>4. Runner!BaseIds(m, states, batch) = Runner!CpuIds(m, states, batch)
      BY <2>8, CpuBase
    <3> QED BY <1>2, <2>1, <2>8, <3>3, <3>4
  <2> QED BY <2>7, <2>8
<1>6. CASE sampled # <<>> /\ C # {} /\ ~Runner!SliceSuffices(m, batch)
  <2> DEFINE hit == {j \in C : Runner!SampleIndex(m, batch, j) <= k /\ k <= Cu(j)}
  <2>1. Runner!InputIds(m, states, batch) = Runner!Scattered(m, states, batch)
    BY <1>6 DEF Runner!InputIds, Runner!None
  <2>2. ASSUME NEW j \in C
        PROVE  /\ Runner!SampleIndex(m, batch, j) = Cu(j - 1) + 1
               /\ Cu(j - 1) \in Nat /\ Cu(j) \in Nat
    <3>1. j \in 1..n /\ j \in 0..n /\ j - 1 \in 0..n
      BY <1>3
    <3>2. Cu(j - 1) \in Nat /\ Cu(j) \in Nat /\ Cu(j) = Cu(j - 1) + m.n[batch[j]]
      BY <1>1, <3>1, Layout
    <3>3. m.spec[batch[j]] \in Nat /\ m.n[batch[j]] = m.spec[batch[j]] + 1
      BY <2>2 DEF Decodes
    <3>4. PICK a, b, s \in Nat :
            a = Cu(j - 1) /\ b = Cu(j) /\ s = m.spec[batch[j]]
      BY <3>2, <3>3
    <3>5. b = a + (s + 1) /\ b - s = a + 1
      BY <3>2, <3>3, <3>4
    <3> QED BY <3>2, <3>4, <3>5 DEF Runner!SampleIndex
  <2>3. ASSUME NEW j \in hit
        PROVE  j = i
    <3>1. j \in C /\ j \in 1..n /\ i \in 1..n /\ j \in 0..n /\ i \in 0..n
      BY <1>1, <1>3
    <3>2. PICK a, b, e \in Nat :
            a = Cu(j - 1) /\ b = Cu(j) /\ e = Cu(i) /\ a + 1 <= k /\ k <= b
      BY <1>1, <2>2, <3>1, Layout
    <3>3. i < j => e <= a
      BY <1>1, <3>1, <3>2, Layout
    <3>4. j < i => b <= lo
      BY <1>1, <3>1, <3>2, Layout
    <3>5. ~(i < j) /\ ~(j < i)
      BY <3>2, <3>3, <3>4
    <3> QED BY <3>1, <3>5
  <2>4. CASE i \in C
    <3>1. hit = {i}
      <4>1. lo + 1 <= k
        OBVIOUS
      <4>2. i \in hit
        BY <2>2, <2>4, <4>1
      <4> QED BY <2>3, <4>2
    <3>2. (CHOOSE j \in hit : TRUE) = i
      BY <3>1
    <3>3. Runner!SampleIndex(m, batch, i) = lo + 1
      BY <2>2, <2>4
    <3>4. k - (lo + 1) = k - lo - 1 /\ (k - (lo + 1) = 0 <=> k = lo + 1)
      OBVIOUS
    <3>5. drafts # <<>>
      BY <1>6
    <3> HIDE DEF hit
    <3>6. Runner!Scattered(m, states, batch)[k] =
            IF hit = {} THEN Runner!BaseIds(m, states, batch)[k]
            ELSE LET q == CHOOSE j \in hit : TRUE
                     p == P(q)
                     d == k - Runner!SampleIndex(m, batch, q)
                 IN  IF d = 0 THEN sampled.next[p]
                     ELSE IF drafts = <<>> THEN Runner!BaseIds(m, states, batch)[k]
                     ELSE drafts[p][d]
      BY <1>2 DEF Runner!Scattered, Runner!None, hit
    <3>7. Runner!Scattered(m, states, batch)[k] =
            IF k = lo + 1 THEN sampled.next[P(i)] ELSE drafts[P(i)][k - lo - 1]
      BY <3>1, <3>2, <3>3, <3>4, <3>5, <3>6
    <3> QED BY <2>1, <2>4, <3>7
  <2>5. CASE i \notin C
    <3>1. hit = {}
      BY <2>3, <2>5
    <3> HIDE DEF hit
    <3>2. Runner!Scattered(m, states, batch)[k] =
            Runner!BaseIds(m, states, batch)[k]
      BY <1>2, <3>1 DEF Runner!Scattered, hit
    <3>3. Runner!BaseIds(m, states, batch) = Runner!CpuIds(m, states, batch)
      BY <2>5, CpuBase
    <3> QED BY <1>2, <2>1, <2>5, <3>2, <3>3
  <2> QED BY <2>4, <2>5
<1> QED BY <1>4, <1>5, <1>6
=============================================================================
