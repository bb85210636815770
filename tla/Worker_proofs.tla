---------------------------- MODULE Worker_proofs ---------------------------
(***************************************************************************)
(* What the worker promises, for any requests, batch, window and positions,*)
(* any number of steps, layers, pages and blocks: the slots and rings of the*)
(* draft's own cache, the copies between the streams of an asynchronous    *)
(* worker, the layout of the KV caches, the states captured for the draft, *)
(* the masks of structured requests, and the graphs that are replayed.     *)
(***************************************************************************)
EXTENDS DraftSlots, CopyStreams, KvCacheLayout, TargetCapture, GrammarDecode, GraphReplay,
        DataLemmas

-----------------------------------------------------------------------------
(* The slots of the draft.                                                 *)

\* A batch names requests that run, of which there are no more than slots.
BatchRuns ==
  /\ Cardinality(active) <= MaxBatch
  /\ phase # "idle" => \A i \in 1..Len(batch) : batch[i] \in active

\* Between _row_to_slot's first and last line no absent request has a slot.
AbsentReclaimed == phase = "assign" => Held \subseteq active

IInv == TypeOK /\ SlotsShared /\ BatchRuns /\ AbsentReclaimed

-----------------------------------------------------------------------------
(* Lemmas.                                                                 *)

LEMMA SubsetCardinality ==
  ASSUME NEW S \in SUBSET Requests
  PROVE  IsFiniteSet(S) /\ Cardinality(S) \in Nat
<1>1. IsFiniteSet(Requests)
  BY DraftSlotsAssumption
<1> QED BY <1>1, FS_Subset, FS_CardinalityType

LEMMA SlotsCount == IsFiniteSet(Slots) /\ Cardinality(Slots) = MaxBatch
<1>1. MaxBatch \in Nat \ {0}
  BY DraftSlotsAssumption
<1>2. 0 \in Int /\ MaxBatch - 1 \in Int
  BY <1>1
<1>3. IsFiniteSet(0..(MaxBatch - 1))
      /\ Cardinality(0..(MaxBatch - 1)) =
           IF 0 > MaxBatch - 1 THEN 0 ELSE (MaxBatch - 1) - 0 + 1
  BY <1>2, FS_Interval
<1> QED BY <1>1, <1>3 DEF Slots

\* No slot is the mark of an absent key.
LEMMA NoSlotIsNone == NoSlot \notin Slots
BY DraftSlotsAssumption DEF NoSlot, Slots

\* A map that shares out the slots leaves one over while it holds fewer
\* requests than there are slots.
LEMMA FreeSlotLeft ==
  ASSUME TypeOK, SlotsShared, Cardinality(Held) < MaxBatch
  PROVE  freeSlots # {}
<1> SUFFICES ASSUME freeSlots = {} PROVE FALSE
  OBVIOUS
<1>1. Held \in SUBSET Requests
  BY DEF Held
<1>2. IsFiniteSet(Held) /\ Cardinality(Held) \in Nat
  BY <1>1, SubsetCardinality
<1> DEFINE f == [r \in Held |-> slotOf[r]]
<1>3. Slots \subseteq {slotOf[r] : r \in Held}
  BY DEF SlotsShared
<1>4. \A r \in Held : slotOf[r] \in Slots
  BY DEF Held, TypeOK
<1>5. f \in Surjection(Held, Slots)
  BY <1>3, <1>4 DEF Surjection
<1> HIDE DEF f
<1>6. Cardinality(Slots) <= Cardinality(Held)
  BY <1>2, <1>5, FS_Surjection
<1>7. MaxBatch <= Cardinality(Held)
  BY <1>6, SlotsCount
<1> QED BY <1>2, <1>7, DraftSlotsAssumption

\* The row that wants a slot is one more request than the map holds.
LEMMA RowFindsSlot ==
  ASSUME IInv PROVE SlotForEveryRow
<1> SUFFICES ASSUME phase = "assign", row < Len(batch),
                    slotOf[batch[row + 1]] = NoSlot
             PROVE  freeSlots # {}
  BY DEF SlotForEveryRow
<1>1. row \in Nat /\ Len(batch) \in Nat
  BY DEF IInv, TypeOK
<1>2. row + 1 \in 1..Len(batch)
  BY <1>1
<1> DEFINE q == batch[row + 1]
<1>3. q \in active
  BY <1>2 DEF IInv, BatchRuns
<1>4. q \notin Held
  BY DEF Held
<1>5. Held \union {q} \subseteq active
  BY <1>3 DEF IInv, AbsentReclaimed
<1>6. active \in SUBSET Requests /\ Held \in SUBSET Requests
  BY DEF IInv, TypeOK, Held
<1>7. IsFiniteSet(active) /\ Cardinality(active) \in Nat
      /\ IsFiniteSet(Held) /\ Cardinality(Held) \in Nat
  BY <1>6, SubsetCardinality
<1> HIDE DEF q
<1>8. Cardinality(Held \union {q}) = Cardinality(Held) + 1
  BY <1>4, <1>7, FS_AddElement
<1>9. Cardinality(Held \union {q}) <= Cardinality(active)
  BY <1>5, <1>7, FS_Subset
<1>10. Cardinality(active) <= MaxBatch /\ MaxBatch \in Nat
  BY DraftSlotsAssumption DEF IInv, BatchRuns
<1>11. Cardinality(Held) < MaxBatch
  BY <1>7, <1>8, <1>9, <1>10
<1> QED BY <1>11, FreeSlotLeft DEF IInv

\* Reclaiming the slots of the requests outside S keeps the slots shared out.
LEMMA ReclaimShares ==
  ASSUME TypeOK, SlotsShared, NEW S \in SUBSET Requests, Reclaim(S)
  PROVE  /\ slotOf' \in [Requests -> Slots \union {NoSlot}]
         /\ freeSlots' \in SUBSET Slots
         /\ SlotsShared'
         /\ Held' \subseteq S
<1>1. /\ slotOf \in [Requests -> Slots \union {NoSlot}]
      /\ freeSlots \in SUBSET Slots
  BY DEF TypeOK
<1>2. slotOf' \in [Requests -> Slots \union {NoSlot}]
  BY <1>1 DEF Reclaim
<1>3. Held' = Held \cap S
  BY <1>1 DEF Reclaim, Held
<1>4. \A r \in Held' : slotOf'[r] = slotOf[r]
  BY <1>1, <1>3 DEF Reclaim, Held
<1>5. freeSlots' \in SUBSET Slots
  BY <1>1 DEF Reclaim
<1>6. \A q, r \in Held' : q # r => slotOf'[q] # slotOf'[r]
  BY <1>3, <1>4 DEF SlotsShared
<1>7. freeSlots' = freeSlots \union {slotOf[r] : r \in Held \ S}
  <2>1. {q \in Requests \ S : slotOf[q] # NoSlot} = Held \ S
    BY DEF Held
  <2> QED BY <2>1 DEF Reclaim
<1>8. freeSlots' = Slots \ {slotOf[r] : r \in Held \cap S}
  <2>1. freeSlots = Slots \ {slotOf[r] : r \in Held}
    BY DEF SlotsShared
  <2>2. \A r \in Held : slotOf[r] \in Slots
    BY <1>1 DEF Held
  <2>3. \A q \in Held \ S, r \in Held \cap S : slotOf[q] # slotOf[r]
    BY DEF SlotsShared
  <2> QED BY <1>7, <2>1, <2>2, <2>3
<1>9. {slotOf'[r] : r \in Held'} = {slotOf[r] : r \in Held \cap S}
  BY <1>3, <1>4
<1> QED BY <1>2, <1>3, <1>5, <1>6, <1>8, <1>9 DEF SlotsShared

-----------------------------------------------------------------------------
(* The invariant holds initially and every step keeps it.                  *)

LEMMA InitIInv == Init => IInv
<1> SUFFICES ASSUME Init PROVE IInv
  OBVIOUS
<1>1. TypeOK
  <2>1. batch \in Seq(Requests)
    BY DEF Init
  <2>2. ring \in [Slots -> [0..(Window - 1) ->
                    {Unwritten} \union (Requests \X Nat)]]
    BY DEF Init
  <2> QED BY <2>1, <2>2 DEF Init, TypeOK
<1>2. Held = {}
  BY DEF Init, Held
<1>3. SlotsShared
  BY <1>2 DEF Init, SlotsShared
<1>4. Cardinality(active) <= MaxBatch
  BY FS_EmptySet, DraftSlotsAssumption DEF Init
<1> QED BY <1>1, <1>2, <1>3, <1>4 DEF Init, IInv, BatchRuns, AbsentReclaimed

\* Steps between two calls of the proposer, which leave slots alone.
LEMMA JoinIInv ==
  ASSUME IInv, NEW r \in Requests, Join(r) PROVE IInv'
<1>1. PICK hit \in Hits : known' = [known EXCEPT ![r] = hit]
  BY DEF Join
<1>2. hit \in Nat
  BY DraftSlotsAssumption
<1>3. known' \in [Requests -> Nat]
  BY <1>1, <1>2 DEF IInv, TypeOK
<1>4. TypeOK'
  BY <1>3 DEF IInv, TypeOK, Join
<1>5. Held' = Held
  BY DEF Join, Held
<1>6. SlotsShared'
  BY <1>5 DEF IInv, SlotsShared, Join
<1>7. Cardinality(active') <= MaxBatch
  <2>1. active \in SUBSET Requests
    BY DEF IInv, TypeOK
  <2>2. IsFiniteSet(active) /\ Cardinality(active) \in Nat
    BY <2>1, SubsetCardinality
  <2>3. Cardinality(active \union {r}) = Cardinality(active) + 1
    BY <2>2, FS_AddElement DEF Join
  <2> QED BY <2>2, <2>3, DraftSlotsAssumption DEF Join
<1> QED BY <1>4, <1>6, <1>7 DEF IInv, BatchRuns, AbsentReclaimed, Join

LEMMA LeaveIInv ==
  ASSUME IInv, NEW r \in Requests, Leave(r) PROVE IInv'
<1>1. TypeOK'
  BY DEF IInv, TypeOK, Leave
<1>2. Held' = Held
  BY DEF Leave, Held
<1>3. SlotsShared'
  BY <1>2 DEF IInv, SlotsShared, Leave
<1>4. Cardinality(active') <= MaxBatch
  <2>1. active \in SUBSET Requests
    BY DEF IInv, TypeOK
  <2>2. IsFiniteSet(active) /\ Cardinality(active) \in Nat
        /\ Cardinality(active \ {r}) \in Nat
    BY <2>1, SubsetCardinality
  <2>3. Cardinality(active \ {r}) <= Cardinality(active)
    BY <2>2, FS_Subset
  <2>4. Cardinality(active) <= MaxBatch
    BY DEF IInv, BatchRuns
  <2> QED BY <2>2, <2>3, <2>4, DraftSlotsAssumption DEF Leave
<1> QED BY <1>1, <1>3, <1>4 DEF IInv, BatchRuns, AbsentReclaimed, Leave

\* A run of the target model, with the reclaiming that starts propose().
LEMMA StepIInv ==
  ASSUME IInv, Step PROVE IInv'
<1>1. PICK S \in Batches :
        \E tokens \in [S -> 1..MaxRows] : \E k \in [S -> 1..MaxRows] :
          /\ known' = [r \in Requests |->
                         IF r \in S THEN known[r] + k[r] ELSE known[r]]
          /\ \/ /\ batch' \in RowOrders(S)
                /\ kept' = [r \in Requests |-> IF r \in S THEN k[r] ELSE 0]
                /\ phase' = "assign"
                /\ Reclaim(S)
             \/ UNCHANGED <<batch, kept, phase, slotOf, freeSlots>>
  BY DEF Step
<1>0. PICK k \in [S -> 1..MaxRows] :
        /\ known' = [r \in Requests |->
                       IF r \in S THEN known[r] + k[r] ELSE known[r]]
        /\ \/ /\ batch' \in RowOrders(S)
              /\ kept' = [r \in Requests |-> IF r \in S THEN k[r] ELSE 0]
              /\ phase' = "assign"
              /\ Reclaim(S)
           \/ UNCHANGED <<batch, kept, phase, slotOf, freeSlots>>
  BY <1>1
<1>2. S \subseteq active /\ active \in SUBSET Requests
  BY DEF Batches, IInv, TypeOK
<1>3. UNCHANGED <<active, ring, prefilled, row>> /\ phase = "idle"
  BY DEF Step
<1>4. \A r \in S : k[r] \in Nat
  BY DraftSlotsAssumption
<1>5. known' \in [Requests -> Nat]
  BY <1>0, <1>2, <1>4 DEF IInv, TypeOK
<1>6. CASE UNCHANGED <<batch, kept, phase, slotOf, freeSlots>>
  <2>1. TypeOK'
    BY <1>3, <1>5, <1>6 DEF IInv, TypeOK
  <2>2. Held' = Held
    BY <1>6 DEF Held
  <2> QED BY <1>3, <1>6, <2>1, <2>2
          DEF IInv, SlotsShared, BatchRuns, AbsentReclaimed
<1>7. CASE /\ batch' \in RowOrders(S)
           /\ kept' = [r \in Requests |-> IF r \in S THEN k[r] ELSE 0]
           /\ phase' = "assign"
           /\ Reclaim(S)
  <2>1. S \in SUBSET Requests
    BY <1>2
  <2>2. Cardinality(S) \in Nat
    BY <2>1, SubsetCardinality
  <2>3. batch' \in [1..Cardinality(S) -> S]
    BY <1>7 DEF RowOrders
  <2>4. batch' \in Seq(Requests) /\ Len(batch') = Cardinality(S)
    BY <2>1, <2>2, <2>3
  <2>5. kept' \in [Requests -> Nat]
    BY <1>4, <1>7, <2>1
  <2>6. /\ slotOf' \in [Requests -> Slots \union {NoSlot}]
        /\ freeSlots' \in SUBSET Slots
        /\ SlotsShared'
        /\ Held' \subseteq S
    BY <1>7, <2>1, ReclaimShares DEF IInv
  <2>7. TypeOK'
    BY <1>3, <1>5, <1>7, <2>4, <2>5, <2>6 DEF IInv, TypeOK
  <2>8. BatchRuns'
    BY <1>2, <1>3, <2>3, <2>4 DEF IInv, BatchRuns
  <2>9. AbsentReclaimed'
    BY <1>2, <1>3, <2>6 DEF AbsentReclaimed
  <2> QED BY <2>6, <2>7, <2>8, <2>9 DEF IInv
<1> QED BY <1>0, <1>6, <1>7

\* A row that has no slot yet takes a free one.
LEMMA AssignSlotIInv ==
  ASSUME IInv, AssignSlot PROVE IInv'
<1>1. row \in Nat /\ Len(batch) \in Nat
  BY DEF IInv, TypeOK
<1>2. row + 1 \in 1..Len(batch)
  BY <1>1 DEF AssignSlot
<1>3. batch[row + 1] \in active /\ active \subseteq Requests
  BY <1>2 DEF IInv, TypeOK, BatchRuns, AssignSlot
<1>4. PICK r \in active : r = batch[row + 1]
  BY <1>3
<1>5. r \in Requests
  BY <1>3
<1>6. UNCHANGED <<known, active, ring, prefilled, phase, batch, kept>>
      /\ row' = row + 1 /\ phase = "assign"
  BY DEF AssignSlot
<1>7. CASE UNCHANGED <<slotOf, freeSlots>>
  <2>1. Held' = Held
    BY <1>7 DEF Held
  <2>2. TypeOK'
    BY <1>1, <1>6, <1>7 DEF IInv, TypeOK
  <2> QED BY <1>6, <1>7, <2>1, <2>2
          DEF IInv, SlotsShared, BatchRuns, AbsentReclaimed
<1>8. CASE /\ slotOf[r] = NoSlot
           /\ \E s \in freeSlots : /\ slotOf' = [slotOf EXCEPT ![r] = s]
                                   /\ freeSlots' = freeSlots \ {s}
  <2>1. PICK s \in freeSlots : /\ slotOf' = [slotOf EXCEPT ![r] = s]
                               /\ freeSlots' = freeSlots \ {s}
    BY <1>8
  <2>2. /\ slotOf \in [Requests -> Slots \union {NoSlot}]
        /\ freeSlots \subseteq Slots
    BY DEF IInv, TypeOK
  <2>3. s \in Slots /\ s # NoSlot
    BY <2>2, NoSlotIsNone
  <2>4. /\ slotOf' \in [Requests -> Slots \union {NoSlot}]
        /\ freeSlots' \in SUBSET Slots
    BY <2>1, <2>2
  <2>5. TypeOK'
    BY <1>1, <1>6, <2>4 DEF IInv, TypeOK
  <2>6. Held' = Held \union {r} /\ r \notin Held
    BY <1>5, <1>8, <2>1, <2>2, <2>3 DEF Held
  <2>7. slotOf'[r] = s /\ \A q \in Held : slotOf'[q] = slotOf[q]
    BY <1>5, <2>1, <2>2, <2>6 DEF Held
  <2>8. \A q \in Held : slotOf[q] # s
    BY DEF IInv, SlotsShared
  <2>9. SlotsShared'
    <3>1. \A p, q \in Held' : p # q => slotOf'[p] # slotOf'[q]
      BY <2>6, <2>7, <2>8 DEF IInv, SlotsShared
    <3>2. {slotOf'[q] : q \in Held'} = {slotOf[q] : q \in Held} \union {s}
      BY <2>6, <2>7
    <3>3. freeSlots = Slots \ {slotOf[q] : q \in Held}
      BY DEF IInv, SlotsShared
    <3>4. freeSlots' = Slots \ {slotOf'[q] : q \in Held'}
      BY <2>1, <3>2, <3>3
    <3> QED BY <3>1, <3>4 DEF SlotsShared
  <2>10. BatchRuns' /\ AbsentReclaimed'
    BY <1>6, <2>6 DEF IInv, BatchRuns, AbsentReclaimed
  <2> QED BY <2>5, <2>9, <2>10 DEF IInv
<1> QED BY <1>4, <1>7, <1>8 DEF AssignSlot

\* Storing and drafting leave the slots alone.
LEMMA StoreMainKvIInv ==
  ASSUME IInv, StoreMainKv PROVE IInv'
<1>1. \A s \in Slots, i \in 0..(Window - 1) :
        Written(s, i) \subseteq Requests \X Nat
  <2>1. Range(batch) \subseteq Requests
    BY DEF IInv, TypeOK, Range
  <2>2. 0..MaxPos \subseteq Nat
    OBVIOUS
  <2> QED BY <2>1, <2>2 DEF Written
<1>2. \A s \in Slots, i \in 0..(Window - 1) :
        Written(s, i) # {} =>
          (CHOOSE e \in Written(s, i) : TRUE) \in Requests \X Nat
  BY <1>1
<1>3. \A s \in Slots, i \in 0..(Window - 1) :
        ring[s][i] \in {Unwritten} \union (Requests \X Nat)
  <2>1. ring \in [Slots -> [0..(Window - 1) ->
                   {Unwritten} \union (Requests \X Nat)]]
    BY DEF IInv, TypeOK
  <2> DEFINE E == {Unwritten} \union (Requests \X Nat)
  <2> HIDE DEF E
  <2>2. ring \in [Slots -> [0..(Window - 1) -> E]]
    BY <2>1 DEF E
  <2>3. \A s \in Slots, i \in 0..(Window - 1) : ring[s][i] \in E
    BY <2>2
  <2> QED BY <2>3 DEF E
<1>4. ring' = [s \in Slots |-> [i \in 0..(Window - 1) |->
                 IF Written(s, i) = {} THEN ring[s][i]
                 ELSE CHOOSE e \in Written(s, i) : TRUE]]
  BY DEF StoreMainKv
<1>5. ring' \in [Slots -> [0..(Window - 1) ->
                   {Unwritten} \union (Requests \X Nat)]]
  BY <1>2, <1>3, <1>4
<1>6. /\ batch' \in Seq(Requests)
      /\ row' \in Nat
      /\ kept' \in [Requests -> Nat]
      /\ phase' \in {"idle", "draft"}
      /\ phase' # "idle" => batch' = batch
  <2>1. \/ phase' = "draft" /\ UNCHANGED <<batch, row, kept>>
        \/ phase' = "idle" /\ EndOfCall
    BY Zenon DEF StoreMainKv
  <2>2. CASE phase' = "draft" /\ UNCHANGED <<batch, row, kept>>
    BY <2>2 DEF IInv, TypeOK
  <2>3. CASE phase' = "idle" /\ EndOfCall
    BY <2>3 DEF EndOfCall
  <2> QED BY <2>1, <2>2, <2>3
<1>7. UNCHANGED <<known, active, slotOf, freeSlots>> /\ prefilled' = TRUE
      /\ phase = "assign"
  BY DEF StoreMainKv
<1>8. TypeOK'
  BY <1>5, <1>6, <1>7 DEF IInv, TypeOK
<1>9. Held' = Held
  BY <1>7 DEF Held
<1> QED BY <1>6, <1>7, <1>8, <1>9
        DEF IInv, SlotsShared, BatchRuns, AbsentReclaimed

LEMMA EndProposeIInv ==
  ASSUME IInv, EndPropose PROVE IInv'
<1>1. TypeOK'
  BY DEF EndPropose, EndOfCall, IInv, TypeOK
<1>2. Held' = Held
  BY DEF EndPropose, Held
<1> QED BY <1>1, <1>2
        DEF EndPropose, IInv, SlotsShared, BatchRuns, AbsentReclaimed

LEMMA StutterIInv ==
  ASSUME IInv, UNCHANGED vars PROVE IInv'
<1>1. Held' = Held
  BY DEF vars, Held
<1> QED BY <1>1 DEF vars, IInv, TypeOK, SlotsShared, BatchRuns, AbsentReclaimed

(***************************************************************************)
(* The strengthened invariant holds in every reachable state.              *)
(***************************************************************************)
THEOREM IInvHolds == Spec => []IInv
<1>1. Init => IInv
  BY InitIInv
<1>2. IInv /\ [Next]_vars => IInv'
  <2> SUFFICES ASSUME IInv, [Next]_vars PROVE IInv'
    OBVIOUS
  <2>1. CASE Step
    BY <2>1, StepIInv
  <2>2. CASE AssignSlot
    BY <2>2, AssignSlotIInv
  <2>3. CASE StoreMainKv
    BY <2>3, StoreMainKvIInv
  <2>4. CASE EndPropose
    BY <2>4, EndProposeIInv
  <2>5. ASSUME NEW r \in Requests, Join(r) PROVE IInv'
    BY <2>5, JoinIInv
  <2>6. ASSUME NEW r \in Requests, Leave(r) PROVE IInv'
    BY <2>6, LeaveIInv
  <2>7. CASE UNCHANGED vars
    BY <2>7, StutterIInv
  <2> QED BY <2>1, <2>2, <2>3, <2>4, <2>5, <2>6, <2>7 DEF Next
<1> QED BY <1>1, <1>2, PTL DEF Spec

(***************************************************************************)
(* The slot map and the free list of DSparkProposer share out the slots,   *)
(* for any number of requests, slots and positions and any batches.        *)
(***************************************************************************)
THEOREM SlotsAreShared == Spec => []SlotsShared
<1>1. IInv => SlotsShared
  BY DEF IInv
<1> QED BY <1>1, IInvHolds, PTL

(***************************************************************************)
(* free_slots.pop(0) in _row_to_slot never raises IndexError: a row that   *)
(* has no slot finds a free one.                                           *)
(***************************************************************************)
THEOREM EveryRowFindsSlot == Spec => []SlotForEveryRow
<1>1. IInv => SlotForEveryRow
  BY RowFindsSlot
<1> QED BY <1>1, IInvHolds, PTL

\* The variables of DraftSlots keep their types.
THEOREM TypeCorrect == Spec => []TypeOK
<1>1. IInv => TypeOK
  BY DEF IInv
<1> QED BY <1>1, IInvHolds, PTL

-----------------------------------------------------------------------------
(* The rings: the draft reads the KV of its own request.                   *)

\* Every running request is in every batch, the drafter is within its context
\* at every position, and a prefix hit leaves a window of the prompt to
\* compute, as in the run "worker".
RingsAssumption ==
  /\ PartialBatches = FALSE
  /\ MaxPos + NumSpecTokens <= DrafterMaxLen
  /\ \A hit \in Hits : hit + Window <= PromptLen

\* Positions of r the proposer has been given, those of this step not yet
\* stored left out.
Given(r) == IF phase = "assign" THEN known[r] - kept[r] ELSE known[r]

\* The ring of r holds the last window of its positions from `hit' on.
Holds(r, hit) ==
  /\ slotOf[r] # NoSlot
  /\ \A p \in Nat : hit <= p /\ p < Given(r) /\ Given(r) - Window <= p
                    => ring[slotOf[r]][p % Window] = <<r, p>>

RingsHeld ==
  \A r \in active : \E hit \in Hits :
    hit <= Given(r) /\ (Given(r) = hit \/ Holds(r, hit))

\* The batch is what runs, each row that was assigned has its slot, and each
\* request has kept a row.
BatchComplete ==
  /\ phase = "idle" => row = 0
  /\ phase # "idle" => /\ {batch[i] : i \in 1..Len(batch)} = active
                       /\ \A r \in active : known[r] <= MaxPos /\ kept[r] >= 1
  /\ phase = "assign" => /\ row <= Len(batch)
                         /\ \A i \in 1..row : slotOf[batch[i]] # NoSlot
  /\ phase = "draft" => \A r \in active : slotOf[r] # NoSlot

RingInv == IInv /\ BatchComplete /\ RingsHeld

LEMMA DivMod ==
  ASSUME NEW a \in Nat, NEW w \in Nat \ {0}
  PROVE  /\ a = w * (a \div w) + (a % w)
         /\ a % w \in 0..(w - 1)
         /\ a \div w \in Int
OBVIOUS

LEMMA Multiple ==
  ASSUME NEW q \in Int, NEW w \in Nat \ {0}, q >= 1 PROVE w * q >= w
OBVIOUS

\* Two positions of one window have entries of their own.
LEMMA SameEntry ==
  ASSUME NEW a \in Nat, NEW b \in Nat, NEW w \in Nat \ {0},
         a % w = b % w, a < b + w, b < a + w
  PROVE  a = b
<1>1. PICK x \in Int, y \in Int, m \in Int : a = w * x + m /\ b = w * y + m
  <2>1. /\ a = w * (a \div w) + (a % w) /\ a \div w \in Int
        /\ b = w * (b \div w) + (b % w) /\ b \div w \in Int
        /\ a % w \in Int
    BY DivMod
  <2> QED BY <2>1
<1>2. b - a = w * (y - x) /\ a - b = w * (x - y)
  BY <1>1
<1>3. y - x \in Int /\ x - y \in Int
  OBVIOUS
<1>4. CASE y - x >= 1
  <2>1. w * (y - x) >= w
    BY <1>3, <1>4, Multiple
  <2> QED BY <1>2, <2>1
<1>5. CASE y - x = 0
  BY <1>2, <1>5
<1>6. CASE y - x <= -1
  <2>1. w * (x - y) >= w
    BY <1>3, <1>6, Multiple
  <2> QED BY <1>2, <2>1
<1> QED BY <1>3, <1>4, <1>5, <1>6

LEMMA InitRings == Init => RingInv
<1> SUFFICES ASSUME Init PROVE RingInv
  OBVIOUS
<1>1. BatchComplete
  BY DEF Init, BatchComplete
<1>2. RingsHeld
  BY DEF Init, RingsHeld
<1> QED BY <1>1, <1>2, InitIInv DEF RingInv

\* Requests that neither step nor change their entries keep what they hold.
LEMMA JoinRings ==
  ASSUME RingInv, NEW r \in Requests, Join(r) PROVE RingInv'
<1>1. IInv' /\ IInv
  BY JoinIInv DEF RingInv
<1>2. PICK hit \in Hits : known' = [known EXCEPT ![r] = hit]
  BY DEF Join
<1>3. /\ phase = "idle" /\ r \notin active /\ active' = active \union {r}
      /\ UNCHANGED <<slotOf, freeSlots, ring, prefilled, phase, batch, row, kept>>
  BY DEF Join
<1>4. BatchComplete'
  BY <1>3 DEF RingInv, BatchComplete
<1>5. RingsHeld'
  <2>1. known \in [Requests -> Nat] /\ active \in SUBSET Requests
    BY <1>1 DEF IInv, TypeOK
  <2>2. ASSUME NEW q \in active
        PROVE  \E h \in Hits : h <= Given(q)' /\ (Given(q)' = h \/ Holds(q, h)')
    <3>1. Given(q)' = Given(q)
      BY <1>2, <1>3, <2>1 DEF Given
    <3>2. PICK h \in Hits : h <= Given(q) /\ (Given(q) = h \/ Holds(q, h))
      BY DEF RingInv, RingsHeld
    <3>3. Holds(q, h) => Holds(q, h)'
      BY <1>3, <3>1 DEF Holds
    <3> QED BY <3>1, <3>2, <3>3
  <2>3. Given(r)' = hit
    BY <1>2, <1>3, <2>1 DEF Given
  <2>4. hit \in Nat
    BY DraftSlotsAssumption
  <2>5. hit <= hit
    BY <2>4
  <2> QED BY <1>3, <2>2, <2>3, <2>5 DEF RingsHeld
<1> QED BY <1>1, <1>4, <1>5 DEF RingInv

LEMMA LeaveRings ==
  ASSUME RingInv, NEW r \in Requests, Leave(r) PROVE RingInv'
<1>1. IInv' /\ IInv
  BY LeaveIInv DEF RingInv
<1>2. /\ phase = "idle" /\ active' = active \ {r}
      /\ known' = [known EXCEPT ![r] = 0]
      /\ UNCHANGED <<slotOf, freeSlots, ring, prefilled, phase, batch, row, kept>>
  BY DEF Leave
<1>3. BatchComplete'
  BY <1>2 DEF RingInv, BatchComplete
<1>4. RingsHeld'
  <2>1. known \in [Requests -> Nat] /\ active \in SUBSET Requests
    BY <1>1 DEF IInv, TypeOK
  <2>2. ASSUME NEW q \in active \ {r}
        PROVE  \E h \in Hits : h <= Given(q)' /\ (Given(q)' = h \/ Holds(q, h)')
    <3>1. Given(q)' = Given(q)
      BY <1>2, <2>1 DEF Given
    <3>2. PICK h \in Hits : h <= Given(q) /\ (Given(q) = h \/ Holds(q, h))
      BY DEF RingInv, RingsHeld
    <3>3. Holds(q, h) => Holds(q, h)'
      BY <1>2, <3>1 DEF Holds
    <3> QED BY <3>1, <3>2, <3>3
  <2> QED BY <1>2, <2>2 DEF RingsHeld
<1> QED BY <1>1, <1>3, <1>4 DEF RingInv

\* The step takes every running request into the batch, whose slots stay.
LEMMA StepRings ==
  ASSUME RingsAssumption, RingInv, Step PROVE RingInv'
<1>1. IInv' /\ IInv
  BY StepIInv DEF RingInv
<1>2. /\ known \in [Requests -> Nat] /\ active \in SUBSET Requests
      /\ kept \in [Requests -> Nat]
      /\ slotOf \in [Requests -> Slots \union {NoSlot}]
      /\ phase = "idle" /\ row = 0
      /\ MaxPos \in Nat /\ NumSpecTokens \in Nat /\ DrafterMaxLen \in Nat
      /\ MaxRows \in Nat
  BY <1>1, DraftSlotsAssumption DEF IInv, TypeOK, Step, RingInv, BatchComplete
<1>3. PICK S \in Batches :
        \E tokens \in [S -> 1..MaxRows] : \E k \in [S -> 1..MaxRows] :
          /\ \A r \in S : known[r] + tokens[r] <= MaxPos /\ k[r] \in KeptOf(tokens[r])
          /\ known' = [r \in Requests |-> IF r \in S THEN known[r] + k[r] ELSE known[r]]
          /\ \/ /\ batch' \in RowOrders(S)
                /\ kept' = [r \in Requests |-> IF r \in S THEN k[r] ELSE 0]
                /\ phase' = "assign"
                /\ Reclaim(S)
             \/ \E r \in S : known[r] + tokens[r] + NumSpecTokens > DrafterMaxLen
  BY DEF Step
<1>4. S = active
  BY DEF RingsAssumption, Batches
<1>5. PICK tokens \in [active -> 1..MaxRows], k \in [active -> 1..MaxRows] :
        /\ \A r \in active : known[r] + tokens[r] <= MaxPos
                             /\ k[r] \in KeptOf(tokens[r])
        /\ known' = [r \in Requests |->
                       IF r \in active THEN known[r] + k[r] ELSE known[r]]
        /\ \/ /\ batch' \in RowOrders(active)
              /\ kept' = [r \in Requests |-> IF r \in active THEN k[r] ELSE 0]
              /\ phase' = "assign"
              /\ Reclaim(active)
           \/ \E r \in active :
                known[r] + tokens[r] + NumSpecTokens > DrafterMaxLen
  BY <1>3, <1>4
<1>6. \A r \in active : /\ tokens[r] \in Nat /\ k[r] \in Nat /\ k[r] >= 1
                       /\ k[r] <= tokens[r] /\ known[r] \in Nat
  BY <1>2, <1>5 DEF KeptOf
<1>7. /\ batch' \in RowOrders(active)
      /\ kept' = [r \in Requests |-> IF r \in active THEN k[r] ELSE 0]
      /\ phase' = "assign"
      /\ Reclaim(active)
  <2>1. ASSUME NEW r \in active,
               known[r] + tokens[r] + NumSpecTokens > DrafterMaxLen
        PROVE  FALSE
    <3>1. known[r] + tokens[r] <= MaxPos /\ tokens[r] \in Nat /\ known[r] \in Nat
      BY <1>5, <1>6
    <3>2. MaxPos + NumSpecTokens <= DrafterMaxLen
      BY DEF RingsAssumption
    <3> QED BY <1>2, <2>1, <3>1, <3>2
  <2> QED BY <1>5, <2>1
<1>8. UNCHANGED <<active, ring, prefilled, row>>
  BY DEF Step
<1>9. \A r \in active : /\ known'[r] = known[r] + k[r] /\ kept'[r] = k[r]
                       /\ slotOf'[r] = slotOf[r]
  BY <1>2, <1>5, <1>7 DEF Reclaim
<1>10. BatchComplete'
  <2>1. {batch'[i] : i \in 1..Len(batch')} = active
    <3>1. Cardinality(active) \in Nat /\ IsFiniteSet(active)
      BY <1>2, SubsetCardinality
    <3>2. batch' \in [1..Cardinality(active) -> active] /\ IsInjective(batch')
      BY <1>7 DEF RowOrders
    <3>3. Len(batch') = Cardinality(active)
      BY <3>1, <3>2
    <3>4. \A i, j \in 1..Cardinality(active) : batch'[i] = batch'[j] => i = j
      BY <3>2 DEF IsInjective
    <3>5. batch' \in Injection(1..Cardinality(active), active)
      BY <3>2, <3>4 DEF Injection, IsInjective
    <3>6. IsFiniteSet(1..Cardinality(active))
          /\ Cardinality(1..Cardinality(active)) = Cardinality(active)
      <4>1. 1 \in Int /\ Cardinality(active) \in Int
        BY <3>1
      <4>2. IsFiniteSet(1..Cardinality(active))
            /\ Cardinality(1..Cardinality(active)) =
                 IF 1 > Cardinality(active) THEN 0 ELSE Cardinality(active) - 1 + 1
        BY <4>1, FS_Interval
      <4> QED BY <3>1, <4>2
    <3>7. batch' \in Surjection(1..Cardinality(active), active)
      BY <3>1, <3>5, <3>6, FS_Injection
    <3> QED BY <3>2, <3>3, <3>7 DEF Surjection
  <2>2. ASSUME NEW r \in active PROVE known'[r] <= MaxPos /\ kept'[r] >= 1
    <3>1. /\ tokens[r] \in Nat /\ k[r] \in Nat /\ k[r] >= 1 /\ k[r] <= tokens[r]
          /\ known[r] \in Nat
      BY <1>6
    <3>2. known[r] + tokens[r] <= MaxPos /\ known'[r] = known[r] + k[r]
          /\ kept'[r] = k[r]
      BY <1>5, <1>9
    <3> QED BY <1>2, <3>1, <3>2
  <2>3. row' = 0 /\ 0 <= Len(batch')
    BY <1>1, <1>2, <1>8 DEF IInv, TypeOK
  <2>4. \A i \in 1..row' : FALSE
    BY <2>3
  <2> QED BY <1>7, <1>8, <2>1, <2>2, <2>3, <2>4 DEF BatchComplete
<1>11. RingsHeld'
  <2>1. ASSUME NEW q \in active
        PROVE  \E h \in Hits : h <= Given(q)' /\ (Given(q)' = h \/ Holds(q, h)')
    <3>1. Given(q)' = Given(q)
      <4>1. known[q] \in Nat /\ k[q] \in Nat
        BY <1>6
      <4>2. known'[q] - kept'[q] = known[q]
        BY <1>9, <4>1
      <4> QED BY <1>2, <1>7, <4>2 DEF Given
    <3>2. PICK h \in Hits : h <= Given(q) /\ (Given(q) = h \/ Holds(q, h))
      BY DEF RingInv, RingsHeld
    <3>3. Holds(q, h) => Holds(q, h)'
      BY <1>8, <1>9, <3>1 DEF Holds
    <3> QED BY <3>1, <3>2, <3>3
  <2> QED BY <1>8, <2>1 DEF RingsHeld
<1> QED BY <1>1, <1>10, <1>11 DEF RingInv

\* A slot that is taken was free: no ring changes its request.
LEMMA AssignRings ==
  ASSUME RingInv, AssignSlot PROVE RingInv'
<1>1. IInv' /\ IInv
  BY AssignSlotIInv DEF RingInv
<1>2. /\ slotOf \in [Requests -> Slots \union {NoSlot}]
      /\ row \in Nat /\ Len(batch) \in Nat /\ active \in SUBSET Requests
      /\ freeSlots \subseteq Slots
  BY <1>1 DEF IInv, TypeOK
<1>3. /\ phase = "assign" /\ row < Len(batch) /\ row' = row + 1
      /\ UNCHANGED <<known, active, ring, prefilled, phase, batch, kept>>
  BY DEF AssignSlot
<1>4. row + 1 \in 1..Len(batch)
  BY <1>2, <1>3
<1>5. PICK r \in Requests : r = batch[row + 1]
  BY <1>1, <1>4 DEF IInv, TypeOK
<1>6. /\ slotOf'[r] # NoSlot
      /\ \A q \in Requests : slotOf[q] # NoSlot => slotOf'[q] = slotOf[q]
  <2>1. CASE slotOf[r] # NoSlot
    BY <1>5, <2>1 DEF AssignSlot
  <2>2. CASE slotOf[r] = NoSlot
    <3>1. PICK s \in freeSlots : slotOf' = [slotOf EXCEPT ![r] = s]
      BY <1>5, <2>2 DEF AssignSlot
    <3>2. s # NoSlot
      BY <1>2, NoSlotIsNone
    <3> QED BY <1>2, <2>2, <3>1, <3>2
  <2> QED BY <2>1, <2>2
<1>7. BatchComplete'
  <2>1. row' <= Len(batch')
    BY <1>2, <1>3
  <2>2. ASSUME NEW i \in 1..row' PROVE slotOf'[batch[i]] # NoSlot
    <3>1. CASE i = row + 1
      BY <1>5, <1>6, <3>1
    <3>2. CASE i # row + 1
      <4>1. i \in 1..row
        BY <1>2, <1>3, <3>2
      <4>2. i \in 1..Len(batch)
        BY <1>2, <1>3, <4>1
      <4>3. batch[i] \in Requests
        BY <1>1, <4>2 DEF IInv, TypeOK
      <4>4. slotOf[batch[i]] # NoSlot
        BY <1>3, <4>1 DEF RingInv, BatchComplete
      <4> QED BY <1>6, <4>3, <4>4
    <3> QED BY <3>1, <3>2
  <2> QED BY <1>3, <2>1, <2>2 DEF RingInv, BatchComplete
<1>8. RingsHeld'
  <2>1. ASSUME NEW q \in active
        PROVE  \E h \in Hits : h <= Given(q)' /\ (Given(q)' = h \/ Holds(q, h)')
    <3>1. Given(q)' = Given(q)
      BY <1>3 DEF Given
    <3>2. PICK h \in Hits : h <= Given(q) /\ (Given(q) = h \/ Holds(q, h))
      BY DEF RingInv, RingsHeld
    <3>3. Holds(q, h) => Holds(q, h)'
      <4> SUFFICES ASSUME Holds(q, h) PROVE Holds(q, h)'
        OBVIOUS
      <4>1. slotOf'[q] = slotOf[q] /\ slotOf[q] # NoSlot
        BY <1>2, <1>6 DEF Holds
      <4> QED BY <1>3, <3>1, <4>1 DEF Holds
    <3> QED BY <3>1, <3>2, <3>3
  <2> QED BY <1>3, <2>1 DEF RingsHeld
<1> QED BY <1>1, <1>7, <1>8 DEF RingInv

\* Each position kept goes to its entry, over a position that left the window.
LEMMA StoreRings ==
  ASSUME RingInv, StoreMainKv PROVE RingInv'
<1>1. IInv' /\ IInv
  BY StoreMainKvIInv DEF RingInv
<1>2. /\ slotOf \in [Requests -> Slots \union {NoSlot}]
      /\ known \in [Requests -> Nat] /\ kept \in [Requests -> Nat]
      /\ row \in Nat /\ Len(batch) \in Nat /\ active \in SUBSET Requests
      /\ batch \in Seq(Requests)
      /\ Window \in Nat \ {0} /\ MaxPos \in Nat
      /\ SlotsShared
  BY <1>1, DraftSlotsAssumption DEF IInv, TypeOK
<1>3. /\ phase = "assign" /\ row = Len(batch)
      /\ ring' = [s \in Slots |-> [i \in 0..(Window - 1) |->
                   IF Written(s, i) = {} THEN ring[s][i]
                   ELSE CHOOSE e \in Written(s, i) : TRUE]]
      /\ UNCHANGED <<known, active, slotOf, freeSlots>>
  BY DEF StoreMainKv
<1>4. /\ {batch[i] : i \in 1..Len(batch)} = active
      /\ \A r \in active : known[r] <= MaxPos /\ kept[r] >= 1
      /\ \A i \in 1..row : slotOf[batch[i]] # NoSlot
  BY <1>3 DEF RingInv, BatchComplete
<1>5. Range(batch) = active
  <2>1. DOMAIN batch = 1..Len(batch)
    BY <1>2
  <2> QED BY <1>4, <2>1 DEF Range
<1>6. \A r \in active : slotOf[r] # NoSlot /\ slotOf[r] \in Slots
  BY <1>2, <1>3, <1>4
<1>7. \/ phase' = "draft" /\ UNCHANGED <<batch, row, kept>>
      \/ phase' = "idle" /\ EndOfCall
  BY Zenon DEF StoreMainKv
<1>8. BatchComplete'
  <2>1. CASE phase' = "draft" /\ UNCHANGED <<batch, row, kept>>
    BY <1>3, <1>4, <1>6, <2>1 DEF BatchComplete
  <2>2. CASE phase' = "idle" /\ EndOfCall
    BY <2>2 DEF BatchComplete, EndOfCall
  <2> QED BY <1>7, <2>1, <2>2
<1>9. ASSUME NEW r \in active,
             NEW h \in Hits, h <= Given(r), Given(r) = h \/ Holds(r, h)
      PROVE  h <= Given(r)' /\ Holds(r, h)'
  <2>1. PICK n \in Nat, k \in Nat, s \in Slots : n = known[r] /\ k = kept[r] /\ s = slotOf[r]
    BY <1>2, <1>6
  <2>2. /\ n <= MaxPos /\ k >= 1 /\ Given(r) = n - k /\ Given(r)' = n
        /\ slotOf'[r] = s /\ s # NoSlot /\ h \in Nat /\ h <= n - k
    <3>1. Given(r)' = known'[r]
      BY <1>7 DEF Given
    <3> QED BY <1>3, <1>4, <1>6, <1>9, <2>1, <3>1, DraftSlotsAssumption DEF Given
  <2>3. h <= n
    BY <2>1, <2>2
  <2>4. \A i \in 0..(Window - 1) : \A e \in Written(s, i) :
          /\ e = <<r, e[2]>>
          /\ e[2] \in Nat /\ n - k <= e[2] /\ e[2] < n /\ n - Window <= e[2]
          /\ e[2] % Window = i
    <3> SUFFICES ASSUME NEW i \in 0..(Window - 1), NEW e \in Written(s, i)
                 PROVE  /\ e = <<r, e[2]>>
                        /\ e[2] \in Nat /\ n - k <= e[2] /\ e[2] < n
                        /\ n - Window <= e[2]
                        /\ e[2] % Window = i
      OBVIOUS
    <3>1. /\ e \in active \X (0..MaxPos) /\ slotOf[e[1]] = s
          /\ e[2] \in Stored(e[1]) /\ e[2] % Window = i
      BY <1>5 DEF Written, RingOf
    <3>2. e[1] = r
      <4>1. e[1] \in Held /\ r \in Held
        BY <1>2, <1>6, <3>1 DEF Held
      <4> QED BY <1>2, <2>1, <3>1, <4>1 DEF SlotsShared
    <3>3. e = <<r, e[2]>> /\ e[2] \in Nat
      BY <1>2, <3>1, <3>2
    <3>4. e[2] \in (n - k)..(n - 1) /\ e[2] >= n - Window
      BY <2>1, <3>1, <3>2 DEF Stored
    <3> QED BY <2>1, <3>1, <3>3, <3>4
  <2>5. ASSUME NEW p \in Nat, h <= p, p < n, n - Window <= p
        PROVE  ring'[s][p % Window] = <<r, p>>
    <3>1. PICK i \in 0..(Window - 1) : i = p % Window
      BY <1>2, DivMod
    <3>2. ring'[s][i] = IF Written(s, i) = {} THEN ring[s][i]
                        ELSE CHOOSE e \in Written(s, i) : TRUE
      BY <1>3
    <3>3. CASE n - k <= p
      <4>1. p \in Stored(r)
        <5>1. p \in (n - k)..(n - 1)
          BY <2>1, <2>5, <3>3
        <5> QED BY <2>1, <2>5, <5>1 DEF Stored
      <4>2. p \in 0..MaxPos
        BY <1>2, <2>1, <2>2, <2>5
      <4>3. <<r, p>> \in Written(s, i)
        BY <1>5, <2>1, <3>1, <4>1, <4>2 DEF Written, RingOf
      <4>4. PICK e \in Written(s, i) : ring'[s][i] = e
        BY <3>2, <4>3
      <4>5. /\ e = <<r, e[2]>> /\ e[2] \in Nat /\ e[2] < n /\ n - Window <= e[2]
            /\ e[2] % Window = i
        BY <2>4
      <4>6. PICK x \in Nat : x = e[2]
        BY <4>5
      <4>7. x < p + Window /\ p < x + Window
        BY <1>2, <2>1, <2>5, <4>5, <4>6
      <4>8. x = p
        BY <1>2, <3>1, <4>5, <4>6, <4>7, SameEntry
      <4> QED BY <3>1, <4>4, <4>5, <4>6, <4>8
    <3>4. CASE p < n - k
      <4>1. Written(s, i) = {}
        <5> SUFFICES ASSUME NEW e \in Written(s, i) PROVE FALSE
          OBVIOUS
        <5>1. /\ e[2] \in Nat /\ n - k <= e[2] /\ e[2] < n /\ e[2] % Window = i
          BY <2>4
        <5>2. PICK x \in Nat : x = e[2]
          BY <5>1
        <5>3. p < x /\ x < p + Window /\ p < x + Window
          BY SMTT(30), <1>2, <2>1, <2>5, <3>4, <5>1, <5>2
        <5>4. x = p
          BY <1>2, <3>1, <5>1, <5>2, <5>3, SameEntry
        <5> QED BY <5>3, <5>4
      <4>2. Given(r) # h
        BY <2>1, <2>2, <2>5, <3>4
      <4>3. Holds(r, h)
        BY <1>9, <4>2
      <4>4. n - k - Window <= p
        BY <1>2, <2>1, <2>5
      <4>5. ring[s][p % Window] = <<r, p>>
        BY <2>1, <2>2, <2>5, <3>4, <4>3, <4>4 DEF Holds
      <4> QED BY <3>1, <3>2, <4>1, <4>5
    <3> QED BY <2>1, <2>5, <3>3, <3>4
  <2> QED BY <2>2, <2>3, <2>5 DEF Holds
<1>10. RingsHeld'
  <2>1. ASSUME NEW r \in active
        PROVE  \E h \in Hits : h <= Given(r)' /\ (Given(r)' = h \/ Holds(r, h)')
    <3>1. PICK h \in Hits : h <= Given(r) /\ (Given(r) = h \/ Holds(r, h))
      BY DEF RingInv, RingsHeld
    <3> QED BY <1>9, <3>1
  <2> QED BY <1>3, <2>1 DEF RingsHeld
<1> QED BY <1>1, <1>8, <1>10 DEF RingInv

LEMMA EndRings ==
  ASSUME RingInv, EndPropose \/ UNCHANGED vars PROVE RingInv'
<1>1. IInv'
  BY EndProposeIInv, StutterIInv DEF RingInv
<1>2. UNCHANGED <<known, active, slotOf, ring>>
  BY DEF EndPropose, vars
<1>3. BatchComplete'
  <2>1. CASE EndPropose
    BY <2>1 DEF EndPropose, EndOfCall, BatchComplete
  <2>2. CASE UNCHANGED vars
    BY <2>2 DEF vars, RingInv, BatchComplete
  <2> QED BY <2>1, <2>2
<1>4. \A r : Given(r)' = Given(r)
  BY DEF EndPropose, vars, Given
<1>5. RingsHeld'
  BY <1>2, <1>4 DEF RingInv, RingsHeld, Holds
<1> QED BY <1>1, <1>3, <1>5 DEF RingInv

\* What the draft for a request past its prompt reads is what its ring holds.
LEMMA HeldIsRead ==
  ASSUME RingsAssumption, RingInv PROVE DraftReadsOwnKv
<1> SUFFICES ASSUME phase = "draft", NEW r \in Range(batch), known[r] >= PromptLen,
                    NEW p \in Read(r)
             PROVE  ring[RingOf(r)][p % Window] = <<r, p>>
  BY DEF DraftReadsOwnKv
<1>1. /\ batch \in Seq(Requests) /\ known \in [Requests -> Nat]
      /\ active \in SUBSET Requests
      /\ Window \in Nat \ {0} /\ PromptLen \in Nat
  BY DraftSlotsAssumption DEF RingInv, IInv, TypeOK
<1>2. r \in active
  BY <1>1 DEF RingInv, BatchComplete, Range
<1>3. PICK n \in Nat : n = known[r]
  BY <1>1, <1>2
<1>4. PICK h \in Hits : h <= n /\ (n = h \/ Holds(r, h))
  BY <1>2, <1>3 DEF RingInv, RingsHeld, Given
<1>5. h \in Nat /\ h + Window <= PromptLen
  BY DraftSlotsAssumption DEF RingsAssumption
<1>6. n # h /\ h <= n - Window
  BY <1>1, <1>3, <1>5
<1>7. p \in Nat /\ p < n /\ n - Window <= p
  BY <1>1, <1>3 DEF Read
<1>8. h <= p
  BY <1>1, <1>5, <1>6, <1>7
<1>9. Holds(r, h)
  BY <1>4, <1>6
<1> QED BY <1>3, <1>7, <1>8, <1>9 DEF Holds, Given, RingOf

(***************************************************************************)
(* The draft reads the KV of its own request, at the positions it takes    *)
(* the entries for, however requests come, go and change their batch row:  *)
(* for any number of requests and slots, any window and any way of         *)
(* batching in which every running request takes part in every step.       *)
(***************************************************************************)
THEOREM RingsFollowRequests ==
  ASSUME RingsAssumption PROVE Spec => []DraftReadsOwnKv
<1>1. Init => RingInv
  BY InitRings
<1>2. RingInv /\ [Next]_vars => RingInv'
  <2> SUFFICES ASSUME RingInv, [Next]_vars PROVE RingInv'
    OBVIOUS
  <2>1. CASE Step
    BY <2>1, StepRings
  <2>2. CASE AssignSlot
    BY <2>2, AssignRings
  <2>3. CASE StoreMainKv
    BY <2>3, StoreRings
  <2>4. CASE EndPropose \/ UNCHANGED vars
    BY <2>4, EndRings
  <2>5. ASSUME NEW r \in Requests, Join(r) PROVE RingInv'
    BY <2>5, JoinRings
  <2>6. ASSUME NEW r \in Requests, Leave(r) PROVE RingInv'
    BY <2>6, LeaveRings
  <2> QED BY <2>1, <2>2, <2>3, <2>4, <2>5, <2>6 DEF Next
<1>3. RingInv => DraftReadsOwnKv
  BY HeldIsRead
<1> QED BY <1>1, <1>2, <1>3, PTL DEF Spec

-----------------------------------------------------------------------------
(* The streams.                                                            *)

Works == {"inputs", "forward", "sample", "draft"}
Op == [do : Works \union Streams, of : Nat, after : Nat]
Output == [of : Nat, event : Nat]

\* The operations of a stream: the work of the default stream, else copies.
OwnOp(s, op) == IF s = "default" THEN op.do \in Works ELSE op.do = s
OwnOps(s, q) == \A i \in DOMAIN q : OwnOp(s, q[i])

\* The variables have their types, and a stream has operations of its own.
Shape ==
  /\ step \in Nat
  /\ queue \in [Streams -> Seq(Op)]
  /\ ran \in [Streams -> Nat]
  /\ event \in [{"inputs", "counts", "drafts"} -> Nat]
  /\ host \in [{"inputs", "counts", "drafts"} -> Int]
  /\ device \in [{"inputs", "sampled", "drafted", "torn"} -> SUBSET Nat]
  /\ counted \in Nat
  /\ outputs \in Seq(Output)
  /\ \A s \in Streams : OwnOps(s, queue[s])

\* With k operations done, the copies of inputs in q come no later than the
\* position, and are of step n.
InputsIn(q, k, n, position) ==
  \A i \in DOMAIN q : q[i].do = "inputs" => q[i].of = n /\ k + i <= position

\* The inputs still to be copied are those the buffers hold, and come before
\* the recorded event.
InputsPending ==
  /\ InputsIn(queue["default"], ran["default"], host.inputs, event.inputs)
  /\ InputsUntorn

\* When k operations and those of q up to a position are done, `do' is done
\* for step n.
DoneBy(done, q, k, do, n, position) ==
  \/ n \in done
  \/ \E j \in DOMAIN q : q[j].do = do /\ q[j].of = n /\ k + j <= position

\* The copies in c wait for what they copy.
WaitsIn(c, done, q, k, do) ==
  \A i \in DOMAIN c : DoneBy(done, q, k, do, c[i].of, c[i].after)

\* What the host buffer of a stream holds once its operations q are executed.
Finally(q, held) == IF q = <<>> THEN held ELSE q[Len(q)].of

\* An output that is not computed is that of a queued copy, at its event.
CopyOf(done, q, k, output) ==
  \/ output.of \in done
  \/ \E j \in DOMAIN q : q[j].of = output.of /\ k + j = output.event

CopiesWait ==
  /\ WaitsIn(queue["counts"], device.sampled, queue["default"], ran["default"], "sample")
  /\ WaitsIn(queue["output"], device.sampled, queue["default"], ran["default"], "sample")
  /\ WaitsIn(queue["drafts"], device.drafted, queue["default"], ran["default"], "draft")

OutputsCome ==
  \A i \in DOMAIN outputs :
    CopyOf(device.sampled, queue["output"], ran["output"], outputs[i])

\* The events come after all copies, the last of which is the one wanted.
LastWanted ==
  /\ event.counts = ran["counts"] + Len(queue["counts"])
  /\ event.drafts = ran["drafts"] + Len(queue["drafts"])
  /\ Finally(queue["counts"], host.counts) = counted
  /\ draftsOf \in Nat
  /\ draftsOf # None => Finally(queue["drafts"], host.drafts) = draftsOf

CopiesPending == CopiesWait /\ OutputsCome /\ LastWanted

InputsInv == Shape /\ InputsPending
ReadsInv == Shape /\ CopiesPending /\ ReadsOfTheirStep

-----------------------------------------------------------------------------
(* Lemmas.                                                                 *)

LEMMA StreamNames ==
  /\ "default" \in Streams /\ "counts" \in Streams
  /\ "drafts" \in Streams /\ "output" \in Streams
BY DEF Streams

LEMMA OpFields ==
  ASSUME NEW q \in Seq(Op), NEW i \in DOMAIN q
  PROVE  q[i] \in Op /\ q[i].of \in Nat /\ q[i].after \in Nat
<1>1. PICK op \in Op : op = q[i]
  OBVIOUS
<1>2. op.of \in Nat /\ op.after \in Nat
  BY DEF Op
<1> QED BY <1>1, <1>2

LEMMA AppendAt ==
  ASSUME NEW S, NEW q \in Seq(S), NEW x \in S
  PROVE  /\ Append(q, x) \in Seq(S)
         /\ Len(Append(q, x)) = Len(q) + 1
         /\ DOMAIN Append(q, x) = DOMAIN q \union {Len(q) + 1}
         /\ \A i \in DOMAIN q : Append(q, x)[i] = q[i]
         /\ Append(q, x)[Len(q) + 1] = x
OBVIOUS

LEMMA TailAt ==
  ASSUME NEW S, NEW q \in Seq(S), q # <<>>
  PROVE  /\ Tail(q) \in Seq(S)
         /\ Len(Tail(q)) = Len(q) - 1
         /\ \A i \in DOMAIN Tail(q) : i + 1 \in DOMAIN q /\ Tail(q)[i] = q[i + 1]
         /\ \A i \in DOMAIN q : i # 1 => i - 1 \in DOMAIN Tail(q)
         /\ 1 \in DOMAIN q
OBVIOUS

LEMMA OwnAppended ==
  ASSUME NEW s \in Streams, NEW q \in Seq(Op), NEW op \in Op, OwnOps(s, q), OwnOp(s, op)
  PROVE  OwnOps(s, Append(q, op))
<1>1. PICK a \in Seq(Op) : a = Append(q, op)
  BY AppendAt
<1>2. /\ DOMAIN a = DOMAIN q \union {Len(q) + 1}
      /\ \A i \in DOMAIN q : a[i] = q[i]
      /\ a[Len(q) + 1] = op
  BY <1>1, AppendAt
<1> QED BY <1>1, <1>2 DEF OwnOps

LEMMA OwnTail ==
  ASSUME NEW s \in Streams, NEW q \in Seq(Op), q # <<>>, OwnOps(s, q)
  PROVE  OwnOps(s, Tail(q)) /\ OwnOp(s, q[1])
BY TailAt DEF OwnOps

LEMMA PutAt ==
  ASSUME NEW q \in [Streams -> Seq(Op)], NEW s \in Streams, NEW op \in Op
  PROVE  /\ Put(q, s, op) \in [Streams -> Seq(Op)]
         /\ Put(q, s, op)[s] = Append(q[s], op)
         /\ \A t \in Streams \ {s} : Put(q, s, op)[t] = q[t]
BY DEF Put

LEMMA DoneWhenAppended ==
  ASSUME NEW q \in Seq(Op), NEW op \in Op, NEW k \in Nat, NEW do,
         NEW n \in Nat, NEW position \in Nat, NEW done,
         DoneBy(done, q, k, do, n, position)
  PROVE  DoneBy(done, Append(q, op), k, do, n, position)
BY AppendAt DEF DoneBy

LEMMA DoneWhenPut ==
  ASSUME NEW q \in Seq(Op), NEW op \in Op, NEW k \in Nat, NEW done
  PROVE  DoneBy(done, Append(q, op), k, op.do, op.of, k + (Len(q) + 1))
<1>1. Len(q) + 1 \in DOMAIN Append(q, op) /\ Append(q, op)[Len(q) + 1] = op
  BY AppendAt
<1>2. k + (Len(q) + 1) <= k + (Len(q) + 1)
  OBVIOUS
<1> QED BY <1>1, <1>2 DEF DoneBy

LEMMA DoneWhenExecuted ==
  ASSUME NEW q \in Seq(Op), q # <<>>, NEW k \in Nat, NEW do, NEW n \in Nat,
         NEW position \in Nat, NEW done, NEW now, done \subseteq now,
         q[1].do = do => q[1].of \in now,
         DoneBy(done, q, k, do, n, position)
  PROVE  DoneBy(now, Tail(q), k + 1, do, n, position)
<1>1. CASE n \in done
  BY <1>1 DEF DoneBy
<1>2. ASSUME NEW j \in DOMAIN q, q[j].do = do, q[j].of = n, k + j <= position
      PROVE  DoneBy(now, Tail(q), k + 1, do, n, position)
  <2>1. CASE j = 1
    BY <1>2, <2>1 DEF DoneBy
  <2>2. CASE j # 1
    <3>1. j - 1 \in DOMAIN Tail(q) /\ Tail(q)[j - 1] = q[j]
      BY <2>2
    <3>2. k + 1 + (j - 1) <= position
      BY <1>2
    <3> QED BY <1>2, <3>1, <3>2 DEF DoneBy
  <2> QED BY <2>1, <2>2
<1> QED BY <1>1, <1>2 DEF DoneBy

\* Nothing is left to wait for once the position is reached.
LEMMA DoneAtPosition ==
  ASSUME NEW q \in Seq(Op), NEW k \in Nat, NEW do, NEW n, NEW done,
         NEW position \in Nat, k >= position,
         DoneBy(done, q, k, do, n, position)
  PROVE  n \in done
BY DEF DoneBy

\* What is put on the default stream, and a copy behind `position' of it.
Work(do, n) == [do |-> do, of |-> n, after |-> 0]
CopyAt(s, n, position) == [do |-> s, of |-> n, after |-> position]

LEMMA WorkOf ==
  ASSUME NEW do \in Works, NEW n \in Nat
  PROVE  Work(do, n) \in Op
BY DEF Op, Work

LEMMA CopyOfStep ==
  ASSUME NEW s \in Streams, NEW n \in Nat, NEW position \in Nat
  PROVE  CopyAt(s, n, position) \in Op
BY DEF Op, CopyAt

LEMMA WorkPut ==
  ASSUME NEW q \in [Streams -> Seq(Op)], NEW do \in Works, NEW n \in Nat
  PROVE  /\ PutWork(q, do, n) \in [Streams -> Seq(Op)]
         /\ PutWork(q, do, n)["default"] = Append(q["default"], Work(do, n))
         /\ Len(PutWork(q, do, n)["default"]) = Len(q["default"]) + 1
         /\ \A t \in Streams \ {"default"} : PutWork(q, do, n)[t] = q[t]
<1>1. Work(do, n) \in Op
  BY WorkOf
<1>2. q["default"] \in Seq(Op)
  BY StreamNames
<1>3. PutWork(q, do, n) = Put(q, "default", Work(do, n))
  BY DEF PutWork, Work
<1>4. /\ Put(q, "default", Work(do, n)) \in [Streams -> Seq(Op)]
      /\ Put(q, "default", Work(do, n))["default"] = Append(q["default"], Work(do, n))
      /\ \A t \in Streams \ {"default"} : Put(q, "default", Work(do, n))[t] = q[t]
  BY <1>1, PutAt, StreamNames
<1>5. Len(Append(q["default"], Work(do, n))) = Len(q["default"]) + 1
  BY <1>1, <1>2, AppendAt
<1> QED BY <1>3, <1>4, <1>5

LEMMA CopyPut ==
  ASSUME Shape, NEW q \in [Streams -> Seq(Op)], NEW s \in Streams, NEW n \in Nat
  PROVE  /\ PutCopy(q, s, n) \in [Streams -> Seq(Op)]
         /\ PutCopy(q, s, n)[s] = Append(q[s], CopyAt(s, n, Issued(q, "default")))
         /\ \A t \in Streams \ {s} : PutCopy(q, s, n)[t] = q[t]
<1>1. Issued(q, "default") \in Nat
  <2>1. ran["default"] \in Nat /\ q["default"] \in Seq(Op)
    BY StreamNames DEF Shape
  <2> QED BY <2>1 DEF Issued
<1>2. CopyAt(s, n, Issued(q, "default")) \in Op
  BY <1>1, CopyOfStep
<1>3. PutCopy(q, s, n) = Put(q, s, CopyAt(s, n, Issued(q, "default")))
  BY DEF PutCopy, CopyAt
<1>4. /\ Put(q, s, CopyAt(s, n, Issued(q, "default"))) \in [Streams -> Seq(Op)]
      /\ Put(q, s, CopyAt(s, n, Issued(q, "default")))[s] = Append(q[s], CopyAt(s, n, Issued(q, "default")))
      /\ \A t \in Streams \ {s} : Put(q, s, CopyAt(s, n, Issued(q, "default")))[t] = q[t]
  BY <1>2, PutAt
<1> QED BY <1>3, <1>4

\* What a step's start leaves to execute, and the event it records.
LEMMA ExecuteQueues ==
  ASSUME Shape, ExecuteModel
  PROVE  /\ queue' \in [Streams -> Seq(Op)]
         /\ queue'["default"] =
              Append(Append(queue["default"], Work("inputs", step + 1)),
                     Work("forward", step + 1))
         /\ \A s \in Streams \ {"default"} : queue'[s] = queue[s]
         /\ event' = [event EXCEPT !.inputs =
                        ran["default"] + (Len(queue["default"]) + 1)]
<1>1. queue \in [Streams -> Seq(Op)] /\ step + 1 \in Nat
  BY DEF Shape
<1>2. "inputs" \in Works /\ "forward" \in Works
  BY DEF Works
<1>3. PICK copied \in [Streams -> Seq(Op)] : copied = PutWork(queue, "inputs", step + 1)
  BY <1>1, <1>2, WorkPut
<1>4. /\ copied["default"] = Append(queue["default"], Work("inputs", step + 1))
      /\ Len(copied["default"]) = Len(queue["default"]) + 1
      /\ \A s \in Streams \ {"default"} : copied[s] = queue[s]
  BY <1>1, <1>2, <1>3, WorkPut
<1>5. /\ PutWork(copied, "forward", step + 1) \in [Streams -> Seq(Op)]
      /\ PutWork(copied, "forward", step + 1)["default"] =
           Append(copied["default"], Work("forward", step + 1))
      /\ \A s \in Streams \ {"default"} :
           PutWork(copied, "forward", step + 1)[s] = copied[s]
  BY <1>1, <1>2, WorkPut
<1>6. queue' = PutWork(copied, "forward", step + 1)
      /\ event' = [event EXCEPT !.inputs = ran["default"] + Len(copied["default"])]
  BY <1>3 DEF ExecuteModel, Issued
<1> QED BY <1>4, <1>5, <1>6

\* Where the default stream is with the sampling of a step, and with its end.
SampledAt == ran["default"] + (Len(queue["default"]) + 1)
DraftedAt == ran["default"] + (Len(queue["default"]) + 1 + 1)

\* What the end of a step leaves to execute, and the events it records.
LEMMA SampleQueues ==
  ASSUME Shape, SampleTokens
  PROVE  \E fits \in DrafterFits, wanted \in BOOLEAN :
           /\ queue' \in [Streams -> Seq(Op)]
           /\ queue'["default"] =
                IF fits THEN Append(Append(queue["default"], Work("sample", step)),
                                    Work("draft", step))
                ELSE Append(queue["default"], Work("sample", step))
           /\ queue'["counts"] =
                Append(queue["counts"], CopyAt("counts", step, SampledAt))
           /\ queue'["drafts"] =
                IF fits /\ wanted
                THEN Append(queue["drafts"], CopyAt("drafts", step, DraftedAt))
                ELSE queue["drafts"]
           /\ queue'["output"] =
                Append(queue["output"],
                       CopyAt("output", step, IF fits THEN DraftedAt ELSE SampledAt))
           /\ host' = IF wanted /\ ~fits THEN [host EXCEPT !.drafts = Zeros] ELSE host
           /\ event' = IF wanted
                       THEN [event EXCEPT !.counts = ran["counts"] + Len(queue'["counts"]),
                                          !.drafts = ran["drafts"] + Len(queue'["drafts"])]
                       ELSE [event EXCEPT !.counts = ran["counts"] + Len(queue'["counts"])]
           /\ draftsOf' = IF ~wanted THEN None ELSE IF fits THEN step ELSE -step
<1>1. queue \in [Streams -> Seq(Op)] /\ step \in Nat
  BY DEF Shape
<1>2. "sample" \in Works /\ "draft" \in Works
  BY DEF Works
<1>3. PICK fits \in DrafterFits, wanted \in BOOLEAN :
        LET sampled == PutWork(queue, "sample", step)
            counting == PutCopy(sampled, "counts", step)
            drafting == IF fits THEN PutWork(counting, "draft", step) ELSE counting
        IN IF wanted THEN CopyDrafts(drafting, fits) ELSE CopyNoDrafts(drafting)
  BY DEF SampleTokens
<1>4. PICK sampled \in [Streams -> Seq(Op)] : sampled = PutWork(queue, "sample", step)
  BY <1>1, <1>2, WorkPut
<1>5. /\ sampled["default"] = Append(queue["default"], Work("sample", step))
      /\ Len(sampled["default"]) = Len(queue["default"]) + 1
      /\ \A s \in Streams \ {"default"} : sampled[s] = queue[s]
  BY <1>1, <1>2, <1>4, WorkPut
<1>6. Issued(sampled, "default") = SampledAt
  BY <1>5 DEF SampledAt, Issued
<1>7. PICK counting \in [Streams -> Seq(Op)] : counting = PutCopy(sampled, "counts", step)
  BY <1>1, <1>6, CopyPut, StreamNames
<1>8. /\ counting["counts"] = Append(sampled["counts"], CopyAt("counts", step, SampledAt))
      /\ \A s \in Streams \ {"counts"} : counting[s] = sampled[s]
  <2>1. /\ PutCopy(sampled, "counts", step)["counts"] =
             Append(sampled["counts"],
                    CopyAt("counts", step, Issued(sampled, "default")))
        /\ \A s \in Streams \ {"counts"} :
             PutCopy(sampled, "counts", step)[s] = sampled[s]
    BY <1>1, CopyPut, StreamNames
  <2> QED BY <1>6, <1>7, <2>1
<1>9. PICK drafting \in [Streams -> Seq(Op)] :
        /\ drafting = IF fits THEN PutWork(counting, "draft", step) ELSE counting
        /\ drafting["default"] = IF fits THEN Append(counting["default"], Work("draft", step))
                                 ELSE counting["default"]
        /\ Len(drafting["default"]) = IF fits THEN Len(counting["default"]) + 1
                                      ELSE Len(counting["default"])
        /\ \A s \in Streams \ {"default"} : drafting[s] = counting[s]
  <2>1. /\ PutWork(counting, "draft", step) \in [Streams -> Seq(Op)]
        /\ PutWork(counting, "draft", step)["default"] =
             Append(counting["default"], Work("draft", step))
        /\ Len(PutWork(counting, "draft", step)["default"]) = Len(counting["default"]) + 1
        /\ \A s \in Streams \ {"default"} :
             PutWork(counting, "draft", step)[s] = counting[s]
    BY <1>1, <1>2, WorkPut
  <2>2. CASE fits
    BY <2>1, <2>2
  <2>3. CASE ~fits
    BY <2>3
  <2> QED BY <2>2, <2>3
<1>10. counting["default"] = sampled["default"]
  BY <1>8, StreamNames
<1>11. ran["default"] + Len(drafting["default"]) = IF fits THEN DraftedAt ELSE SampledAt
  <2>1. Len(drafting["default"]) = IF fits THEN Len(queue["default"]) + 1 + 1
                                   ELSE Len(queue["default"]) + 1
    BY <1>5, <1>9, <1>10
  <2>2. CASE fits
    BY <2>1, <2>2 DEF DraftedAt
  <2>3. CASE ~fits
    BY <2>1, <2>3 DEF SampledAt
  <2> QED BY <2>2, <2>3
<1>12. PICK copied \in [Streams -> Seq(Op)] :
         /\ copied = IF fits /\ wanted THEN PutCopy(drafting, "drafts", step) ELSE drafting
         /\ copied["drafts"] =
              IF fits /\ wanted
              THEN Append(drafting["drafts"], CopyAt("drafts", step, DraftedAt))
              ELSE drafting["drafts"]
         /\ \A s \in Streams \ {"drafts"} : copied[s] = drafting[s]
  <2>1. CASE fits /\ wanted
    <3>1. Issued(drafting, "default") = DraftedAt
      BY <1>11, <2>1 DEF Issued
    <3>2. /\ PutCopy(drafting, "drafts", step) \in [Streams -> Seq(Op)]
          /\ PutCopy(drafting, "drafts", step)["drafts"] =
               Append(drafting["drafts"], CopyAt("drafts", step, DraftedAt))
          /\ \A s \in Streams \ {"drafts"} :
               PutCopy(drafting, "drafts", step)[s] = drafting[s]
      BY <1>1, <3>1, CopyPut, StreamNames
    <3> QED BY <2>1, <3>2
  <2>2. CASE ~(fits /\ wanted)
    BY <2>2
  <2> QED BY <2>1, <2>2
<1>13. copied["default"] = drafting["default"] /\ copied["counts"] = drafting["counts"]
       /\ copied["output"] = drafting["output"]
  BY <1>12, StreamNames
<1>14. Issued(copied, "default") = IF fits THEN DraftedAt ELSE SampledAt
  BY <1>11, <1>13 DEF Issued
<1>15. /\ PutCopy(copied, "output", step) \in [Streams -> Seq(Op)]
       /\ PutCopy(copied, "output", step)["output"] =
            Append(copied["output"],
                   CopyAt("output", step, IF fits THEN DraftedAt ELSE SampledAt))
       /\ \A s \in Streams \ {"output"} : PutCopy(copied, "output", step)[s] = copied[s]
  <2>1. /\ PutCopy(copied, "output", step) \in [Streams -> Seq(Op)]
        /\ PutCopy(copied, "output", step)["output"] =
             Append(copied["output"],
                    CopyAt("output", step, Issued(copied, "default")))
        /\ \A s \in Streams \ {"output"} :
             PutCopy(copied, "output", step)[s] = copied[s]
    BY <1>1, CopyPut, StreamNames
  <2> QED BY <1>14, <2>1
<1>16. /\ queue' = PutCopy(copied, "output", step)
       /\ host' = IF wanted /\ ~fits THEN [host EXCEPT !.drafts = Zeros] ELSE host
       /\ event' = IF wanted
                   THEN [event EXCEPT !.counts = Issued(drafting, "counts"),
                                      !.drafts = Issued(copied, "drafts")]
                   ELSE [event EXCEPT !.counts = Issued(drafting, "counts")]
       /\ draftsOf' = IF ~wanted THEN None ELSE IF fits THEN step ELSE -step
  <2>1. CASE wanted
    BY <1>3, <1>4, <1>7, <1>9, <1>12, <2>1 DEF CopyDrafts
  <2>2. CASE ~wanted
    BY <1>3, <1>4, <1>7, <1>9, <1>12, <2>2 DEF CopyNoDrafts
  <2> QED BY <2>1, <2>2
<1>17. drafting["counts"] = counting["counts"] /\ drafting["drafts"] = counting["drafts"]
       /\ drafting["output"] = counting["output"]
  BY <1>9, StreamNames
<1>18. counting["drafts"] = sampled["drafts"] /\ counting["output"] = sampled["output"]
  BY <1>8, StreamNames
<1>19. sampled["counts"] = queue["counts"] /\ sampled["drafts"] = queue["drafts"]
       /\ sampled["output"] = queue["output"]
  BY <1>5, StreamNames
<1>20. queue'["default"] = copied["default"] /\ queue'["counts"] = copied["counts"]
       /\ queue'["drafts"] = copied["drafts"]
  BY <1>15, <1>16, StreamNames
<1>21. queue'["default"] =
         IF fits THEN Append(Append(queue["default"], Work("sample", step)),
                             Work("draft", step))
         ELSE Append(queue["default"], Work("sample", step))
  BY <1>5, <1>9, <1>10, <1>13, <1>20
<1>22. queue'["counts"] = Append(queue["counts"], CopyAt("counts", step, SampledAt))
  BY <1>8, <1>13, <1>17, <1>19, <1>20
<1>23. queue'["drafts"] =
         IF fits /\ wanted
         THEN Append(queue["drafts"], CopyAt("drafts", step, DraftedAt))
         ELSE queue["drafts"]
  BY <1>12, <1>17, <1>18, <1>19, <1>20
<1>24. /\ queue' \in [Streams -> Seq(Op)]
       /\ queue'["output"] =
            Append(queue["output"],
                   CopyAt("output", step, IF fits THEN DraftedAt ELSE SampledAt))
  BY <1>13, <1>15, <1>16, <1>17, <1>18, <1>19
<1>25. Issued(drafting, "counts") = ran["counts"] + Len(queue'["counts"])
       /\ Issued(copied, "drafts") = ran["drafts"] + Len(queue'["drafts"])
  BY <1>13, <1>20 DEF Issued
<1> QED BY <1>16, <1>21, <1>22, <1>23, <1>24, <1>25

-----------------------------------------------------------------------------
(* Every step keeps the shape.                                             *)

LEMMA InitShape == StreamsInit => Shape
<1> SUFFICES ASSUME StreamsInit PROVE Shape
  OBVIOUS
<1>1. \A s \in Streams : OwnOps(s, queue[s])
  BY DEF StreamsInit, OwnOps
<1>2. queue \in [Streams -> Seq(Op)]
  BY DEF StreamsInit
<1>3. outputs \in Seq(Output)
  BY DEF StreamsInit
<1>4. /\ step \in Nat /\ counted \in Nat
      /\ ran \in [Streams -> Nat]
      /\ event \in [{"inputs", "counts", "drafts"} -> Nat]
      /\ host \in [{"inputs", "counts", "drafts"} -> Int]
      /\ device \in [{"inputs", "sampled", "drafted", "torn"} -> SUBSET Nat]
  BY DEF StreamsInit, None
<1> QED BY <1>1, <1>2, <1>3, <1>4 DEF Shape

LEMMA ExecuteShape ==
  ASSUME Shape, ExecuteModel PROVE Shape'
<1>1. /\ queue["default"] \in Seq(Op) /\ ran["default"] \in Nat
      /\ step \in Nat /\ step + 1 \in Nat /\ step + 1 \in Int
      /\ OwnOps("default", queue["default"])
  BY StreamNames DEF Shape
<1>2. PICK copy \in Op, forward \in Op :
        copy = Work("inputs", step + 1) /\ forward = Work("forward", step + 1)
  BY <1>1, WorkOf DEF Works
<1>3. OwnOp("default", copy) /\ OwnOp("default", forward)
  BY <1>2 DEF Work, OwnOp, Works
<1>4. Append(queue["default"], copy) \in Seq(Op)
      /\ OwnOps("default", Append(queue["default"], copy))
  BY <1>1, <1>3, OwnAppended, AppendAt, StreamNames
<1>5. OwnOps("default", Append(Append(queue["default"], copy), forward))
  BY <1>3, <1>4, OwnAppended, StreamNames
<1>6. /\ queue' \in [Streams -> Seq(Op)]
      /\ queue'["default"] = Append(Append(queue["default"], copy), forward)
      /\ \A s \in Streams \ {"default"} : queue'[s] = queue[s]
      /\ event' = [event EXCEPT !.inputs =
                     ran["default"] + (Len(queue["default"]) + 1)]
  BY <1>2, ExecuteQueues
<1>7. \A s \in Streams : OwnOps(s, queue'[s])
  BY <1>5, <1>6 DEF Shape
<1>8. event' \in [{"inputs", "counts", "drafts"} -> Nat]
  <2>1. ran["default"] + (Len(queue["default"]) + 1) \in Nat
    BY <1>1
  <2> QED BY <1>6, <2>1 DEF Shape
<1>9. host' \in [{"inputs", "counts", "drafts"} -> Int]
  <2>1. host \in [{"inputs", "counts", "drafts"} -> Int]
    BY DEF Shape
  <2>2. host' = [host EXCEPT !.inputs = step + 1]
    BY DEF ExecuteModel
  <2> QED BY <1>1, <2>1, <2>2
<1>10. step' = step + 1 /\ UNCHANGED <<ran, device, counted, outputs>>
  BY DEF ExecuteModel
<1> QED BY <1>1, <1>6, <1>7, <1>8, <1>9, <1>10 DEF Shape

LEMMA SampleShape ==
  ASSUME Shape, SampleTokens PROVE Shape'
<1>1. PICK fits \in DrafterFits, wanted \in BOOLEAN :
        /\ queue' \in [Streams -> Seq(Op)]
        /\ queue'["default"] =
             IF fits THEN Append(Append(queue["default"], Work("sample", step)),
                                 Work("draft", step))
             ELSE Append(queue["default"], Work("sample", step))
        /\ queue'["counts"] =
             Append(queue["counts"], CopyAt("counts", step, SampledAt))
        /\ queue'["drafts"] =
             IF fits /\ wanted
             THEN Append(queue["drafts"], CopyAt("drafts", step, DraftedAt))
             ELSE queue["drafts"]
        /\ queue'["output"] =
             Append(queue["output"],
                    CopyAt("output", step, IF fits THEN DraftedAt ELSE SampledAt))
        /\ host' = IF wanted /\ ~fits THEN [host EXCEPT !.drafts = Zeros] ELSE host
        /\ event' = IF wanted
                    THEN [event EXCEPT !.counts = ran["counts"] + Len(queue'["counts"]),
                                       !.drafts = ran["drafts"] + Len(queue'["drafts"])]
                    ELSE [event EXCEPT !.counts = ran["counts"] + Len(queue'["counts"])]
  BY SampleQueues
<1>2. /\ queue \in [Streams -> Seq(Op)] /\ ran \in [Streams -> Nat]
      /\ step \in Nat
      /\ \A s \in Streams : OwnOps(s, queue[s])
  BY DEF Shape
<1>3. SampledAt \in Nat /\ DraftedAt \in Nat
  <2>1. ran["default"] \in Nat /\ queue["default"] \in Seq(Op)
    BY <1>2, StreamNames
  <2> QED BY <2>1 DEF SampledAt, DraftedAt
<1>4. /\ Work("sample", step) \in Op /\ Work("draft", step) \in Op
      /\ OwnOp("default", Work("sample", step)) /\ OwnOp("default", Work("draft", step))
  BY <1>2, WorkOf DEF Work, OwnOp, Works
<1>5. \A s \in Streams \ {"default"}, n \in Nat :
        CopyAt(s, step, n) \in Op /\ OwnOp(s, CopyAt(s, step, n))
  BY <1>2, CopyOfStep DEF CopyAt, OwnOp
<1>6. OwnOps("default", queue'["default"])
  <2>1. queue["default"] \in Seq(Op) /\ OwnOps("default", queue["default"])
    BY <1>2, StreamNames
  <2>2. Append(queue["default"], Work("sample", step)) \in Seq(Op)
        /\ OwnOps("default", Append(queue["default"], Work("sample", step)))
    BY <1>4, <2>1, OwnAppended, AppendAt, StreamNames
  <2>3. OwnOps("default", Append(Append(queue["default"], Work("sample", step)),
                              Work("draft", step)))
    BY <1>4, <2>2, OwnAppended, StreamNames
  <2> QED BY <1>1, <2>2, <2>3
<1>7. OwnOps("counts", queue'["counts"])
  BY <1>1, <1>2, <1>3, <1>5, OwnAppended, StreamNames
<1>8. OwnOps("drafts", queue'["drafts"])
  <2>1. OwnOps("drafts", Append(queue["drafts"], CopyAt("drafts", step, DraftedAt)))
    BY <1>2, <1>3, <1>5, OwnAppended, StreamNames
  <2> QED BY <1>1, <1>2, <2>1, StreamNames
<1>9. OwnOps("output", queue'["output"])
  <2>1. \A n \in Nat : OwnOps("output", Append(queue["output"], CopyAt("output", step, n)))
    BY <1>2, <1>5, OwnAppended, StreamNames
  <2> QED BY <1>1, <1>3, <2>1
<1>10. \A s \in Streams : OwnOps(s, queue'[s])
  BY <1>6, <1>7, <1>8, <1>9 DEF Streams
<1>11. event' \in [{"inputs", "counts", "drafts"} -> Nat]
  <2>1. queue'["counts"] \in Seq(Op) /\ queue'["drafts"] \in Seq(Op)
        /\ ran["counts"] \in Nat /\ ran["drafts"] \in Nat
    BY <1>1, <1>2, StreamNames
  <2>2. ran["counts"] + Len(queue'["counts"]) \in Nat
        /\ ran["drafts"] + Len(queue'["drafts"]) \in Nat
    BY <2>1
  <2>3. event \in [{"inputs", "counts", "drafts"} -> Nat]
    BY DEF Shape
  <2> QED BY <1>1, <2>2, <2>3
<1>12. host' \in [{"inputs", "counts", "drafts"} -> Int]
  <2>1. host \in [{"inputs", "counts", "drafts"} -> Int] /\ Zeros \in Int
    BY DEF Shape, Zeros
  <2> QED BY <1>1, <2>1
<1>13. outputs' \in Seq(Output)
  <2>1. queue["output"] \in Seq(Op) /\ ran["output"] \in Nat
    BY <1>2, StreamNames
  <2>2. ran["output"] + Len(queue["output"]) + 1 \in Nat
    BY <2>1
  <2>3. [of |-> step, event |-> ran["output"] + Len(queue["output"]) + 1] \in Output
    BY <1>2, <2>2 DEF Output
  <2>4. outputs' = Append(outputs,
          [of |-> step, event |-> ran["output"] + Len(queue["output"]) + 1])
    BY DEF SampleTokens, Issued
  <2> QED BY <2>3, <2>4 DEF Shape
<1>14. counted' = step /\ UNCHANGED <<step, ran, device>>
  BY DEF SampleTokens
<1> QED BY <1>1, <1>2, <1>10, <1>11, <1>12, <1>13, <1>14 DEF Shape

LEMMA GetOutputShape ==
  ASSUME Shape, GetOutput PROVE Shape'
<1>1. outputs' \in Seq(Output)
  BY DEF Shape, GetOutput
<1> QED BY <1>1 DEF Shape, GetOutput

\* What the GPU changes: the queue of one stream, and what it computed.
LEMMA GpuQueues ==
  ASSUME Shape, NEW s \in Streams, Gpu(s)
  PROVE  /\ queue[s] \in Seq(Op) /\ queue[s] # <<>>
         /\ queue[s][1] \in Op /\ OwnOp(s, queue[s][1])
         /\ queue' \in [Streams -> Seq(Op)]
         /\ queue'[s] = Tail(queue[s])
         /\ \A t \in Streams \ {s} : queue'[t] = queue[t]
         /\ \A t \in Streams : OwnOps(t, queue'[t])
         /\ ran' \in [Streams -> Nat]
         /\ ran'[s] = ran[s] + 1
         /\ \A t \in Streams \ {s} : ran'[t] = ran[t]
<1>1. /\ queue[s] \in Seq(Op) /\ queue[s] # <<>>
      /\ OwnOps(s, queue[s])
  BY DEF Shape, Gpu
<1>2. /\ queue[s][1] \in Op /\ OwnOp(s, queue[s][1])
      /\ Tail(queue[s]) \in Seq(Op) /\ OwnOps(s, Tail(queue[s]))
  BY <1>1, OwnTail
<1>3. /\ queue' = [queue EXCEPT ![s] = Tail(queue[s])]
      /\ ran' = [ran EXCEPT ![s] = ran[s] + 1]
  BY DEF Gpu
<1>4. /\ queue' \in [Streams -> Seq(Op)]
      /\ queue'[s] = Tail(queue[s])
      /\ \A t \in Streams \ {s} : queue'[t] = queue[t]
  BY <1>2, <1>3 DEF Shape
<1>5. /\ ran' \in [Streams -> Nat]
      /\ ran'[s] = ran[s] + 1
      /\ \A t \in Streams \ {s} : ran'[t] = ran[t]
  BY <1>3 DEF Shape
<1>6. \A t \in Streams : OwnOps(t, queue'[t])
  BY <1>2, <1>4 DEF Shape
<1> QED BY <1>1, <1>2, <1>4, <1>5, <1>6

\* What an operation of the default stream computes.
LEMMA ComputeEffect ==
  ASSUME Shape, Gpu("default")
  PROVE  LET op == queue["default"][1] IN
         /\ UNCHANGED host
         /\ device' \in [{"inputs", "sampled", "drafted", "torn"} -> SUBSET Nat]
         /\ op.do = "inputs" => (host.inputs = op.of => device'.torn = device.torn)
         /\ op.do # "inputs" => device'.torn = device.torn
         /\ device.sampled \subseteq device'.sampled
         /\ device.drafted \subseteq device'.drafted
         /\ op.do = "sample" => op.of \in device'.sampled
         /\ op.do = "draft" => op.of \in device'.drafted
<1>1. queue["default"][1] \in Op /\ OwnOp("default", queue["default"][1])
  BY GpuQueues, StreamNames
<1>2. PICK op \in Op : op = queue["default"][1]
  BY <1>1
<1>3. op.do \in Works /\ op.of \in Nat
  BY <1>1, <1>2 DEF OwnOp, Op
<1>4. Compute(op)
  BY <1>2 DEF Gpu
<1>5. device \in [{"inputs", "sampled", "drafted", "torn"} -> SUBSET Nat]
  BY DEF Shape
<1>6. CASE op.do = "inputs"
  BY <1>2, <1>3, <1>4, <1>5, <1>6 DEF Compute
<1>7. CASE op.do = "sample"
  BY <1>2, <1>3, <1>4, <1>5, <1>7 DEF Compute
<1>8. CASE op.do = "draft"
  BY <1>2, <1>3, <1>4, <1>5, <1>8 DEF Compute
<1>9. CASE op.do = "forward"
  BY <1>2, <1>3, <1>4, <1>5, <1>9 DEF Compute
<1> QED BY <1>3, <1>6, <1>7, <1>8, <1>9 DEF Works

\* What a copy leaves on the host.
LEMMA CopyEffect ==
  ASSUME Shape, NEW s \in Streams \ {"default"}, Gpu(s)
  PROVE  LET op == queue[s][1] IN
         /\ UNCHANGED device
         /\ host' = CASE s = "counts" -> [host EXCEPT !.counts = Computed("sampled", op.of)]
                      [] s = "drafts" -> [host EXCEPT !.drafts = Computed("drafted", op.of)]
                      [] s = "output" -> host
         /\ host' \in [{"inputs", "counts", "drafts"} -> Int]
<1>1. queue[s][1] \in Op /\ OwnOp(s, queue[s][1])
  BY GpuQueues
<1>2. PICK op \in Op : op = queue[s][1]
  BY <1>1
<1>3. op.do = s /\ op.of \in Nat
  BY <1>1, <1>2 DEF OwnOp, Op
<1>4. Copy(op)
  BY <1>2 DEF Gpu
<1>5. Computed("sampled", op.of) \in Int /\ Computed("drafted", op.of) \in Int
  BY <1>3 DEF Computed, None
<1>6. host \in [{"inputs", "counts", "drafts"} -> Int]
  BY DEF Shape
<1>7. s \in {"counts", "drafts", "output"}
  BY DEF Streams
<1>8. CASE s = "counts"
  BY <1>2, <1>3, <1>4, <1>5, <1>6, <1>8 DEF Copy
<1>9. CASE s = "drafts"
  BY <1>2, <1>3, <1>4, <1>5, <1>6, <1>9 DEF Copy
<1>10. CASE s = "output"
  BY <1>2, <1>3, <1>4, <1>5, <1>6, <1>10 DEF Copy
<1> QED BY <1>7, <1>8, <1>9, <1>10

LEMMA GpuShape ==
  ASSUME Shape, NEW s \in Streams, Gpu(s) PROVE Shape'
<1>1. UNCHANGED <<step, event, counted, outputs>>
  BY DEF Gpu
<1>2. /\ queue' \in [Streams -> Seq(Op)]
      /\ \A t \in Streams : OwnOps(t, queue'[t])
      /\ ran' \in [Streams -> Nat]
  BY GpuQueues
<1>3. /\ host' \in [{"inputs", "counts", "drafts"} -> Int]
      /\ device' \in [{"inputs", "sampled", "drafted", "torn"} -> SUBSET Nat]
  <2>1. CASE s = "default"
    BY <2>1, ComputeEffect DEF Shape
  <2>2. CASE s # "default"
    BY <2>2, CopyEffect DEF Shape
  <2> QED BY <2>1, <2>2
<1> QED BY <1>1, <1>2, <1>3 DEF Shape

-----------------------------------------------------------------------------
(* The inputs.                                                             *)

LEMMA InputsWhenAppended ==
  ASSUME NEW q \in Seq(Op), NEW op \in Op, NEW k, NEW n, NEW position,
         InputsIn(q, k, n, position),
         op.do = "inputs" => op.of = n /\ k + (Len(q) + 1) <= position
  PROVE  InputsIn(Append(q, op), k, n, position)
<1>1. PICK a \in Seq(Op) : a = Append(q, op)
  BY AppendAt
<1>2. /\ DOMAIN a = DOMAIN q \union {Len(q) + 1}
      /\ \A i \in DOMAIN q : a[i] = q[i]
      /\ a[Len(q) + 1] = op
  BY <1>1, AppendAt
<1> QED BY <1>1, <1>2 DEF InputsIn

LEMMA InputsWhenExecuted ==
  ASSUME NEW q \in Seq(Op), q # <<>>, NEW k \in Nat, NEW n, NEW position \in Nat,
         InputsIn(q, k, n, position)
  PROVE  /\ InputsIn(Tail(q), k + 1, n, position)
         /\ q[1].do = "inputs" => q[1].of = n
<1>1. PICK t \in Seq(Op) : t = Tail(q)
  BY TailAt
<1>2. ASSUME NEW i \in DOMAIN t, t[i].do = "inputs"
      PROVE  t[i].of = n /\ k + 1 + i <= position
  <2>1. i + 1 \in DOMAIN q /\ t[i] = q[i + 1]
    BY <1>1, TailAt
  <2>2. q[i + 1].of = n /\ k + (i + 1) <= position
    BY <1>2, <2>1 DEF InputsIn
  <2>3. i \in Nat
    BY <1>1
  <2> QED BY <2>1, <2>2, <2>3
<1> QED BY <1>1, <1>2, TailAt DEF InputsIn

LEMMA InitInputs == StreamsInit => InputsInv
<1> SUFFICES ASSUME StreamsInit PROVE InputsInv
  OBVIOUS
<1>1. queue["default"] = <<>>
  BY StreamNames DEF StreamsInit
<1>2. InputsPending
  BY <1>1 DEF StreamsInit, InputsPending, InputsIn, InputsUntorn
<1> QED BY <1>2, InitShape DEF InputsInv

\* The start of a step overwrites inputs that have been copied.
LEMMA ExecuteInputs ==
  ASSUME InputsInv, ExecuteModel PROVE InputsInv'
<1>1. Shape /\ InputsPending /\ Shape'
  BY ExecuteShape DEF InputsInv
<1>2. /\ queue["default"] \in Seq(Op) /\ ran["default"] \in Nat
      /\ event.inputs \in Nat
      /\ step \in Nat /\ step + 1 \in Nat
  BY <1>1, StreamNames DEF Shape
<1>3. PICK d \in Seq(Op), k \in Nat : d = queue["default"] /\ k = ran["default"]
  BY <1>2
<1>4. PICK copy \in Op, forward \in Op :
        copy = Work("inputs", step + 1) /\ forward = Work("forward", step + 1)
  BY <1>2, WorkOf DEF Works
<1>5. copy.do = "inputs" /\ copy.of = step + 1 /\ forward.do = "forward"
  BY <1>4 DEF Work
<1>6. /\ queue'["default"] = Append(Append(d, copy), forward)
      /\ event' = [event EXCEPT !.inputs = k + (Len(d) + 1)]
  BY <1>1, <1>3, <1>4, ExecuteQueues
<1>7. \A i \in DOMAIN d : d[i].do # "inputs"
  <2>1. event.inputs <= k
    BY <1>2, <1>3 DEF ExecuteModel, InputsReusable, Reached
  <2>2. ASSUME NEW i \in DOMAIN d, d[i].do = "inputs" PROVE FALSE
    <3>1. k + i <= event.inputs
      BY <1>1, <1>3, <2>2 DEF InputsPending, InputsIn
    <3> QED BY <1>2, <2>1, <3>1
  <2> QED BY <2>2
<1>8. k + (Len(d) + 1) <= k + (Len(d) + 1)
  BY <1>3
<1>9. InputsIn(d, k, step + 1, k + (Len(d) + 1))
  BY <1>7 DEF InputsIn
<1>10. InputsIn(Append(d, copy), k, step + 1, k + (Len(d) + 1))
  BY <1>5, <1>8, <1>9, InputsWhenAppended
<1>11. InputsIn(Append(Append(d, copy), forward), k, step + 1, k + (Len(d) + 1))
  BY <1>5, <1>10, InputsWhenAppended, AppendAt
<1>12. host'.inputs = step + 1 /\ event'.inputs = k + (Len(d) + 1)
  <2>1. host' = [host EXCEPT !.inputs = step + 1]
    BY DEF ExecuteModel
  <2> QED BY <1>1, <1>6, <2>1 DEF Shape
<1>13. UNCHANGED <<ran, device>>
  BY DEF ExecuteModel
<1>14. InputsPending'
  BY <1>1, <1>3, <1>6, <1>11, <1>12, <1>13 DEF InputsPending, InputsUntorn
<1> QED BY <1>1, <1>14 DEF InputsInv

LEMMA SampleInputs ==
  ASSUME InputsInv, SampleTokens PROVE InputsInv'
<1>1. Shape /\ InputsPending /\ Shape'
  BY SampleShape DEF InputsInv
<1>2. PICK sample \in Op, draft \in Op :
        sample = Work("sample", step) /\ draft = Work("draft", step)
  BY <1>1, WorkOf DEF Works, Shape
<1>3. sample.do = "sample" /\ draft.do = "draft"
  BY <1>2 DEF Work
<1>4. /\ \/ queue'["default"] = Append(Append(queue["default"], sample), draft)
         \/ queue'["default"] = Append(queue["default"], sample)
      /\ host'.inputs = host.inputs
      /\ event'.inputs = event.inputs
  <2>1. host \in [{"inputs", "counts", "drafts"} -> Int]
        /\ event \in [{"inputs", "counts", "drafts"} -> Nat]
    BY <1>1 DEF Shape
  <2> QED BY <1>1, <1>2, <2>1, SampleQueues
<1>5. UNCHANGED <<ran, device>>
  BY DEF SampleTokens
<1>6. queue["default"] \in Seq(Op)
  BY <1>1, StreamNames DEF Shape
<1>7. InputsIn(Append(queue["default"], sample), ran["default"], host.inputs,
               event.inputs)
  BY <1>1, <1>3, <1>6, InputsWhenAppended DEF InputsPending
<1>8. InputsIn(Append(Append(queue["default"], sample), draft), ran["default"],
               host.inputs, event.inputs)
  BY <1>3, <1>6, <1>7, InputsWhenAppended, AppendAt
<1>9. InputsPending'
  BY <1>1, <1>4, <1>5, <1>7, <1>8 DEF InputsPending, InputsUntorn
<1> QED BY <1>1, <1>9 DEF InputsInv

\* The GPU copies the inputs while they are of the step.
LEMMA GpuInputs ==
  ASSUME InputsInv, NEW s \in Streams, Gpu(s) PROVE InputsInv'
<1>1. Shape /\ InputsPending /\ Shape'
  BY GpuShape DEF InputsInv
<1>2. UNCHANGED event /\ event.inputs \in Nat
  BY <1>1 DEF Gpu, Shape
<1>3. CASE s = "default"
  <2>1. /\ queue["default"] \in Seq(Op) /\ queue["default"] # <<>>
        /\ queue'["default"] = Tail(queue["default"])
        /\ ran'["default"] = ran["default"] + 1
    BY <1>1, <1>3, GpuQueues
  <2>2. ran["default"] \in Nat
    BY <1>1, StreamNames DEF Shape
  <2>3. /\ InputsIn(Tail(queue["default"]), ran["default"] + 1, host.inputs,
                    event.inputs)
        /\ queue["default"][1].do = "inputs" =>
             queue["default"][1].of = host.inputs
    BY <1>1, <1>2, <2>1, <2>2, InputsWhenExecuted DEF InputsPending
  <2>4. UNCHANGED host /\ device'.torn = device.torn
    BY <1>1, <1>3, <2>3, ComputeEffect
  <2>5. InputsPending'
    BY <1>1, <1>2, <2>1, <2>3, <2>4 DEF InputsPending, InputsUntorn
  <2> QED BY <1>1, <2>5 DEF InputsInv
<1>4. CASE s # "default"
  <2>1. queue'["default"] = queue["default"] /\ ran'["default"] = ran["default"]
    BY <1>1, <1>4, GpuQueues, StreamNames
  <2>2. UNCHANGED device /\ host'.inputs = host.inputs
    <3>1. host \in [{"inputs", "counts", "drafts"} -> Int]
          /\ s \in {"counts", "drafts", "output"}
      BY <1>1, <1>4 DEF Shape, Streams
    <3> QED BY <1>1, <1>4, <3>1, CopyEffect
  <2>3. InputsPending'
    BY <1>1, <1>2, <2>1, <2>2 DEF InputsPending, InputsUntorn
  <2> QED BY <1>1, <2>3 DEF InputsInv
<1> QED BY <1>3, <1>4

\* What only reads on the host leaves the streams and the inputs alone.
LEMMA ReaderInputs ==
  ASSUME InputsInv, Correct \/ TakeDrafts \/ GetOutput \/ UNCHANGED streamVars
  PROVE  InputsInv'
<1>1. UNCHANGED <<step, queue, ran, event, host, device, counted>>
  BY DEF Correct, TakeDrafts, GetOutput, streamVars
<1>2. Shape'
  <2>1. CASE GetOutput
    BY <2>1, GetOutputShape DEF InputsInv
  <2>2. CASE UNCHANGED outputs
    BY <1>1, <2>2 DEF InputsInv, Shape
  <2> QED BY <2>1, <2>2 DEF Correct, TakeDrafts, streamVars
<1>3. InputsPending'
  BY <1>1 DEF InputsInv, InputsPending, InputsUntorn
<1> QED BY <1>2, <1>3 DEF InputsInv

(***************************************************************************)
(* The copy of the inputs to the GPU, which the stream executes long after *)
(* _prepare_inputs queued it, never finds the next step's inputs in the    *)
(* buffers: for any number of steps, drafters that fit or not.             *)
(***************************************************************************)
THEOREM InputsAreUntorn == StreamsSpec => []InputsUntorn
<1>1. StreamsInit => InputsInv
  BY InitInputs
<1>2. InputsInv /\ [StreamsNext]_streamVars => InputsInv'
  <2> SUFFICES ASSUME InputsInv, [StreamsNext]_streamVars PROVE InputsInv'
    OBVIOUS
  <2>1. CASE ExecuteModel
    BY <2>1, ExecuteInputs
  <2>2. CASE SampleTokens
    BY <2>2, SampleInputs
  <2>3. CASE Correct \/ TakeDrafts \/ GetOutput \/ UNCHANGED streamVars
    BY <2>3, ReaderInputs
  <2>4. CASE \E s \in Streams : Gpu(s)
    BY <2>4, GpuInputs
  <2> QED BY <2>1, <2>2, <2>3, <2>4 DEF StreamsNext
<1>3. InputsInv => InputsUntorn
  BY DEF InputsInv, InputsPending
<1> QED BY <1>1, <1>2, <1>3, PTL DEF StreamsSpec

-----------------------------------------------------------------------------
(* What the host reads.                                                    *)

LEMMA WaitsForMore ==
  ASSUME NEW c \in Seq(Op), NEW done, NEW q \in Seq(Op), NEW k \in Nat, NEW do,
         NEW op \in Op, WaitsIn(c, done, q, k, do)
  PROVE  WaitsIn(c, done, Append(q, op), k, do)
<1> SUFFICES ASSUME NEW i \in DOMAIN c
             PROVE  DoneBy(done, Append(q, op), k, do, c[i].of, c[i].after)
  BY DEF WaitsIn
<1>1. c[i].of \in Nat /\ c[i].after \in Nat
  BY OpFields
<1>2. DoneBy(done, q, k, do, c[i].of, c[i].after)
  BY DEF WaitsIn
<1> QED BY <1>1, <1>2, DoneWhenAppended

LEMMA WaitsWhenAppended ==
  ASSUME NEW c \in Seq(Op), NEW done, NEW q, NEW k, NEW do,
         NEW op \in Op, WaitsIn(c, done, q, k, do),
         DoneBy(done, q, k, do, op.of, op.after)
  PROVE  WaitsIn(Append(c, op), done, q, k, do)
<1>1. PICK a \in Seq(Op) : a = Append(c, op)
  BY AppendAt
<1>2. /\ DOMAIN a = DOMAIN c \union {Len(c) + 1}
      /\ \A i \in DOMAIN c : a[i] = c[i]
      /\ a[Len(c) + 1] = op
  BY <1>1, AppendAt
<1> QED BY <1>1, <1>2 DEF WaitsIn

LEMMA WaitsWhenExecuted ==
  ASSUME NEW c \in Seq(Op), NEW done, NEW now, done \subseteq now,
         NEW q \in Seq(Op), q # <<>>, NEW k \in Nat, NEW do,
         q[1].do = do => q[1].of \in now,
         WaitsIn(c, done, q, k, do)
  PROVE  WaitsIn(c, now, Tail(q), k + 1, do)
<1> SUFFICES ASSUME NEW i \in DOMAIN c
             PROVE  DoneBy(now, Tail(q), k + 1, do, c[i].of, c[i].after)
  BY DEF WaitsIn
<1>1. c[i].of \in Nat /\ c[i].after \in Nat
  BY OpFields
<1>2. DoneBy(done, q, k, do, c[i].of, c[i].after)
  BY DEF WaitsIn
<1> QED BY <1>1, <1>2, DoneWhenExecuted

\* A copy that may run has what it copies.
LEMMA WaitsAtHead ==
  ASSUME NEW c \in Seq(Op), c # <<>>, NEW done, NEW q \in Seq(Op), NEW k \in Nat,
         NEW do, WaitsIn(c, done, q, k, do)
  PROVE  /\ WaitsIn(Tail(c), done, q, k, do)
         /\ k >= c[1].after => c[1].of \in done
<1>1. PICK t \in Seq(Op) : t = Tail(c)
  BY TailAt
<1>2. \A i \in DOMAIN t : i + 1 \in DOMAIN c /\ t[i] = c[i + 1]
  BY <1>1, TailAt
<1>3. WaitsIn(t, done, q, k, do)
  BY <1>2 DEF WaitsIn
<1>4. 1 \in DOMAIN c /\ c[1].of \in Nat /\ c[1].after \in Nat
  BY TailAt, OpFields
<1>5. DoneBy(done, q, k, do, c[1].of, c[1].after)
  BY <1>4 DEF WaitsIn
<1>6. k >= c[1].after => c[1].of \in done
  BY <1>4, <1>5, DoneAtPosition
<1> QED BY <1>1, <1>3, <1>6

LEMMA FinallyAppended ==
  ASSUME NEW c \in Seq(Op), NEW op \in Op, NEW held
  PROVE  Finally(Append(c, op), held) = op.of
<1>1. Append(c, op) # <<>> /\ Len(Append(c, op)) = Len(c) + 1
      /\ Append(c, op)[Len(c) + 1] = op
  BY AppendAt
<1> QED BY <1>1 DEF Finally

LEMMA FinallyTail ==
  ASSUME NEW c \in Seq(Op), c # <<>>, NEW held
  PROVE  Finally(Tail(c), c[1].of) = Finally(c, held)
<1>1. CASE Tail(c) = <<>>
  <2>1. Len(c) = 1
    <3>1. PICK n \in Nat : n = Len(c)
      OBVIOUS
    <3>2. Len(Tail(c)) = n - 1
      BY <3>1, TailAt
    <3>3. Len(Tail(c)) = 0
      <4>1. \A t \in Seq(Op) : t = <<>> => Len(t) = 0
        OBVIOUS
      <4>2. Tail(c) \in Seq(Op)
        BY TailAt
      <4> QED BY <1>1, <4>1, <4>2
    <3>4. n - 1 = 0
      BY <3>2, <3>3
    <3>5. n = 1
      BY <3>4
    <3> QED BY <3>1, <3>5
  <2> QED BY <1>1, <2>1 DEF Finally
<1>2. CASE Tail(c) # <<>>
  <2>1. Len(Tail(c)) = Len(c) - 1 /\ Tail(c)[Len(c) - 1] = c[Len(c)]
    BY <1>2
  <2> QED BY <1>2, <2>1 DEF Finally
<1> QED BY <1>1, <1>2

LEMMA CopyOfAppended ==
  ASSUME NEW done, NEW q \in Seq(Op), NEW k, NEW output, NEW op \in Op,
         CopyOf(done, q, k, output)
  PROVE  CopyOf(done, Append(q, op), k, output)
BY AppendAt DEF CopyOf

LEMMA CopyOfExecuted ==
  ASSUME NEW done, NEW q \in Seq(Op), q # <<>>, NEW k \in Nat, NEW output,
         q[1].of \in done, CopyOf(done, q, k, output)
  PROVE  CopyOf(done, Tail(q), k + 1, output)
<1>1. ASSUME NEW j \in DOMAIN q, q[j].of = output.of, k + j = output.event
      PROVE  CopyOf(done, Tail(q), k + 1, output)
  <2>1. CASE j = 1
    BY <1>1, <2>1 DEF CopyOf
  <2>2. CASE j # 1
    <3>1. j - 1 \in DOMAIN Tail(q) /\ Tail(q)[j - 1] = q[j]
      BY <2>2
    <3>2. k + 1 + (j - 1) = output.event
      BY <1>1
    <3> QED BY <1>1, <3>1, <3>2 DEF CopyOf
  <2> QED BY <2>1, <2>2
<1> QED BY <1>1 DEF CopyOf

\* Once the event of a stream is reached, the host holds what is wanted.
LEMMA HeldWhenReached ==
  ASSUME ReadsInv
  PROVE  /\ Reached(event.counts, "counts") => host.counts = counted
         /\ draftsOf # None /\ DraftsReady => host.drafts = draftsOf
<1>1. /\ queue["counts"] \in Seq(Op) /\ queue["drafts"] \in Seq(Op)
      /\ ran["counts"] \in Nat /\ ran["drafts"] \in Nat
  BY StreamNames DEF ReadsInv, Shape
<1>2. \A c \in Seq(Op), k \in Nat : k >= k + Len(c) => c = <<>>
  OBVIOUS
<1>3. LastWanted
  BY DEF ReadsInv, CopiesPending
<1>4. Reached(event.counts, "counts") => queue["counts"] = <<>>
  BY <1>1, <1>2, <1>3 DEF LastWanted, Reached
<1>5. DraftsReady => queue["drafts"] = <<>>
  BY <1>1, <1>2, <1>3 DEF LastWanted, DraftsReady, Reached
<1> QED BY <1>3, <1>4, <1>5 DEF LastWanted, Finally

LEMMA InitReads == StreamsInit => ReadsInv
<1> SUFFICES ASSUME StreamsInit PROVE ReadsInv
  OBVIOUS
<1>1. /\ \A s \in Streams : queue[s] = <<>> /\ ran[s] = 0
      /\ outputs = <<>>
      /\ draftsOf = 0 /\ counted = 0
      /\ event.counts = 0 /\ event.drafts = 0
      /\ host.counts = 0
  BY DEF StreamsInit, None
<1>2. CopiesWait
  BY <1>1, StreamNames DEF CopiesWait, WaitsIn
<1>3. OutputsCome
  BY <1>1 DEF OutputsCome
<1>4. LastWanted
  BY <1>1, StreamNames DEF LastWanted, Finally, None
<1>5. ReadsOfTheirStep
  BY DEF StreamsInit, ReadsOfTheirStep, None
<1> QED BY <1>2, <1>3, <1>4, <1>5, InitShape DEF ReadsInv, CopiesPending

LEMMA ExecuteReads ==
  ASSUME ReadsInv, ExecuteModel PROVE ReadsInv'
<1>1. Shape /\ CopiesWait /\ OutputsCome /\ LastWanted /\ ReadsOfTheirStep /\ Shape'
  BY ExecuteShape DEF ReadsInv, CopiesPending
<1>2. /\ queue \in [Streams -> Seq(Op)] /\ ran \in [Streams -> Nat]
      /\ step + 1 \in Nat
  BY SMTT(30), <1>1 DEF Shape
<1>3. PICK copy \in Op, forward \in Op :
        copy = Work("inputs", step + 1) /\ forward = Work("forward", step + 1)
  BY <1>2, WorkOf DEF Works
<1>4. /\ queue'["default"] = Append(Append(queue["default"], copy), forward)
      /\ queue'["counts"] = queue["counts"] /\ queue'["drafts"] = queue["drafts"]
      /\ queue'["output"] = queue["output"]
  BY <1>1, <1>3, ExecuteQueues, StreamNames
<1>5. event'.counts = event.counts /\ event'.drafts = event.drafts
      /\ host'.counts = host.counts /\ host'.drafts = host.drafts
  <2>1. host \in [{"inputs", "counts", "drafts"} -> Int]
        /\ event \in [{"inputs", "counts", "drafts"} -> Nat]
    BY <1>1 DEF Shape
  <2>2. host' = [host EXCEPT !.inputs = step + 1]
        /\ event' = [event EXCEPT !.inputs =
                       ran["default"] + (Len(queue["default"]) + 1)]
    BY <1>1, ExecuteQueues DEF ExecuteModel
  <2> QED BY <2>1, <2>2
<1>6. UNCHANGED <<ran, device, counted, draftsOf, outputs, read>>
  BY DEF ExecuteModel
<1>7. /\ queue["default"] \in Seq(Op) /\ queue["counts"] \in Seq(Op)
      /\ queue["drafts"] \in Seq(Op) /\ queue["output"] \in Seq(Op)
      /\ ran["default"] \in Nat
      /\ Append(queue["default"], copy) \in Seq(Op)
  BY <1>2, AppendAt, StreamNames
<1>8. CopiesWait'
  <2>1. \A c \in Seq(Op) : \A done, do :
          WaitsIn(c, done, queue["default"], ran["default"], do) =>
            WaitsIn(c, done, Append(Append(queue["default"], copy), forward),
                    ran["default"], do)
    <3> SUFFICES ASSUME NEW c \in Seq(Op), NEW done, NEW do,
                        WaitsIn(c, done, queue["default"], ran["default"], do)
                 PROVE  WaitsIn(c, done,
                                Append(Append(queue["default"], copy), forward),
                                ran["default"], do)
      OBVIOUS
    <3>1. WaitsIn(c, done, Append(queue["default"], copy), ran["default"], do)
      BY <1>7, WaitsForMore
    <3> QED BY <1>7, <3>1, WaitsForMore
  <2> QED BY <1>1, <1>4, <1>6, <1>7, <2>1 DEF CopiesWait
<1>9. OutputsCome' /\ LastWanted' /\ ReadsOfTheirStep'
  BY <1>1, <1>4, <1>5, <1>6 DEF OutputsCome, LastWanted, ReadsOfTheirStep
<1> QED BY <1>1, <1>8, <1>9 DEF ReadsInv, CopiesPending

\* What the end of a step queues waits for what it copies; what the host reads
\* of the step before has been copied.
LEMMA SampleReads ==
  ASSUME DrafterFits = {TRUE}, ReadsInv, SampleTokens PROVE ReadsInv'
<1>1. Shape /\ CopiesWait /\ OutputsCome /\ LastWanted /\ ReadsOfTheirStep /\ Shape'
  BY SampleShape DEF ReadsInv, CopiesPending
<1>2. /\ queue \in [Streams -> Seq(Op)] /\ ran \in [Streams -> Nat]
      /\ step \in Nat
  BY <1>1 DEF Shape
<1>3. PICK d \in Seq(Op), c \in Seq(Op), f \in Seq(Op), o \in Seq(Op), k \in Nat :
        /\ d = queue["default"] /\ c = queue["counts"] /\ f = queue["drafts"]
        /\ o = queue["output"] /\ k = ran["default"]
  BY <1>2, StreamNames
<1>4. PICK n \in Nat : n = k + (Len(d) + 1)
  OBVIOUS
<1>5. PICK m \in Nat : m = k + (Len(d) + 1 + 1)
  OBVIOUS
<1>6. n = SampledAt /\ m = DraftedAt
  BY <1>3, <1>4, <1>5 DEF SampledAt, DraftedAt
<1>7. PICK sample \in Op, draft \in Op, count \in Op, copy \in Op, last \in Op :
        /\ sample = Work("sample", step) /\ draft = Work("draft", step)
        /\ count = CopyAt("counts", step, n) /\ copy = CopyAt("drafts", step, m)
        /\ last = CopyAt("output", step, m)
  <2>1. Work("sample", step) \in Op /\ Work("draft", step) \in Op
    BY <1>2, WorkOf DEF Works
  <2>2. CopyAt("counts", step, n) \in Op /\ CopyAt("drafts", step, m) \in Op
        /\ CopyAt("output", step, m) \in Op
    BY <1>2, CopyOfStep, StreamNames
  <2> QED BY <2>1, <2>2
<1>8. /\ sample.do = "sample" /\ sample.of = step
      /\ draft.do = "draft" /\ draft.of = step
      /\ count.of = step /\ count.after = n
      /\ copy.of = step /\ copy.after = m
      /\ last.of = step /\ last.after = m
  BY <1>7 DEF Work, CopyAt
<1>9. PICK wanted \in BOOLEAN :
        /\ queue'["default"] = Append(Append(d, sample), draft)
        /\ queue'["counts"] = Append(c, count)
        /\ queue'["drafts"] = IF wanted THEN Append(f, copy) ELSE f
        /\ queue'["output"] = Append(o, last)
        /\ host' = host
        /\ event' = IF wanted
                    THEN [event EXCEPT !.counts = ran["counts"] + Len(queue'["counts"]),
                                       !.drafts = ran["drafts"] + Len(queue'["drafts"])]
                    ELSE [event EXCEPT !.counts = ran["counts"] + Len(queue'["counts"])]
        /\ draftsOf' = IF wanted THEN step ELSE None
  BY <1>1, <1>3, <1>6, <1>7, SampleQueues
<1>10. UNCHANGED <<ran, device>> /\ counted' = step
  BY DEF SampleTokens
<1>11. PICK s \in Seq(Op) : s = Append(d, sample) /\ Len(s) = Len(d) + 1
  BY AppendAt
<1>12. PICK e \in Seq(Op) : e = Append(s, draft)
  BY AppendAt
<1>13. \A q \in Seq(Op) : \A done, do :
         WaitsIn(q, done, d, k, do) => WaitsIn(q, done, e, k, do)
  <2> SUFFICES ASSUME NEW q \in Seq(Op), NEW done, NEW do, WaitsIn(q, done, d, k, do)
               PROVE  WaitsIn(q, done, e, k, do)
    OBVIOUS
  <2>1. WaitsIn(q, done, s, k, do)
    BY <1>11, WaitsForMore
  <2> QED BY <1>12, <2>1, WaitsForMore
<1>14. \A done : DoneBy(done, e, k, "sample", step, n)
                 /\ DoneBy(done, e, k, "sample", step, m)
                 /\ DoneBy(done, e, k, "draft", step, m)
  <2> SUFFICES ASSUME NEW done
               PROVE  /\ DoneBy(done, e, k, "sample", step, n)
                      /\ DoneBy(done, e, k, "sample", step, m)
                      /\ DoneBy(done, e, k, "draft", step, m)
    OBVIOUS
  <2>1. Len(d) + 1 \in DOMAIN s /\ s[Len(d) + 1] = sample
    BY <1>11, AppendAt
  <2>2. /\ Len(d) + 1 \in DOMAIN e /\ e[Len(d) + 1] = sample
        /\ Len(s) + 1 \in DOMAIN e /\ e[Len(s) + 1] = draft
    BY <1>12, <2>1, AppendAt
  <2>3. /\ k + (Len(d) + 1) <= n /\ k + (Len(d) + 1) <= m /\ k + (Len(s) + 1) <= m
    BY <1>4, <1>5, <1>11
  <2> QED BY <1>8, <2>2, <2>3 DEF DoneBy
<1>15. CopiesWait'
  <2>1. /\ WaitsIn(c, device.sampled, e, k, "sample")
        /\ WaitsIn(o, device.sampled, e, k, "sample")
        /\ WaitsIn(f, device.drafted, e, k, "draft")
    BY <1>1, <1>3, <1>13 DEF CopiesWait
  <2>2. WaitsIn(Append(c, count), device.sampled, e, k, "sample")
    BY <1>8, <1>14, <2>1, WaitsWhenAppended
  <2>3. WaitsIn(Append(o, last), device.sampled, e, k, "sample")
    BY <1>8, <1>14, <2>1, WaitsWhenAppended
  <2>4. WaitsIn(Append(f, copy), device.drafted, e, k, "draft")
    BY <1>8, <1>14, <2>1, WaitsWhenAppended
  <2> QED BY <1>3, <1>9, <1>10, <1>11, <1>12, <2>1, <2>2, <2>3, <2>4 DEF CopiesWait
<1>16. OutputsCome'
  <2>1. outputs \in Seq(Output) /\ ran["output"] \in Nat
    BY <1>1, <1>2, StreamNames DEF Shape
  <2>2. PICK new \in Output : new = [of |-> step, event |-> ran["output"] + (Len(o) + 1)]
    <3>1. ran["output"] + (Len(o) + 1) \in Nat
      BY <2>1
    <3> QED BY <1>2, <3>1 DEF Output
  <2>3. outputs' = Append(outputs, new)
    <3>1. ran["output"] + Len(o) + 1 = ran["output"] + (Len(o) + 1)
      <4>1. \A x, y \in Nat : x + y + 1 = x + (y + 1)
        OBVIOUS
      <4>2. Len(o) \in Nat
        OBVIOUS
      <4> QED BY <2>1, <4>1, <4>2
    <3> QED BY <1>3, <2>2, <3>1 DEF SampleTokens, Issued
  <2>4. \A i \in DOMAIN outputs :
          CopyOf(device.sampled, Append(o, last), ran["output"], outputs[i])
    BY <1>1, <1>3, CopyOfAppended DEF OutputsCome
  <2>5. CopyOf(device.sampled, Append(o, last), ran["output"], new)
    <3>1. Len(o) + 1 \in DOMAIN Append(o, last) /\ Append(o, last)[Len(o) + 1] = last
      BY AppendAt
    <3> QED BY <1>8, <2>2, <3>1 DEF CopyOf
  <2>6. \A i \in DOMAIN outputs' :
          CopyOf(device.sampled, Append(o, last), ran["output"], outputs'[i])
    <3>1. /\ DOMAIN outputs' = DOMAIN outputs \union {Len(outputs) + 1}
          /\ \A i \in DOMAIN outputs : outputs'[i] = outputs[i]
          /\ outputs'[Len(outputs) + 1] = new
      BY SMTT(30), <2>1, <2>3, AppendAt
    <3> QED BY <2>4, <2>5, <3>1
  <2> QED BY <1>9, <1>10, <2>6 DEF OutputsCome
<1>17. LastWanted'
  <2>1. event \in [{"inputs", "counts", "drafts"} -> Nat]
    BY <1>1 DEF Shape
  <2>2. event'.counts = ran'["counts"] + Len(queue'["counts"])
    BY <1>9, <1>10, <2>1
  <2>3. event'.drafts = ran'["drafts"] + Len(queue'["drafts"])
    BY <1>1, <1>3, <1>9, <1>10, <2>1 DEF LastWanted
  <2>4. Finally(queue'["counts"], host'.counts) = counted'
    BY <1>8, <1>9, <1>10, FinallyAppended
  <2>5. draftsOf' \in Nat
    BY <1>2, <1>9 DEF None
  <2>6. draftsOf' # None => Finally(queue'["drafts"], host'.drafts) = draftsOf'
    BY <1>8, <1>9, FinallyAppended
  <2> QED BY <2>2, <2>3, <2>4, <2>5, <2>6 DEF LastWanted
<1>18. ReadsOfTheirStep'
  <2>1. CASE drafted /\ draftsOf # None
    <3>1. DraftsReady /\ read' = DraftsRead
      BY <2>1 DEF SampleTokens
    <3>2. host.drafts = draftsOf
      BY <2>1, <3>1, HeldWhenReached
    <3>3. draftsOf \in Nat
      BY <1>1 DEF LastWanted
    <3> QED BY <3>1, <3>2, <3>3 DEF DraftsRead, ReadsOfTheirStep
  <2>2. CASE ~(drafted /\ draftsOf # None)
    <3>1. UNCHANGED read
      BY <2>2 DEF SampleTokens
    <3> QED BY <1>1, <3>1 DEF ReadsOfTheirStep
  <2> QED BY <2>1, <2>2
<1> QED BY <1>1, <1>15, <1>16, <1>17, <1>18 DEF ReadsInv, CopiesPending

LEMMA CorrectReads ==
  ASSUME ReadsInv, Correct PROVE ReadsInv'
<1>1. UNCHANGED <<step, queue, ran, event, host, device, counted, draftsOf, outputs>>
  BY DEF Correct
<1>2. Shape' /\ CopiesPending'
  BY <1>1 DEF ReadsInv, Shape, CopiesPending, CopiesWait, OutputsCome, LastWanted
<1>3. host.counts = counted /\ counted \in Nat
  BY HeldWhenReached DEF Correct, ReadsInv, Shape
<1>4. ReadsOfTheirStep'
  BY <1>3 DEF Correct, ReadsOfTheirStep
<1> QED BY <1>2, <1>4 DEF ReadsInv

LEMMA TakeDraftsReads ==
  ASSUME ReadsInv, TakeDrafts PROVE ReadsInv'
<1>1. UNCHANGED <<step, queue, ran, event, host, device, counted, draftsOf, outputs>>
  BY DEF TakeDrafts
<1>2. Shape' /\ CopiesPending'
  BY <1>1 DEF ReadsInv, Shape, CopiesPending, CopiesWait, OutputsCome, LastWanted
<1>3. host.drafts = draftsOf /\ draftsOf \in Nat
  BY HeldWhenReached DEF TakeDrafts, ReadsInv, CopiesPending, LastWanted
<1>4. ReadsOfTheirStep'
  BY <1>3 DEF TakeDrafts, DraftsRead, ReadsOfTheirStep
<1> QED BY <1>2, <1>4 DEF ReadsInv

LEMMA GetOutputReads ==
  ASSUME ReadsInv, GetOutput PROVE ReadsInv'
<1>1. UNCHANGED <<step, queue, ran, event, host, device, counted, draftsOf>>
  BY DEF GetOutput
<1>2. Shape /\ CopiesWait /\ OutputsCome /\ LastWanted /\ Shape'
  BY GetOutputShape DEF ReadsInv, CopiesPending
<1>3. /\ outputs \in Seq(Output) /\ outputs # <<>>
      /\ queue["output"] \in Seq(Op) /\ ran["output"] \in Nat
  BY <1>2, StreamNames DEF Shape, GetOutput
<1>4. /\ 1 \in DOMAIN outputs
      /\ \A i \in DOMAIN outputs' : i + 1 \in DOMAIN outputs
                                 /\ outputs'[i] = outputs[i + 1]
  BY <1>3, TailAt DEF GetOutput
<1>5. OutputsCome'
  BY <1>1, <1>2, <1>4 DEF OutputsCome
<1>6. outputs[1].of \in device.sampled /\ outputs[1].of \in Nat
  <2>1. PICK output \in Output : output = outputs[1]
    BY <1>3, <1>4
  <2>2. output.of \in Nat /\ output.event \in Nat
    BY DEF Output
  <2>3. CopyOf(device.sampled, queue["output"], ran["output"], output)
    BY <1>2, <1>4, <2>1 DEF OutputsCome
  <2>4. ran["output"] >= output.event
    BY <2>1 DEF GetOutput, Reached
  <2> QED BY <1>3, <2>1, <2>2, <2>3, <2>4 DEF CopyOf
<1>7. ReadsOfTheirStep'
  BY <1>6 DEF GetOutput, ReadsOfTheirStep, Computed
<1>8. CopiesWait' /\ LastWanted'
  BY <1>1, <1>2 DEF CopiesWait, LastWanted
<1> QED BY <1>2, <1>5, <1>7, <1>8 DEF ReadsInv, CopiesPending

\* The GPU computes: what was waited for is there, or still to come.
LEMMA ComputeReads ==
  ASSUME ReadsInv, Gpu("default") PROVE ReadsInv'
<1>1. Shape /\ CopiesWait /\ OutputsCome /\ LastWanted /\ ReadsOfTheirStep /\ Shape'
  BY GpuShape, StreamNames DEF ReadsInv, CopiesPending
<1>2. /\ queue["default"] \in Seq(Op) /\ queue["default"] # <<>>
      /\ queue'["default"] = Tail(queue["default"])
      /\ ran'["default"] = ran["default"] + 1
      /\ queue'["counts"] = queue["counts"] /\ ran'["counts"] = ran["counts"]
      /\ queue'["drafts"] = queue["drafts"] /\ ran'["drafts"] = ran["drafts"]
      /\ queue'["output"] = queue["output"] /\ ran'["output"] = ran["output"]
  BY <1>1, GpuQueues, StreamNames
<1>3. UNCHANGED <<event, counted, draftsOf, outputs, read>>
  BY DEF Gpu
<1>4. /\ UNCHANGED host
      /\ device.sampled \subseteq device'.sampled
      /\ device.drafted \subseteq device'.drafted
      /\ queue["default"][1].do = "sample" => queue["default"][1].of \in device'.sampled
      /\ queue["default"][1].do = "draft" => queue["default"][1].of \in device'.drafted
  BY <1>1, ComputeEffect
<1>5. /\ queue["counts"] \in Seq(Op) /\ queue["drafts"] \in Seq(Op)
      /\ queue["output"] \in Seq(Op) /\ ran["default"] \in Nat
  BY <1>1, StreamNames DEF Shape
<1>6. CopiesWait'
  <2>1. WaitsIn(queue["counts"], device'.sampled, queue'["default"], ran'["default"],
                "sample")
    BY <1>1, <1>2, <1>4, <1>5, WaitsWhenExecuted DEF CopiesWait
  <2>2. WaitsIn(queue["output"], device'.sampled, queue'["default"], ran'["default"],
                "sample")
    BY <1>1, <1>2, <1>4, <1>5, WaitsWhenExecuted DEF CopiesWait
  <2>3. WaitsIn(queue["drafts"], device'.drafted, queue'["default"], ran'["default"],
                "draft")
    BY <1>1, <1>2, <1>4, <1>5, WaitsWhenExecuted DEF CopiesWait
  <2> QED BY <1>2, <2>1, <2>2, <2>3 DEF CopiesWait
<1>7. OutputsCome'
  BY <1>1, <1>2, <1>3, <1>4 DEF OutputsCome, CopyOf
<1>8. LastWanted' /\ ReadsOfTheirStep'
  BY <1>1, <1>2, <1>3, <1>4 DEF LastWanted, ReadsOfTheirStep
<1> QED BY <1>1, <1>6, <1>7, <1>8 DEF ReadsInv, CopiesPending

\* A copy finds computed what it copies.
LEMMA CopyReads ==
  ASSUME ReadsInv, NEW s \in Streams \ {"default"}, Gpu(s) PROVE ReadsInv'
<1>1. Shape /\ CopiesWait /\ OutputsCome /\ LastWanted /\ ReadsOfTheirStep /\ Shape'
  BY GpuShape DEF ReadsInv, CopiesPending
<1>2. s \in {"counts", "drafts", "output"} /\ s # "default"
  BY DEF Streams
<1>3. PICK c \in Seq(Op), d \in Seq(Op), k \in Nat, l \in Nat :
        /\ c = queue[s] /\ c # <<>>
        /\ d = queue["default"] /\ k = ran["default"] /\ l = ran[s]
  BY <1>1, StreamNames DEF Shape, Gpu
<1>4. /\ queue'[s] = Tail(c) /\ ran'[s] = l + 1
      /\ \A t \in Streams \ {s} : queue'[t] = queue[t] /\ ran'[t] = ran[t]
  BY <1>1, <1>3, GpuQueues
<1>5. UNCHANGED <<event, counted, draftsOf, outputs, read, device>>
  BY <1>1, CopyEffect DEF Gpu
<1>6. host' = CASE s = "counts" -> [host EXCEPT !.counts = Computed("sampled", c[1].of)]
                [] s = "drafts" -> [host EXCEPT !.drafts = Computed("drafted", c[1].of)]
                [] s = "output" -> host
  BY <1>1, <1>3, CopyEffect
<1>7. k >= c[1].after
  BY <1>3 DEF Gpu, Reached
<1>8. queue'["default"] = d /\ ran'["default"] = k
  BY <1>2, <1>3, <1>4, StreamNames
<1>9. host \in [{"inputs", "counts", "drafts"} -> Int]
  BY <1>1 DEF Shape
<1>10. l + 1 + Len(Tail(c)) = l + Len(c)
  <2>1. \A n \in Nat : l + 1 + (n - 1) = l + n
    OBVIOUS
  <2>2. Len(Tail(c)) = Len(c) - 1 /\ Len(c) \in Nat
    BY <1>3, TailAt
  <2> QED BY <2>1, <2>2
<1>11. ReadsOfTheirStep'
  BY <1>1, <1>5 DEF ReadsOfTheirStep
<1>12. CASE s = "counts"
  <2>1. /\ queue'["drafts"] = queue["drafts"] /\ ran'["drafts"] = ran["drafts"]
        /\ queue'["output"] = queue["output"] /\ ran'["output"] = ran["output"]
    BY <1>4, <1>12, StreamNames
  <2>2. /\ WaitsIn(Tail(c), device.sampled, d, k, "sample")
        /\ c[1].of \in device.sampled
    BY <1>1, <1>3, <1>7, <1>12, WaitsAtHead DEF CopiesWait
  <2>3. CopiesWait'
    BY <1>1, <1>3, <1>4, <1>5, <1>8, <1>12, <2>1, <2>2 DEF CopiesWait
  <2>4. OutputsCome'
    BY <1>1, <1>5, <2>1 DEF OutputsCome
  <2>5. host' = [host EXCEPT !.counts = c[1].of]
    BY <1>6, <1>12, <2>2 DEF Computed
  <2>6. host'.counts = c[1].of /\ host'.drafts = host.drafts
    BY <1>9, <2>5
  <2>7. Finally(Tail(c), c[1].of) = Finally(c, host.counts)
    BY <1>3, FinallyTail
  <2>8. LastWanted'
    BY <1>1, <1>3, <1>4, <1>5, <1>10, <1>12, <2>1, <2>6, <2>7 DEF LastWanted
  <2> QED BY <1>1, <1>11, <2>3, <2>4, <2>8 DEF ReadsInv, CopiesPending
<1>13. CASE s = "drafts"
  <2>1. /\ queue'["counts"] = queue["counts"] /\ ran'["counts"] = ran["counts"]
        /\ queue'["output"] = queue["output"] /\ ran'["output"] = ran["output"]
    BY <1>4, <1>13, StreamNames
  <2>2. /\ WaitsIn(Tail(c), device.drafted, d, k, "draft")
        /\ c[1].of \in device.drafted
    BY <1>1, <1>3, <1>7, <1>13, WaitsAtHead DEF CopiesWait
  <2>3. CopiesWait'
    BY <1>1, <1>3, <1>4, <1>5, <1>8, <1>13, <2>1, <2>2 DEF CopiesWait
  <2>4. OutputsCome'
    BY <1>1, <1>5, <2>1 DEF OutputsCome
  <2>5. host' = [host EXCEPT !.drafts = c[1].of]
    BY <1>6, <1>13, <2>2 DEF Computed
  <2>6. host'.drafts = c[1].of /\ host'.counts = host.counts
    BY <1>9, <2>5
  <2>7. Finally(Tail(c), c[1].of) = Finally(c, host.drafts)
    BY <1>3, FinallyTail
  <2>8. LastWanted'
    BY <1>1, <1>3, <1>4, <1>5, <1>10, <1>13, <2>1, <2>6, <2>7 DEF LastWanted
  <2> QED BY <1>1, <1>11, <2>3, <2>4, <2>8 DEF ReadsInv, CopiesPending
<1>14. CASE s = "output"
  <2>1. /\ queue'["counts"] = queue["counts"] /\ ran'["counts"] = ran["counts"]
        /\ queue'["drafts"] = queue["drafts"] /\ ran'["drafts"] = ran["drafts"]
    BY <1>4, <1>14, StreamNames
  <2>2. /\ WaitsIn(Tail(c), device.sampled, d, k, "sample")
        /\ c[1].of \in device.sampled
    BY <1>1, <1>3, <1>7, <1>14, WaitsAtHead DEF CopiesWait
  <2>3. CopiesWait'
    BY <1>1, <1>3, <1>4, <1>5, <1>8, <1>14, <2>1, <2>2 DEF CopiesWait
  <2>4. \A output : CopyOf(device.sampled, c, l, output)
                     => CopyOf(device.sampled, Tail(c), l + 1, output)
    BY <1>3, <2>2, CopyOfExecuted
  <2>5. OutputsCome'
    BY <1>1, <1>3, <1>4, <1>5, <1>14, <2>4 DEF OutputsCome
  <2>6. host' = host
    BY <1>6, <1>14
  <2>7. LastWanted'
    BY <1>1, <1>5, <2>1, <2>6 DEF LastWanted
  <2> QED BY <1>1, <1>11, <2>3, <2>5, <2>7 DEF ReadsInv, CopiesPending
<1> QED BY <1>2, <1>12, <1>13, <1>14

(***************************************************************************)
(* No buffer that is used again is read with another step's content, by    *)
(* the GPU or by the host: for any number of steps and of outputs in       *)
(* flight, as long as the drafter runs in every step (input_fits_in_drafter *)
(* holds), which is what the run "worker" assumes as well.                 *)
(***************************************************************************)
THEOREM BuffersRight ==
  ASSUME DrafterFits = {TRUE} PROVE StreamsSpec => []BuffersOfTheirStep
<1>1. StreamsInit => ReadsInv
  BY InitReads
<1>2. ReadsInv /\ [StreamsNext]_streamVars => ReadsInv'
  <2> SUFFICES ASSUME ReadsInv, [StreamsNext]_streamVars PROVE ReadsInv'
    OBVIOUS
  <2>1. CASE ExecuteModel
    BY <2>1, ExecuteReads
  <2>2. CASE Correct
    BY <2>2, CorrectReads
  <2>3. CASE TakeDrafts
    BY <2>3, TakeDraftsReads
  <2>4. CASE SampleTokens
    BY <2>4, SampleReads
  <2>5. CASE GetOutput
    BY <2>5, GetOutputReads
  <2>6. ASSUME NEW s \in Streams, Gpu(s) PROVE ReadsInv'
    BY <2>6, ComputeReads, CopyReads
  <2>7. CASE UNCHANGED streamVars
    BY <2>7 DEF streamVars, ReadsInv, Shape, CopiesPending, CopiesWait, OutputsCome,
                LastWanted, ReadsOfTheirStep
  <2> QED BY <2>1, <2>2, <2>3, <2>4, <2>5, <2>6, <2>7 DEF StreamsNext
<1>3. ReadsInv => ReadsOfTheirStep
  BY DEF ReadsInv
<1>4. InputsUntorn /\ ReadsOfTheirStep => BuffersOfTheirStep
  BY DEF BuffersOfTheirStep
<1> QED BY <1>1, <1>2, <1>3, <1>4, InputsAreUntorn, PTL DEF StreamsSpec

-----------------------------------------------------------------------------
(* The KV caches in memory.                                                *)

Sized(l) ==
  l \in DOMAIN kernelSize /\ kernelSize[l] \in KernelSizesFor(spec[l])
Viewed(l) ==
  /\ Fits(l) /\ l \in DOMAIN view
  /\ view[l] = [stride |-> Stride(l), entries |-> ShapeBlock(l),
                perBlock |-> spec[l].block \div kernelSize[l]]

\* What the stages that initialize_kv_cache() has passed have left.
LayoutInv ==
  /\ spec \in [DOMAIN spec -> Specs]
  /\ sharedWith \in [DOMAIN sharedWith -> DOMAIN spec]
  /\ stage # "assertion failed"
  /\ stage = "start" => groups = {}
  /\ stage \in {"sized", "allocated", "viewed", "ready"} =>
       \A l \in DOMAIN spec : Sized(l)
  /\ stage \in {"viewed", "ready"} => \A l \in DOMAIN spec : Viewed(l)
  /\ stage = "ready" => \A l \in DOMAIN caches : caches[l] \in DOMAIN spec

LEMMA LayoutStart == LayoutInit => LayoutInv
BY DEF LayoutInit, LayoutInv

LEMMA LayoutStepKeeps ==
  ASSUME LayoutInv, [LayoutNext]_layoutVars
  PROVE  LayoutInv'
<1>1. CASE InitializeAttnBackend
  BY <1>1 DEF InitializeAttnBackend, LayoutInv
<1>2. CASE PrepareBlockSizes
  BY <1>2 DEF PrepareBlockSizes, LayoutInv, Sized, KernelSizesFor
<1>3. CASE Allocate
  BY <1>3 DEF Allocate, LayoutInv, Sized, KernelSizesFor
<1>4. CASE Reshape
  <2>1. \A l \in DOMAIN spec : Sized(l) /\ Sized(l)'
    BY <1>4 DEF Reshape, LayoutInv, Sized, KernelSizesFor
  <2>2. ASSUME stage' = "viewed", NEW l \in DOMAIN spec PROVE Viewed(l)'
    <3>1. Fits(l)'
      BY <1>4, <2>2 DEF Reshape, Fits, Padded, Entries, KernelBlocks, Stride, ShapeBlock
    <3>2. /\ l \in DOMAIN view'
          /\ view'[l] = [stride |-> Stride(l), entries |-> ShapeBlock(l),
                         perBlock |-> spec[l].block \div kernelSize[l]]
      BY <1>4, <2>2 DEF Reshape
    <3>3. Stride(l)' = Stride(l) /\ ShapeBlock(l)' = ShapeBlock(l)
      BY <1>4 DEF Reshape, Stride, ShapeBlock, Padded, Entries
    <3>4. spec' = spec /\ kernelSize' = kernelSize
      BY <1>4 DEF Reshape
    <3> QED BY <3>1, <3>2, <3>3, <3>4 DEF Viewed
  <2> QED BY <1>4, <2>1, <2>2 DEF Reshape, LayoutInv
<1>5. CASE Bind
  <2>1. \A l \in DOMAIN spec : Sized(l)' /\ Viewed(l)'
    BY <1>5 DEF Bind, LayoutInv, Sized, KernelSizesFor, Viewed, Fits, Padded, Entries,
                KernelBlocks, Stride, ShapeBlock
  <2> QED BY <1>5, <2>1 DEF Bind, LayoutInv
<1>6. CASE CleanUpProfiling
  BY <1>6 DEF CleanUpProfiling, LayoutInv, GroupsLeft
<1>7. CASE UNCHANGED layoutVars
  BY <1>7 DEF layoutVars, LayoutInv, Sized, KernelSizesFor, Viewed, Fits, Padded, Entries,
              KernelBlocks, Stride, ShapeBlock
<1> QED BY <1>1, <1>2, <1>3, <1>4, <1>5, <1>6, <1>7 DEF LayoutNext

-----------------------------------------------------------------------------
\* q tiles of st bytes, from the b-th q of them on, fill page b of q * st bytes.
LEMMA TilesFillPage ==
  ASSUME NEW st \in Nat \ {0}, NEW q \in Nat \ {0}, NEW b \in Nat
  PROVE  UNION {(k * st)..(k * st + st - 1) : k \in (b * q)..((b + 1) * q - 1)}
           = (b * (q * st))..((b + 1) * (q * st) - 1)
<1>1. PICK lo \in Int, hi \in Int : lo = b * q /\ hi = (b + 1) * q
  OBVIOUS
<1>2. b * (q * st) = lo * st /\ (b + 1) * (q * st) = hi * st
  BY <1>1
<1>3. \A k \in Int, j \in Int : k <= j => k * st <= j * st
  OBVIOUS
<1>4. ASSUME NEW k \in lo..(hi - 1), NEW x \in (k * st)..(k * st + st - 1)
      PROVE  x \in (lo * st)..(hi * st - 1)
  <2>1. k \in Int /\ k + 1 \in Int /\ lo <= k /\ k + 1 <= hi
    BY <1>1
  <2>2. lo * st <= k * st /\ (k + 1) * st <= hi * st
    BY <1>3, <2>1
  <2>3. (k + 1) * st = k * st + st
    BY <2>1
  <2>4. PICK u \in Int, v \in Int, w \in Int : u = lo * st /\ v = hi * st /\ w = k * st
    BY <1>1
  <2> QED BY <1>4, <2>2, <2>3, <2>4
<1>5. ASSUME NEW x \in (lo * st)..(hi * st - 1)
      PROVE  \E k \in lo..(hi - 1) : x \in (k * st)..(k * st + st - 1)
  <2>1. PICK k \in Int, m \in 0..(st - 1) : x = k * st + m
    <3>1. lo * st \in Int /\ x \in Int
      BY <1>1
    <3>2. x = st * (x \div st) + (x % st) /\ x \div st \in Int /\ x % st \in 0..(st - 1)
      BY <3>1
    <3> QED BY <3>2
  <2>2. lo <= k
    <3>1. SUFFICES ASSUME k + 1 <= lo PROVE FALSE
      BY <1>1, <2>1
    <3>2. (k + 1) * st <= lo * st
      BY <1>1, <1>3, <2>1, <3>1
    <3>3. (k + 1) * st = k * st + st
      BY <2>1
    <3> QED BY <1>1, <2>1, <3>2, <3>3
  <2>3. k <= hi - 1
    <3>1. SUFFICES ASSUME hi <= k PROVE FALSE
      BY <1>1, <2>1
    <3>2. hi * st <= k * st
      BY <1>1, <1>3, <2>1, <3>1
    <3> QED BY <1>1, <2>1, <3>2
  <2> QED BY <1>1, <2>1, <2>2, <2>3
<1> QED BY ZenonT(30), <1>1, <1>2, <1>4, <1>5

\* The quantities of one layer: a block is q kernel blocks of k tokens.
LEMMA SpecFacts ==
  ASSUME LayoutInv, NEW l \in DOMAIN spec, Sized(l)
  PROVE  LET s == spec[l] IN
         /\ s.page \in Nat \ {0} /\ s.block \in Nat \ {0}
         /\ s.ratio \in Nat \ {0} /\ s.entry \in Nat \ {0}
         /\ Entries(s) \in Nat \ {0} /\ s.block = s.ratio * Entries(s)
         /\ Entries(s) * s.entry <= s.page
         /\ kernelSize[l] \in Nat \ {0}
         /\ s.block \div kernelSize[l] \in Nat \ {0}
         /\ s.block = kernelSize[l] * (s.block \div kernelSize[l])
<1> DEFINE s == spec[l]
<1>1. s \in Specs /\ NumBlocks \in Nat
  BY LayoutAssumption DEF LayoutInv
<1>2. /\ s.page \in Nat \ {0} /\ s.block \in Nat \ {0}
      /\ s.ratio \in Nat \ {0} /\ s.entry \in Nat \ {0}
      /\ s.block % s.ratio = 0 /\ Entries(s) * s.entry <= s.page
  BY <1>1, LayoutAssumption DEF Specs
<1>3. kernelSize[l] \in Nat \ {0} /\ s.block % kernelSize[l] = 0
  BY LayoutAssumption DEF Sized, KernelSizesFor
<1>4. \A n \in Nat \ {0}, d \in Nat \ {0} :
        n % d = 0 => n \div d \in Nat \ {0} /\ n = d * (n \div d)
  <2> SUFFICES ASSUME NEW n \in Nat \ {0}, NEW d \in Nat \ {0}, n % d = 0
               PROVE  n \div d \in Nat \ {0} /\ n = d * (n \div d)
    OBVIOUS
  <2>1. n = d * (n \div d) + (n % d) /\ n \div d \in Int
    OBVIOUS
  <2>2. PICK t \in Int : t = n \div d
    BY <2>1
  <2>3. n = d * t
    BY <2>1, <2>2
  <2>4. t > 0
    BY <2>3
  <2> QED BY <2>2, <2>3, <2>4
<1> HIDE DEF s
<1>5. Entries(s) \in Nat \ {0} /\ s.block = s.ratio * Entries(s)
  BY <1>2, <1>4 DEF Entries
<1>6. s.block \div kernelSize[l] \in Nat \ {0} /\ s.block = kernelSize[l] * (s.block \div kernelSize[l])
  BY <1>2, <1>3, <1>4
<1> QED BY <1>2, <1>3, <1>5, <1>6 DEF s

LEMMA PageOfBlock ==
  ASSUME LayoutInv, NEW l \in DOMAIN spec, Sized(l), Viewed(l),
         NEW b \in 0..(NumBlocks - 1)
  PROVE  /\ Bytes(l, b) \subseteq (b * spec[l].page)..((b + 1) * spec[l].page - 1)
         /\ Cardinality(Bytes(l, b)) >= Entries(spec[l]) * spec[l].entry
<1>1. PICK page \in Nat \ {0}, block \in Nat \ {0}, ratio \in Nat \ {0}, entry \in Nat \ {0},
           kernel \in Nat \ {0}, count \in Nat \ {0}, split \in Nat \ {0} :
        /\ page = spec[l].page /\ block = spec[l].block /\ ratio = spec[l].ratio
        /\ entry = spec[l].entry /\ kernel = kernelSize[l] /\ count = Entries(spec[l])
        /\ split = spec[l].block \div kernelSize[l]
        /\ block = ratio * count /\ block = kernel * split /\ count * entry <= page
  BY SpecFacts, Zenon
<1>2. PICK shape \in Nat \ {0} : /\ shape = IF ratio > 1 THEN count ELSE kernel
                                 /\ shape = ShapeBlock(l)
  BY <1>1 DEF ShapeBlock
<1>3. NumBlocks \in Nat \ {0} /\ b \in Nat
  BY LayoutAssumption
<1>4. PICK size \in Nat \ {0} : size = count * entry
  BY <1>1
<1>5. PICK tile \in Nat \ {0} : tile = shape * entry
  BY <1>2
<1>6. /\ view[l].stride = Stride(l) /\ view[l].entries = shape /\ view[l].perBlock = split
  BY <1>1, <1>2 DEF Viewed
<1>7. Padded(spec[l]) <=> size < page
  BY <1>1, <1>4 DEF Padded
<1>8. CASE size < page
  <2>1. Stride(l) = page
    BY <1>1, <1>7, <1>8 DEF Stride
  <2>2. PICK blocks \in Nat : blocks = NumBlocks * split /\ blocks = KernelBlocks(l)
    BY <1>1, <1>3 DEF KernelBlocks
  <2>3. (blocks - 1) * page + tile <= NumBlocks * page
    BY <1>1, <1>2, <1>5, <1>7, <1>8, <2>1, <2>2 DEF Viewed, Fits
  <2>4. blocks - 1 < NumBlocks
    <3>1. SUFFICES ASSUME NumBlocks <= blocks - 1 PROVE FALSE
      BY <1>3, <2>2
    <3>2. NumBlocks * page <= (blocks - 1) * page
      <4>1. \A i \in Int, j \in Int : i <= j => i * page <= j * page
        OBVIOUS
      <4> QED BY <1>3, <2>2, <3>1, <4>1
    <3>3. PICK u \in Int, v \in Int : u = NumBlocks * page /\ v = (blocks - 1) * page
      BY <1>3, <2>2
    <3> QED BY <1>5, <2>3, <3>2, <3>3
  <2>5. split = 1
    <3>1. SUFFICES ASSUME split >= 2 PROVE FALSE
      OBVIOUS
    <3>2. NumBlocks * split >= NumBlocks * 2
      BY <1>3, <3>1
    <3> QED BY <1>3, <2>2, <2>4, <3>2
  <2>6. shape = count
    <3>1. kernel = block
      BY <1>1, <2>5
    <3>2. ratio = 1 => block = count
      BY <1>1
    <3> QED BY <1>2, <3>1, <3>2
  <2>7. (b * split)..((b + 1) * split - 1) = {b}
    BY <1>3, <2>5
  <2>8. Bytes(l, b) = (b * page)..(b * page + size - 1)
    <3>1. view[l].entries * spec[l].entry = size
      BY <1>1, <1>4, <1>6, <2>6
    <3>2. KernelBytes(l, b) = (b * page)..(b * page + size - 1)
      BY <1>6, <2>1, <3>1, Zenon DEF KernelBytes
    <3>3. Bytes(l, b) = UNION {KernelBytes(l, k) : k \in {b}}
      BY <1>6, <2>7, Zenon DEF Bytes
    <3> QED BY <3>2, <3>3
  <2>9. PICK at \in Int, last \in Int, end \in Int :
          /\ at = b * page /\ last = b * page + size - 1 /\ end = (b + 1) * page - 1
    BY <1>3
  <2>10. last = at + size - 1 /\ end = at + page - 1
    BY <1>3, <2>9
  <2>11. Bytes(l, b) = at..last
    BY <2>8, <2>9, Zenon
  <2>12. Cardinality(at..last) = size
    <3>1. Cardinality(at..last) = IF at > last THEN 0 ELSE last - at + 1
      BY FS_Interval, Zenon
    <3> QED BY <1>4, <2>10, <3>1
  <2>13. at..last \subseteq at..end
    BY <1>4, <1>8, <2>9, <2>10
  <2>14. Bytes(l, b) \subseteq (b * page)..((b + 1) * page - 1)
    BY <2>9, <2>11, <2>13, Zenon
  <2>15. Entries(spec[l]) * spec[l].entry = size
    BY <1>1, <1>4
  <2>16. Cardinality(Bytes(l, b)) >= size
    <3>1. size >= size
      BY <1>4
    <3> QED BY <2>11, <2>12, <3>1, Zenon
  <2> QED BY <1>1, <2>14, <2>15, <2>16, Zenon
<1>9. CASE size = page
  <2>1. Stride(l) = tile /\ ~Padded(spec[l])
    BY <1>1, <1>2, <1>5, <1>7, <1>9 DEF Stride
  <2>2. KernelBlocks(l) = NumBlocks * split
    BY <1>1 DEF KernelBlocks
  <2>3. (NumBlocks * split) * tile = NumBlocks * page
    BY <1>1, <2>1, <2>2 DEF Viewed, Fits
  <2>4. split * tile = page
    <3>1. PICK t \in Int : t = split * tile
      OBVIOUS
    <3>2. NumBlocks * t = NumBlocks * page
      BY <1>3, <2>3, <3>1
    <3> QED BY <1>3, <3>1, <3>2
  <2>5. \A k \in Int : KernelBytes(l, k) = (k * tile)..(k * tile + tile - 1)
    <3>1. view[l].entries * spec[l].entry = tile
      BY <1>1, <1>5, <1>6
    <3> QED BY <1>6, <2>1, <3>1, Zenon DEF KernelBytes
  <2>6. Bytes(l, b) = UNION {(k * tile)..(k * tile + tile - 1)
                               : k \in (b * split)..((b + 1) * split - 1)}
    <3>1. PICK lo \in Int, hi \in Int : lo = b * split /\ hi = (b + 1) * split - 1
      BY <1>3
    <3>2. Bytes(l, b) = UNION {KernelBytes(l, k) : k \in lo..hi}
      BY <1>6, <3>1, Zenon DEF Bytes
    <3>3. \A k \in lo..hi : KernelBytes(l, k) = (k * tile)..(k * tile + tile - 1)
      <4>1. \A k \in lo..hi : k \in Int
        BY <3>1
      <4> QED BY <2>5, <4>1, Zenon
    <3>4. Bytes(l, b) = UNION {(k * tile)..(k * tile + tile - 1) : k \in lo..hi}
      BY <3>2, <3>3, Zenon
    <3> QED BY <3>1, <3>4, Zenon
  <2>7. Bytes(l, b) = (b * page)..((b + 1) * page - 1)
    BY <1>3, <2>4, <2>6, TilesFillPage
  <2>8. PICK at \in Int : at = b * page /\ (b + 1) * page = at + page
    BY <1>3
  <2>9. Cardinality(at..(at + page - 1)) = page
    BY <2>8, FS_Interval
  <2> QED BY <1>1, <1>4, <1>9, <2>7, <2>8, <2>9
<1> QED BY <1>1, <1>4, <1>8, <1>9

(***************************************************************************)
(* Once it is up, after profiling or without, no layer writing to one      *)
(* block touches a page of another, and every entry of a block has bytes   *)
(* of its own: for any number of layers, pages, and sizes of page, block,  *)
(* kernel block and entry that _reshape_kv_cache_tensors() finds to fit.   *)
(***************************************************************************)
THEOREM PagesStayApart == LayoutSpec => []BlocksStayApart
<1>1. LayoutInv => BlocksStayApart
  <2> SUFFICES ASSUME LayoutInv PROVE BlocksStayApart
    OBVIOUS
  <2>1. stage # "assertion failed"
    BY DEF LayoutInv
  <2>2. ASSUME stage = "ready", NEW l \in DOMAIN caches
        PROVE  caches[l] \in DOMAIN spec /\ Sized(caches[l]) /\ Viewed(caches[l])
    BY <2>2 DEF LayoutInv
  <2> QED BY <2>1, <2>2, PageOfBlock, Zenon DEF BlocksStayApart
<1>2. LayoutInv /\ [LayoutNext]_layoutVars => LayoutInv'
  BY LayoutStepKeeps
<1> QED BY <1>1, <1>2, LayoutStart, PTL DEF LayoutSpec

-----------------------------------------------------------------------------
(* Captured states.                                                        *)

\* Every captured layer is on the rank that has the buffer.
CapturedHere == \A k \in DOMAIN ids : ids[k] >= StartLayer

CaptureTypes ==
  /\ \A k \in DOMAIN ids : ids[k] \in StartLayer..(NumHiddenLayers - 1)
  /\ defer \in BOOLEAN
  /\ forwards \in Nat /\ layer \in StartLayer..NumHiddenLayers
  /\ buffer \in [DOMAIN ids -> [state : Int, forward : Int]]

\* The stream is mixed, or is yet to be from what the layer before left.
Stream ==
  IF residual = NoResidual THEN hidden = 2 * layer
  ELSE residual = 2 * layer - 1 /\ layer > StartLayer

\* A layer that was passed is captured, or the next layer will do it.
Passed ==
  \A k \in DOMAIN ids :
    forwards > 0 /\ ids[k] < layer =>
      \/ buffer[k] = [state |-> After(ids[k]), forward |-> forwards]
      \/ defer /\ ids[k] = layer - 1 /\ layer < NumHiddenLayers
         /\ residual # NoResidual

CaptureInv == CaptureTypes /\ Stream /\ Passed

LEMMA CapturedFacts ==
  ASSUME NEW D, D = DOMAIN ids, NEW buf \in [D -> [state : Int, forward : Int]],
         forwards \in Int, NEW id, NEW state \in Int
  PROVE  /\ Captured(buf, id, state) \in [D -> [state : Int, forward : Int]]
         /\ \A k \in D : Captured(buf, id, state)[k] =
              IF ids[k] = id THEN [state |-> state, forward |-> forwards] ELSE buf[k]
BY DEF Captured

LEMMA RunLayerKeeps ==
  ASSUME CaptureInv, RunLayer
  PROVE  CaptureInv'
<1> CaptureTypes /\ Stream /\ Passed
  BY DEF CaptureInv
<1> USE CaptureAssumption
<1>1. /\ NumHiddenLayers \in Nat /\ StartLayer \in Nat
      /\ layer \in StartLayer..(NumHiddenLayers - 1) /\ layer \in Int
      /\ layer' = layer + 1 /\ UNCHANGED <<ids, defer, exact, forwards>>
  BY DEF RunLayer, RankLayers, CaptureTypes
<1>2. PICK D : D = DOMAIN ids
  OBVIOUS
<1>3. PICK mixed : mixed = IF residual = NoResidual THEN hidden ELSE residual + 1
  OBVIOUS
<1>4. mixed = 2 * layer
  BY <1>1, <1>3 DEF Stream
<1>5. PICK old : old = IF residual = NoResidual THEN buffer ELSE CapturePrevious(mixed)
  OBVIOUS
<1> DEFINE here == layer \in ToSet(ids) \ Deferred
<1>7. /\ hidden' = mixed + 2
      /\ residual' = IF here THEN NoResidual ELSE mixed + 1
      /\ buffer' = IF here THEN Captured(old, layer, mixed + 2) ELSE old
  BY <1>3, <1>5 DEF RunLayer
<1> HIDE DEF here
<1>8. /\ old \in [D -> [state : Int, forward : Int]]
      /\ \A k \in D : old[k] = buffer[k] \/ ids[k] = layer - 1
      /\ \A k \in D : forwards > 0 /\ ids[k] < layer =>
           old[k] = [state |-> After(ids[k]), forward |-> forwards]
  <2>1. CASE old = buffer /\ (residual = NoResidual \/ PrevCapture(layer) = NoLayer)
    <3>1. ASSUME NEW k \in D, defer, ids[k] = layer - 1, residual # NoResidual
          PROVE  FALSE
      <4>1. layer - 1 \in ToSet(ids)
        BY <1>2, <3>1 DEF ToSet
      <4>2. PrevCapture(layer) = layer - 1
        BY <3>1, <4>1 DEF PrevCapture
      <4> QED BY <1>1, <2>1, <3>1, <4>2 DEF NoLayer, Stream
    <3> QED BY <1>1, <1>2, <2>1, <3>1 DEF CaptureTypes, Passed
  <2>2. CASE residual # NoResidual /\ PrevCapture(layer) # NoLayer
    <3>1. PrevCapture(layer) = layer - 1
      BY <2>2 DEF PrevCapture
    <3>2. residual + 1 = 2 * layer /\ 2 * layer \in Int
      BY <1>1, <2>2 DEF Stream
    <3>3. old = Captured(buffer, layer - 1, 2 * layer)
      BY <1>4, <1>5, <2>2, <3>1, <3>2 DEF CapturePrevious
    <3>4. /\ old \in [D -> [state : Int, forward : Int]]
          /\ \A k \in D : old[k] = IF ids[k] = layer - 1
                                   THEN [state |-> 2 * layer, forward |-> forwards]
                                   ELSE buffer[k]
      BY <1>2, <3>2, <3>3, CapturedFacts DEF CaptureTypes
    <3>5. \A k \in D : ids[k] = layer - 1 => After(ids[k]) = 2 * layer
      BY <1>1 DEF After
    <3> QED BY <1>1, <1>2, <3>4, <3>5 DEF Passed
  <2> QED BY <1>5, <2>1, <2>2 DEF CapturePrevious
<1>9. /\ buffer' \in [D -> [state : Int, forward : Int]]
      /\ \A k \in D : buffer'[k] = IF here /\ ids[k] = layer
                                   THEN [state |-> mixed + 2, forward |-> forwards]
                                   ELSE old[k]
  <2>1. mixed + 2 \in Int
    BY <1>1, <1>4
  <2> QED BY <1>2, <1>7, <1>8, <2>1, CapturedFacts DEF CaptureTypes
<1>10. ASSUME NEW k \in D, ids[k] = layer, ~here
       PROVE  defer /\ layer + 1 < NumHiddenLayers
  <2>1. layer \in ToSet(ids)
    BY <1>2, <1>10 DEF ToSet
  <2>2. PICK j \in RankLayers : PrevCapture(j) = layer
    BY <1>10, <2>1 DEF Deferred, here
  <2>3. defer /\ j - 1 = layer
    BY <1>1, <2>2 DEF PrevCapture, NoLayer
  <2> QED BY <1>1, <2>2, <2>3 DEF RankLayers
<1>11. Stream'
  BY <1>1, <1>4, <1>7 DEF Stream, NoResidual
<1>12. CaptureTypes'
  BY <1>1, <1>2, <1>9 DEF CaptureTypes
<1>13. ASSUME NEW k \in D, forwards > 0, ids[k] < layer + 1
       PROVE  \/ buffer'[k] = [state |-> After(ids[k]), forward |-> forwards]
              \/ defer /\ ids[k] = layer /\ layer + 1 < NumHiddenLayers
                 /\ residual' # NoResidual
  <2>0. ids[k] \in Int
    BY <1>2 DEF CaptureTypes
  <2>1. CASE ids[k] < layer
    BY <1>1, <1>8, <1>9, <1>13, <2>0, <2>1
  <2>2. CASE ids[k] = layer /\ here
    <3>1. After(ids[k]) = mixed + 2
      BY <1>4, <2>2 DEF After
    <3> QED BY <1>9, <2>2, <3>1
  <2>3. CASE ids[k] = layer /\ ~here
    <3>1. residual' # NoResidual
      BY <1>1, <1>4, <1>7, <2>3 DEF NoResidual
    <3> QED BY <1>10, <2>3, <3>1
  <2> QED BY <1>1, <1>13, <2>0, <2>1, <2>2, <2>3
<1>14. Passed'
  <2>1. layer' - 1 = layer
    BY <1>1
  <2> QED BY <1>1, <1>2, <1>13, <2>1 DEF Passed
<1> QED BY <1>11, <1>12, <1>14 DEF CaptureInv

LEMMA CaptureStepKeeps ==
  ASSUME CaptureInv, [CaptureNext]_captureVars
  PROVE  CaptureInv'
<1> CaptureTypes /\ Stream /\ Passed
  BY DEF CaptureInv
<1>1. CASE Begin
  BY <1>1, CaptureAssumption DEF Begin, CaptureInv, CaptureTypes, Stream, Passed, After, NoResidual
<1>2. CASE RunLayer
  BY <1>2, RunLayerKeeps
<1>3. CASE Finish
  BY <1>3, CaptureAssumption DEF Finish, CaptureInv, CaptureTypes, Stream, Passed, NoResidual
<1>4. CASE UNCHANGED captureVars
  BY <1>4 DEF captureVars, CaptureInv, CaptureTypes, Stream, Passed, After
<1> QED BY <1>1, <1>2, <1>3, <1>4 DEF CaptureNext

LEMMA CaptureStart ==
  ASSUME CaptureInit, CapturedHere
  PROVE  CaptureInv
<1>1. \A k \in DOMAIN ids : ids[k] \in StartLayer..(NumHiddenLayers - 1)
  <2>1. PICK n \in 1..NumHiddenLayers : ids \in [1..n -> 0..(NumHiddenLayers - 1)]
    BY DEF CaptureInit
  <2> QED BY <2>1, CaptureAssumption DEF CapturedHere
<1>2. buffer \in [DOMAIN ids -> [state : Int, forward : Int]]
  BY DEF CaptureInit, NoResidual
<1> QED BY <1>1, <1>2, CaptureAssumption
    DEF CaptureInit, CaptureInv, CaptureTypes, Stream, Passed, After

(***************************************************************************)
(* When a forward ends, the buffer of get_dspark_target_hidden_states()    *)
(* holds for every captured layer what that layer left in this forward,    *)
(* for any number of layers and any choice of them on the rank that has    *)
(* the buffer, whether captures are deferred or not, exact or not.         *)
(***************************************************************************)
THEOREM FeaturesAreFresh ==
  CaptureSpec /\ CapturedHere => []FeaturesOfThisForward
<1>1. CaptureInv => FeaturesOfThisForward
  BY CaptureAssumption DEF CaptureInv, CaptureTypes, Passed, FeaturesOfThisForward
<1>2. CaptureInv /\ [CaptureNext]_captureVars => CaptureInv'
  BY CaptureStepKeeps
<1> QED BY <1>1, <1>2, CaptureStart, PTL DEF CaptureSpec

-----------------------------------------------------------------------------
(* The grammars of structured requests.                                    *)

\* The drafts of a row, and what stands for them in a step.
GoodDrafts(d) ==
  /\ d.ids \in [1..NumSpec -> Tokens]
  /\ d.length = NumSpec

\* A step waits with padding for each of its drafts.
GoodStep(s) ==
  /\ DOMAIN s.placed \subseteq Structured
  /\ s.yields \subseteq DOMAIN s.placed
  /\ \A r \in DOMAIN s.placed :
       \E n \in 0..NumSpec : s.placed[r] = [k \in 1..n |-> Pad]

GrammarTypes ==
  /\ chunks \in [Structured -> Nat]
  /\ specLen \in [Structured -> 0..NumSpec]
  /\ made \in [Structured -> 0..MaxTokens]
  /\ DOMAIN grammar = Structured
  /\ \A r \in DOMAIN drafts : GoodDrafts(drafts[r])
  /\ GoodStep(deferred)

\* A frame whose tokens the grammars take, as far as they are still wanted.
Taken(frame) ==
  /\ DOMAIN frame.sampled \subseteq Structured
  /\ \A r \in DOMAIN frame.sampled : frame.lengths[r] \in Nat
  /\ \A r \in Live(frame) :
       frame.sampled[r] \in Seq(Tokens) /\ Accepts(grammar[r], frame.sampled[r])

\* Two frames at most, of different requests.  The drafts at the worker are
\* those of the last one; whoever is in the one before could not be in it.
FramesTaken ==
  \/ flight = <<>>
  \/ \E f : /\ flight = <<f>> /\ Taken(f)
            /\ DOMAIN f.sampled \subseteq DOMAIN drafts
  \/ \E e, f : /\ flight = <<e, f>> /\ Taken(e) /\ Taken(f)
               /\ DOMAIN e.sampled \intersect DOMAIN f.sampled = {}
               /\ DOMAIN f.sampled \subseteq DOMAIN drafts
               /\ \A r \in DOMAIN e.sampled : Done(r) \/ chunks[r] > 0

\* Drafts are scheduled for a request that is owed a token.
DraftsOwed ==
  /\ \A r \in Structured : chunks[r] > 0 => specLen[r] = 0
  /\ deferred = NoStep =>
       \A r \in Structured : specLen[r] > 0 /\ ~Done(r) => InFlight(r)

\* What waits to be sampled has its drafts at the worker.
DeferredDrafted ==
  deferred # NoStep =>
    \A r \in Structured : ~Done(r) =>
      /\ chunks[r] = 0 => r \in deferred.yields
      /\ r \in deferred.yields /\ Len(deferred.placed[r]) > 0 => r \in DOMAIN drafts

GrammarInv ==
  GrammarTypes /\ FramesTaken /\ DraftsOwed /\ DeferredDrafted /\ GrammarHolds

-----------------------------------------------------------------------------
\* What a grammar takes, it takes up to any point.
LEMMA PrefixAccepted ==
  ASSUME NEW state, NEW s \in Seq(Tokens), NEW n \in 0..Len(s), Accepts(state, s)
  PROVE  Accepts(state, SubSeq(s, 1, n))
<1>1. /\ SubSeq(s, 1, n) \in Seq(Tokens) /\ Len(SubSeq(s, 1, n)) = n
      /\ \A i \in 1..n : SubSeq(s, 1, n)[i] = s[i]
  BY Prefix
<1> SUFFICES ASSUME NEW i \in 1..n
             PROVE  SubSeq(s, 1, n)[i]
                      \in Allowed(State(state, SubSeq(SubSeq(s, 1, n), 1, i - 1)))
  BY <1>1 DEF Accepts
<1>2. Len(s) \in Nat
  BY Members
<1>3. i - 1 \in 0..n /\ i \in 1..Len(s)
  BY <1>2
<1>4. SubSeq(SubSeq(s, 1, n), 1, i - 1) = SubSeq(s, 1, i - 1)
  BY <1>3, PrefixOfPrefix
<1>5. s[i] \in Allowed(State(state, SubSeq(s, 1, i - 1)))
  BY <1>3 DEF Accepts
<1>6. SubSeq(s, 1, n)[i] = s[i]
  BY <1>1
<1> QED BY <1>4, <1>5, <1>6

\* The drafts of a row that are placed in a step, up to the first the grammar
\* does not take, with padding behind: d the drafts, p what is placed.
Fitted(d, p, state) ==
  /\ d \in Seq(Tokens) /\ p \in Seq(Tokens \cup {Pad})
  /\ Len(p) <= Len(d)
  /\ \E m \in 0..Len(p) :
       /\ \A i \in 1..m : p[i] = d[i]
       /\ \A i \in 1..Len(p) : i > m => p[i] = Pad
       /\ m < Len(p) => d[m + 1] \notin Allowed(State(state, SubSeq(d, 1, m)))

DraftsFor(r) == IF r \in DOMAIN drafts THEN drafts[r].ids ELSE <<>>

\* What is sampled behind such drafts is taken.
LEMMA SampledAccepted ==
  ASSUME NEW s, NEW r, r \in s.yields,
         Fitted(DraftsFor(r), s.placed[r], grammar[r]),
         NEW o \in Sampled(s, r)
  PROVE  o \in Seq(Tokens) /\ Accepts(grammar[r], o)
<1> DEFINE d == DraftsFor(r)
           p == s.placed[r]
           g == grammar[r]
<1>1. /\ d \in Seq(Tokens) /\ p \in Seq(Tokens \cup {Pad})
      /\ Len(p) <= Len(d)
  BY DEF Fitted
<1>2. PICK m \in 0..Len(p) :
       /\ \A i \in 1..m : p[i] = d[i]
       /\ \A i \in 1..Len(p) : i > m => p[i] = Pad
       /\ m < Len(p) => d[m + 1] \notin Allowed(State(g, SubSeq(d, 1, m)))
  BY DEF Fitted
<1>3. /\ o \in UNION {{Append(SubSeq(d, 1, k), t) : t \in Tokens} : k \in 0..Len(p)}
      /\ \A i \in 1..Len(o) : o[i] \in Mask(s, r, g, i)
  BY DEF Sampled, DraftsFor
<1>4. PICK k \in 0..Len(p) : o \in {Append(SubSeq(d, 1, k), t) : t \in Tokens}
  BY <1>3
<1>5. PICK t \in Tokens : o = Append(SubSeq(d, 1, k), t)
  BY <1>4
<1>6. Len(d) \in Nat /\ Len(p) \in Nat
  BY <1>1, Members
<1> HIDE DEF d, p, g
<1>7. k \in 0..Len(d) /\ m \in 0..Len(d) /\ k \in Nat /\ m \in Nat
  BY <1>1, <1>6
<1>8. /\ SubSeq(d, 1, k) \in Seq(Tokens) /\ Len(SubSeq(d, 1, k)) = k
      /\ \A i \in 1..k : SubSeq(d, 1, k)[i] = d[i]
  BY <1>1, <1>7, Prefix
<1>9. o \in Seq(Tokens) /\ Len(o) = k + 1 /\ \A i \in 1..k : o[i] = d[i]
  BY <1>5, <1>7, <1>8, AppendProperties
\* What the mask lets through where no padding is before it.
<1>10. ASSUME NEW i \in 1..(k + 1), i - 1 <= m
       PROVE  /\ SubSeq(o, 1, i - 1) = SubSeq(d, 1, i - 1)
              /\ o[i] \in Allowed(State(g, SubSeq(o, 1, i - 1)))
  <2>1. /\ i - 1 \in 0..Len(p) /\ i - 1 \in 0..Len(d) /\ i - 1 \in 0..Len(o)
        /\ i \in 1..Len(o)
    BY <1>1, <1>6, <1>7, <1>9, <1>10
  <2>2. /\ \A j \in 1..(i - 1) : p[j] = d[j]
        /\ \A j \in 1..(i - 1) : o[j] = d[j]
    BY <1>2, <1>7, <1>9, <1>10
  <2>3. SubSeq(p, 1, i - 1) = SubSeq(d, 1, i - 1)
    BY <1>1, <2>1, <2>2, SamePrefix
  <2>4. SubSeq(o, 1, i - 1) = SubSeq(d, 1, i - 1)
    BY <1>1, <1>9, <2>1, <2>2, SamePrefix
  <2>5. /\ SubSeq(d, 1, i - 1) \in Seq(Tokens)
    BY <1>1, <2>1, Prefix
  <2>6. ~Contains(SubSeq(d, 1, i - 1), Pad)
    <3> DEFINE q == SubSeq(d, 1, i - 1)
    <3>1. \A j \in 1..Len(q) : q[j] \in Tokens
      BY <2>5, Members
    <3>2. Pad \notin Tokens
      BY DEF Pad, Tokens
    <3> HIDE DEF q
    <3>3. ~Contains(q, Pad)
      BY <3>1, <3>2 DEF Contains
    <3> QED BY <3>3 DEF q
  <2>7. o[i] \in Mask(s, r, g, i)
    BY <1>3, <2>1 DEF g
  <2>8. Mask(s, r, g, i) = IF Contains(SubSeq(p, 1, i - 1), Pad) THEN Tokens
                            ELSE Allowed(State(g, SubSeq(p, 1, i - 1)))
    BY DEF Mask, MaskedRequests, p
  <2>9. Mask(s, r, g, i) = Allowed(State(g, SubSeq(d, 1, i - 1)))
    BY <2>3, <2>6, <2>8
  <2> QED BY <2>4, <2>7, <2>9
<1>11. k <= m
  <2> SUFFICES ASSUME m < k PROVE FALSE
    BY <1>7
  <2>1. m + 1 \in 1..(k + 1) /\ m + 1 - 1 <= m /\ m + 1 - 1 = m /\ m + 1 \in 1..k /\ m < Len(p)
    BY <1>6, <1>7
  <2>2. /\ SubSeq(o, 1, m) = SubSeq(d, 1, m)
        /\ o[m + 1] \in Allowed(State(g, SubSeq(o, 1, m)))
    BY <1>10, <2>1
  <2>3. o[m + 1] = d[m + 1]
    BY <1>9, <2>1
  <2> QED BY <1>2, <2>1, <2>2, <2>3 DEF d, p, g
<1>12. Accepts(g, o)
  <2> SUFFICES ASSUME NEW i \in 1..(k + 1)
               PROVE  o[i] \in Allowed(State(g, SubSeq(o, 1, i - 1)))
    BY <1>9 DEF Accepts
  <2>1. i - 1 <= m
    BY <1>7, <1>11
  <2> QED BY <1>10, <2>1
<1> QED BY <1>9, <1>12 DEF g

\* validate_tokens() finds the longest prefix the grammar takes.
LEMMA ValidatedPrefix ==
  ASSUME NEW state, NEW d \in Seq(Tokens)
  PROVE  \E m \in 0..Len(d) :
           /\ Validated(state, d) = SubSeq(d, 1, m)
           /\ m < Len(d) => d[m + 1] \notin Allowed(State(state, SubSeq(d, 1, m)))
<1> DEFINE s == {n \in 0..Len(d) : Accepts(state, SubSeq(d, 1, n))}
<1>1. Len(d) \in Nat
  BY Members
<1>2. 0 \in 0..Len(d) /\ Len(SubSeq(d, 1, 0)) = 0
  BY <1>1, Prefix
<1>3. Accepts(state, SubSeq(d, 1, 0))
  BY <1>2 DEF Accepts
<1>4. s \in SUBSET (0..Len(d)) /\ s # {}
  BY <1>2, <1>3
<1>5. Max(s) \in s /\ \A i \in s : i <= Max(s)
  <2> HIDE DEF s
  <2> QED BY <1>1, <1>4, LargestPosition
<1>6. PICK m \in 0..Len(d) : m = Max(s)
  BY <1>5
<1>7. Accepts(state, SubSeq(d, 1, m)) /\ Validated(state, d) = SubSeq(d, 1, m)
  BY <1>5, <1>6 DEF Validated
<1>8. ASSUME m < Len(d), d[m + 1] \in Allowed(State(state, SubSeq(d, 1, m)))
      PROVE  FALSE
  <2>1. m + 1 \in 0..Len(d) /\ m + 1 \in Nat /\ ~(m + 1 <= m)
    BY <1>1, <1>8
  <2>2. /\ Len(SubSeq(d, 1, m + 1)) = m + 1
        /\ \A i \in 1..(m + 1) : SubSeq(d, 1, m + 1)[i] = d[i]
    BY <2>1, Prefix
  <2>3. /\ Len(SubSeq(d, 1, m)) = m
        /\ \A i \in 1..m : SubSeq(d, 1, m)[i] = d[i]
    BY Prefix
  <2>4. ASSUME NEW i \in 1..(m + 1)
        PROVE  SubSeq(d, 1, m + 1)[i]
                 \in Allowed(State(state, SubSeq(SubSeq(d, 1, m + 1), 1, i - 1)))
    <3>1. i - 1 \in 0..(m + 1)
      OBVIOUS
    <3>2. SubSeq(SubSeq(d, 1, m + 1), 1, i - 1) = SubSeq(d, 1, i - 1)
      BY <2>1, <3>1, PrefixOfPrefix
    <3>3. d[i] \in Allowed(State(state, SubSeq(d, 1, i - 1)))
      <4>1. CASE i = m + 1
        BY <1>8, <4>1
      <4>2. CASE i # m + 1
        <5>1. i \in 1..m /\ i - 1 \in 0..m
          BY <4>2
        <5>2. SubSeq(SubSeq(d, 1, m), 1, i - 1) = SubSeq(d, 1, i - 1)
          BY <5>1, PrefixOfPrefix
        <5>3. SubSeq(d, 1, m)[i] \in Allowed(State(state, SubSeq(SubSeq(d, 1, m), 1, i - 1)))
          BY <1>7, <2>3, <5>1 DEF Accepts
        <5> QED BY <2>3, <5>1, <5>2, <5>3
      <4> QED BY <4>1, <4>2
    <3> QED BY <2>2, <3>2, <3>3
  <2>5. Accepts(state, SubSeq(d, 1, m + 1))
    BY <2>2, <2>4 DEF Accepts
  <2>6. m + 1 \in s
    BY <2>1, <2>5
  <2> QED BY <1>5, <1>6, <2>1, <2>6
<1> QED BY <1>7, <1>8

\* Drafts that are handed over in full fit their step.
LEMMA FilteredFits ==
  ASSUME NEW r \in DOMAIN drafts, GoodDrafts(drafts[r]), NEW n \in 0..NumSpec
  PROVE  Fitted(DraftsFor(r), Filtered(r, n), grammar[r]) /\ Len(Filtered(r, n)) = n
<1>1. PICK d : d = drafts[r].ids
  OBVIOUS
<1>2. NumSpec \in Nat
  BY GrammarAssumption
<1>3. d \in Seq(Tokens) /\ Len(d) = NumSpec /\ DraftsFor(r) = d
  BY <1>1, <1>2 DEF GoodDrafts, DraftsFor
<1>4. Min({n, NumSpec}) = n
  <2>1. /\ Min({n, NumSpec}) \in {n, NumSpec}
        /\ Min({n, NumSpec}) <= n /\ Min({n, NumSpec}) <= NumSpec
    BY <1>2, LessOfTwo
  <2> QED BY <1>2, <2>1
<1>5. PICK e : e = SubSeq(d, 1, n)
  OBVIOUS
<1>6. n \in 0..Len(d)
  BY <1>3
<1>7. /\ SubSeq(d, 1, n) \in Seq(Tokens) /\ Len(SubSeq(d, 1, n)) = n
      /\ \A i \in 1..n : SubSeq(d, 1, n)[i] = d[i]
  BY <1>3, <1>6, Prefix
<1>8. e \in Seq(Tokens) /\ Len(e) = n /\ \A i \in 1..n : e[i] = d[i]
  BY <1>5, <1>7
<1>9. PICK m \in 0..n :
        /\ Validated(grammar[r], e) = SubSeq(e, 1, m)
        /\ m < n => e[m + 1] \notin Allowed(State(grammar[r], SubSeq(e, 1, m)))
  BY <1>8, ValidatedPrefix
<1>10. PICK v : v = SubSeq(e, 1, m)
  OBVIOUS
<1>11. /\ SubSeq(e, 1, m) \in Seq(Tokens) /\ Len(SubSeq(e, 1, m)) = m
       /\ \A i \in 1..m : SubSeq(e, 1, m)[i] = e[i]
  BY <1>8, Prefix
<1>12. /\ Len(v) = m /\ \A i \in 1..m : v[i] \in Tokens /\ v[i] = d[i]
  <2>1. \A i \in 1..m : i \in 1..n
    OBVIOUS
  <2>2. \A i \in 1..m : v[i] \in Tokens
    BY <1>10, <1>11, Members
  <2> QED BY <1>8, <1>10, <1>11, <2>1, <2>2
<1>13. Filtered(r, n) = [k \in 1..n |-> IF k <= m THEN v[k] ELSE Pad]
  <2>1. drafts[r].length = NumSpec
    BY DEF GoodDrafts
  <2>2. SubSeq(drafts[r].ids, 1, Min({n, drafts[r].length})) = e
    BY <1>1, <1>4, <1>5, <2>1
  <2>3. Filtered(r, n) = [k \in 1..n |-> IF k <= Len(Validated(grammar[r], e))
                                           THEN Validated(grammar[r], e)[k] ELSE Pad]
    BY <2>2 DEF Filtered
  <2>4. Validated(grammar[r], e) = v
    BY <1>9, <1>10
  <2> QED BY <1>12, <2>3, <2>4
<1>14. PICK p : p = Filtered(r, n)
  OBVIOUS
<1>15. p = [k \in 1..n |-> IF k <= m THEN v[k] ELSE Pad]
  BY <1>13, <1>14
<1>16. \A k \in 1..n : (IF k <= m THEN v[k] ELSE Pad) \in Tokens \cup {Pad}
  BY <1>12
<1>17. p \in Seq(Tokens \cup {Pad}) /\ Len(p) = n
  BY <1>15, <1>16
<1>18. /\ \A i \in 1..m : p[i] = d[i]
       /\ \A i \in 1..n : i > m => p[i] = Pad
  BY <1>12, <1>15
<1>19. m < n => d[m + 1] \notin Allowed(State(grammar[r], SubSeq(d, 1, m)))
  <2>1. SubSeq(SubSeq(d, 1, n), 1, m) = SubSeq(d, 1, m)
    BY <1>3, <1>6, PrefixOfPrefix
  <2>2. m < n => m + 1 \in 1..n
    OBVIOUS
  <2> QED BY <1>5, <1>8, <1>9, <2>1, <2>2
<1>20. Fitted(d, p, grammar[r])
  <2>1. d \in Seq(Tokens) /\ Len(p) <= Len(d)
    BY <1>3, <1>6, <1>17
  <2>2. /\ m \in 0..Len(p)
        /\ \A i \in 1..m : p[i] = d[i]
        /\ \A i \in 1..Len(p) : i > m => p[i] = Pad
        /\ m < Len(p) => d[m + 1] \notin Allowed(State(grammar[r], SubSeq(d, 1, m)))
    BY <1>17, <1>18, <1>19
  <2> QED BY <1>17, <2>1, <2>2 DEF Fitted
<1> QED BY <1>3, <1>14, <1>17, <1>20

\* Where nothing is placed, everything fits.
LEMMA NothingPlacedFits ==
  ASSUME NEW r, r \in DOMAIN drafts => GoodDrafts(drafts[r]), NEW p, NEW state,
         p = [k \in 1..0 |-> Pad]
  PROVE  Fitted(DraftsFor(r), p, state)
<1>1. NumSpec \in Nat
  BY GrammarAssumption
<1>2. DraftsFor(r) \in Seq(Tokens) /\ Len(DraftsFor(r)) \in Nat
  <2>1. CASE r \in DOMAIN drafts
    BY <1>1, <2>1 DEF DraftsFor, GoodDrafts
  <2>2. CASE r \notin DOMAIN drafts
    BY <2>2 DEF DraftsFor
  <2> QED BY <2>1, <2>2
<1>3. p \in Seq(Tokens \cup {Pad}) /\ Len(p) = 0
  OBVIOUS
<1> QED BY <1>2, <1>3 DEF Fitted

\* Who is in flight.
LEMMA FlightOf ==
  /\ flight = <<>> => \A r : ~InFlight(r)
  /\ \A f : flight = <<f>> => \A r : InFlight(r) <=> r \in DOMAIN f.sampled
  /\ \A e, f : flight = <<e, f>> =>
       \A r : InFlight(r) <=> r \in DOMAIN e.sampled \/ r \in DOMAIN f.sampled
<1>1. flight = <<>> => \A r : ~InFlight(r)
  BY DEF InFlight
<1>2. ASSUME NEW f, flight = <<f>>
      PROVE  \A r : InFlight(r) <=> r \in DOMAIN f.sampled
  <2>1. DOMAIN flight = {1} /\ flight[1] = f
    BY <1>2
  <2> QED BY <2>1, Zenon DEF InFlight
<1>3. ASSUME NEW e, NEW f, flight = <<e, f>>
      PROVE  \A r : InFlight(r) <=> r \in DOMAIN e.sampled \/ r \in DOMAIN f.sampled
  <2>1. DOMAIN flight = {1, 2} /\ flight[1] = e /\ flight[2] = f
    BY <1>3
  <2>2. ASSUME NEW r PROVE InFlight(r) <=> r \in DOMAIN e.sampled \/ r \in DOMAIN f.sampled
    BY <2>1 DEF InFlight
  <2> QED BY <2>2
<1> QED BY <1>1, <1>2, <1>3

\* A step that is sampled leaves a frame, and drafts for each of its rows.
LEMMA FrameOfStep ==
  ASSUME ShortDrafts = FALSE, NEW s, NEW q, SampleMasked(s, q),
         s.yields \subseteq DOMAIN s.placed
  PROVE  /\ DOMAIN drafts' = DOMAIN s.placed
         /\ \A r \in DOMAIN drafts' : GoodDrafts(drafts'[r])
         /\ \E f : /\ flight' = Append(q, f)
                   /\ DOMAIN f.sampled = s.yields
                   /\ \A r \in s.yields : f.sampled[r] \in Sampled(s, r)
                   /\ \A r \in s.yields : f.lengths[r] \in Nat
<1>1. NumSpec \in Nat
  BY GrammarAssumption
<1>2. PICK outcome \in [s.yields -> UNION {Sampled(s, r) : r \in s.yields}] :
        \E proposed \in [DOMAIN s.placed -> [1..NumSpec -> Tokens \ {"word"}]],
           length \in [DOMAIN s.placed -> IF ShortDrafts THEN 0..NumSpec ELSE {NumSpec}] :
          /\ \A r \in s.yields : outcome[r] \in Sampled(s, r)
          /\ drafts' = [r \in DOMAIN proposed |-> [ids |-> proposed[r], length |-> length[r]]]
          /\ flight' = Append(q, [sampled |-> outcome, lengths |-> length])
  BY DEF SampleMasked
<1>3. PICK proposed \in [DOMAIN s.placed -> [1..NumSpec -> Tokens \ {"word"}]] :
        \E length \in [DOMAIN s.placed -> IF ShortDrafts THEN 0..NumSpec ELSE {NumSpec}] :
          /\ \A r \in s.yields : outcome[r] \in Sampled(s, r)
          /\ drafts' = [r \in DOMAIN proposed |-> [ids |-> proposed[r], length |-> length[r]]]
          /\ flight' = Append(q, [sampled |-> outcome, lengths |-> length])
  BY <1>2
<1>4. PICK length \in [DOMAIN s.placed -> IF ShortDrafts THEN 0..NumSpec ELSE {NumSpec}] :
          /\ \A r \in s.yields : outcome[r] \in Sampled(s, r)
          /\ drafts' = [r \in DOMAIN proposed |-> [ids |-> proposed[r], length |-> length[r]]]
          /\ flight' = Append(q, [sampled |-> outcome, lengths |-> length])
  BY <1>3
<1>5. length \in [DOMAIN s.placed -> {NumSpec}]
  BY <1>4
<1>6. DOMAIN drafts' = DOMAIN s.placed
  BY <1>4
<1>7. ASSUME NEW r \in DOMAIN drafts' PROVE GoodDrafts(drafts'[r])
  <2>1. drafts'[r] = [ids |-> proposed[r], length |-> length[r]] /\ r \in DOMAIN s.placed
    BY <1>4, <1>6
  <2>2. proposed[r] \in [1..NumSpec -> Tokens] /\ length[r] = NumSpec
    BY <1>5, <2>1
  <2> QED BY <2>1, <2>2 DEF GoodDrafts
<1>8. PICK f : f = [sampled |-> outcome, lengths |-> length]
  OBVIOUS
<1>9. f.sampled = outcome /\ f.lengths = length
  BY <1>8
<1>10. flight' = Append(q, f)
  BY <1>4, <1>8
<1>11. DOMAIN f.sampled = s.yields
  BY <1>9
<1>12. \A r \in s.yields : f.sampled[r] \in Sampled(s, r)
  BY <1>4, <1>9
<1>13. \A r \in s.yields : f.lengths[r] \in Nat
  BY <1>1, <1>5, <1>9
<1> QED BY <1>6, <1>7, <1>10, <1>11, <1>12, <1>13

\* The frame is one the grammars take if the drafts of the step fit.
LEMMA FrameTaken ==
  ASSUME NEW s, NEW f, s.yields \subseteq Structured,
         DOMAIN f.sampled = s.yields,
         \A r \in s.yields : f.sampled[r] \in Sampled(s, r),
         \A r \in s.yields : f.lengths[r] \in Nat,
         \A r \in s.yields : ~Done(r) =>
           Fitted(DraftsFor(r), s.placed[r], grammar[r])
  PROVE  Taken(f)
<1>1. ASSUME NEW r \in Live(f)
      PROVE  f.sampled[r] \in Seq(Tokens) /\ Accepts(grammar[r], f.sampled[r])
  <2>1. r \in s.yields /\ ~Done(r)
    BY <1>1 DEF Live
  <2>2. Fitted(DraftsFor(r), s.placed[r], grammar[r]) /\ f.sampled[r] \in Sampled(s, r)
    BY <2>1
  <2> QED BY <2>1, <2>2, SampledAccepted
<1> QED BY <1>1 DEF Taken

-----------------------------------------------------------------------------
LEMMA InitGrammar == GrammarInit => GrammarInv
<1> SUFFICES ASSUME GrammarInit PROVE GrammarInv
  OBVIOUS
<1>1. NumSpec \in Nat /\ MaxTokens \in Nat /\ MaxChunks \in Nat
  BY GrammarAssumption
<1>2. DOMAIN <<>> = {} /\ GoodStep(NoStep)
  BY DEF GoodStep, NoStep
<1>3. GrammarTypes
  <2>1. chunks \in [Structured -> Nat]
    BY <1>1 DEF GrammarInit
  <2> QED BY <1>1, <1>2, <2>1 DEF GrammarInit, GrammarTypes
<1>4. DraftsOwed
  BY DEF GrammarInit, DraftsOwed
<1> QED BY <1>3, <1>4 DEF GrammarInv, GrammarInit, FramesTaken, DeferredDrafted, GrammarHolds

\* What is scheduled is a step that waits, and takes one chunk of a prompt.
LEMMA ScheduledStepGood ==
  ASSUME GrammarTypes
  PROVE  /\ GoodStep(ScheduledStep)
         /\ ScheduledStep.yields = {r \in Scheduled : chunks[r] <= 1}
         /\ DOMAIN ScheduledStep.placed = Scheduled
         /\ \A r \in Scheduled : /\ ScheduledStep.placed[r] = [k \in 1..specLen[r] |-> Pad]
                                 /\ Len(ScheduledStep.placed[r]) = specLen[r]
<1>1. NumSpec \in Nat
  BY GrammarAssumption
<1>2. Scheduled \subseteq Structured
  BY DEF Scheduled
<1>3. ScheduledStep.yields = {r \in Scheduled : chunks[r] <= 1}
      /\ DOMAIN ScheduledStep.placed = Scheduled
      /\ \A r \in Scheduled : ScheduledStep.placed[r] = [k \in 1..specLen[r] |-> Pad]
  BY DEF ScheduledStep
<1>4. \A r \in Scheduled : specLen[r] \in 0..NumSpec
  BY <1>2 DEF GrammarTypes
<1>5. ASSUME NEW r \in Scheduled PROVE Len(ScheduledStep.placed[r]) = specLen[r]
  <2>1. PICK n \in Nat : n = specLen[r]
    BY <1>1, <1>4
  <2>2. PICK p : p = [k \in 1..n |-> Pad]
    OBVIOUS
  <2>3. Len(p) = n
    BY <2>2
  <2> QED BY <1>3, <2>1, <2>2, <2>3
<1> QED BY <1>2, <1>3, <1>4, <1>5 DEF GoodStep

\* schedule(), to the queue and to the drafts it expects.
LEMMA ScheduleAdvances ==
  ASSUME GrammarTypes, Schedule
  PROVE  /\ chunks' \in [Structured -> Nat] /\ specLen' \in [Structured -> 0..NumSpec]
         /\ \A r \in Structured :
              /\ r \notin Scheduled => chunks'[r] = chunks[r] /\ specLen'[r] = specLen[r]
              /\ r \in Scheduled /\ chunks'[r] = 0 => r \in ScheduledStep.yields
              /\ r \in ScheduledStep.yields => chunks'[r] = 0
              /\ r \notin ScheduledStep.yields => specLen'[r] = specLen[r]
<1>1. NumSpec \in Nat
  BY GrammarAssumption
<1>2. /\ chunks' = [r \in Structured |->
                      IF r \in Scheduled THEN Max({0, chunks[r] - 1}) ELSE chunks[r]]
      /\ specLen' = [r \in Structured |->
                       IF r \in ScheduledStep.yields THEN NumSpec ELSE specLen[r]]
  BY DEF Schedule
<1>3. /\ ScheduledStep.yields = {r \in Scheduled : chunks[r] <= 1}
  BY ScheduledStepGood
<1>4. ASSUME NEW x \in Nat
      PROVE  Max({0, x - 1}) \in Nat /\ (Max({0, x - 1}) = 0 <=> x <= 1)
  <2>1. CASE x = 0
    <3>1. \E z \in {0, x - 1} : \A e \in {0, x - 1} : z >= e
      BY <2>1
    <3>2. Max({0, x - 1}) \in {0, x - 1} /\ \A e \in {0, x - 1} : Max({0, x - 1}) >= e
      BY <3>1 DEF Max
    <3> QED BY <2>1, <3>2
  <2>2. CASE x # 0
    <3>1. \E z \in {0, x - 1} : \A e \in {0, x - 1} : z >= e
      BY <2>2
    <3>2. Max({0, x - 1}) \in {0, x - 1} /\ \A e \in {0, x - 1} : Max({0, x - 1}) >= e
      BY <3>1 DEF Max
    <3> QED BY <2>2, <3>2
  <2> QED BY <2>1, <2>2
<1>5. \A r \in Structured : chunks[r] \in Nat /\ specLen[r] \in 0..NumSpec
  BY DEF GrammarTypes
<1>6. ASSUME NEW r \in Structured
      PROVE  /\ chunks'[r] \in Nat
             /\ r \notin Scheduled => chunks'[r] = chunks[r]
             /\ r \in Scheduled => (chunks'[r] = 0 <=> chunks[r] <= 1)
  <2>1. PICK x \in Nat : x = chunks[r]
    BY <1>5
  <2> QED BY <1>2, <1>4, <2>1
<1>7. chunks' \in [Structured -> Nat]
  BY <1>2, <1>6
<1>8. specLen' \in [Structured -> 0..NumSpec]
  BY <1>1, <1>2, <1>5
<1> QED BY <1>2, <1>3, <1>6, <1>7, <1>8

\* schedule() of a step that waits for the one before it.
LEMMA ScheduleWaits ==
  ASSUME GrammarInv, Schedule, Pending(ScheduledStep), deferred' = ScheduledStep,
         UNCHANGED <<flight, drafts>>
  PROVE  GrammarInv'
<1> USE DEF GrammarInv
<1>1. /\ made' = made /\ grammar' = grammar /\ rejected' = rejected
      /\ flight' = flight /\ drafts' = drafts
      /\ deferred = NoStep /\ Scheduled # {} /\ Len(flight) < 2
  BY DEF Schedule
<1>2. \A r : Done(r)' <=> Done(r)
  BY <1>1 DEF Done
<1>3. /\ chunks' \in [Structured -> Nat] /\ specLen' \in [Structured -> 0..NumSpec]
      /\ \A r \in Structured :
           /\ r \notin Scheduled => chunks'[r] = chunks[r] /\ specLen'[r] = specLen[r]
           /\ r \in Scheduled /\ chunks'[r] = 0 => r \in ScheduledStep.yields
           /\ r \in ScheduledStep.yields => chunks'[r] = 0
           /\ r \notin ScheduledStep.yields => specLen'[r] = specLen[r]
  BY ScheduleAdvances
<1>4. /\ GoodStep(ScheduledStep)
      /\ ScheduledStep.yields = {r \in Scheduled : chunks[r] <= 1}
      /\ DOMAIN ScheduledStep.placed = Scheduled
      /\ \A r \in Scheduled : Len(ScheduledStep.placed[r]) = specLen[r]
  BY ScheduledStepGood
<1>5. GrammarTypes'
  <2>1. PICK s : s = ScheduledStep
    OBVIOUS
  <2>2. GoodStep(s)
    BY <1>4, <2>1
  <2>3. deferred' = s
    BY <2>1
  <2> QED BY <1>1, <1>3, <2>2, <2>3 DEF GrammarTypes
<1>6. deferred' # NoStep
  <2>1. DOMAIN NoStep.placed = {}
    BY DEF NoStep
  <2>2. DOMAIN deferred'.placed # {}
    BY <1>1, <1>4
  <2> QED BY <2>1, <2>2
<1>7. \A f : Taken(f) => Taken(f)'
  BY <1>1, <1>2 DEF Taken, Live
<1>8. flight = <<>> \/ \E f : flight = <<f>> /\ Taken(f) /\ DOMAIN f.sampled \subseteq DOMAIN drafts
  <2>1. ASSUME NEW e, NEW f, flight = <<e, f>> PROVE FALSE
    BY <1>1, <2>1
  <2> QED BY <2>1 DEF FramesTaken
<1>9. FramesTaken'
  BY <1>1, <1>7, <1>8 DEF FramesTaken
<1>10. DraftsOwed'
  <2>1. ASSUME NEW r \in Structured, chunks'[r] > 0 PROVE specLen'[r] = 0
    <3>1. r \notin ScheduledStep.yields /\ specLen'[r] = specLen[r]
      BY <1>3, <2>1
    <3>2. chunks[r] > 0
      <4>1. CASE r \in Scheduled
        <5>1. ~(chunks[r] <= 1) /\ chunks[r] \in Nat
          BY <1>4, <3>1, <4>1 DEF GrammarTypes
        <5> QED BY <5>1
      <4>2. CASE r \notin Scheduled
        BY <1>3, <2>1, <4>2
      <4> QED BY <4>1, <4>2
    <3> QED BY <3>1, <3>2 DEF DraftsOwed
  <2> QED BY <1>6, <2>1 DEF DraftsOwed
<1>11. DeferredDrafted'
  <2> SUFFICES ASSUME NEW r \in Structured, ~Done(r)
               PROVE  /\ chunks'[r] = 0 => r \in ScheduledStep.yields
                      /\ r \in ScheduledStep.yields
                           /\ Len(ScheduledStep.placed[r]) > 0 => r \in DOMAIN drafts
    BY <1>1, <1>2 DEF DeferredDrafted
  <2>1. ASSUME chunks'[r] = 0 PROVE r \in ScheduledStep.yields
    <3>1. CASE r \in Scheduled
      BY <1>3, <2>1, <3>1
    <3>2. CASE r \notin Scheduled
      <4>1. chunks[r] = 0
        BY <1>3, <2>1, <3>2
      <4>2. r \in Scheduled
        BY <4>1 DEF Scheduled
      <4> QED BY <3>2, <4>2
    <3> QED BY <3>1, <3>2
  <2>2. ASSUME r \in ScheduledStep.yields, Len(ScheduledStep.placed[r]) > 0
        PROVE  r \in DOMAIN drafts
    <3>1. specLen[r] > 0
      BY <1>4, <2>2
    <3>2. InFlight(r)
      BY <1>1, <3>1 DEF DraftsOwed
    <3>3. PICK f : flight = <<f>> /\ DOMAIN f.sampled \subseteq DOMAIN drafts
      BY <1>8, <3>2, FlightOf
    <3>4. r \in DOMAIN f.sampled
      BY <3>2, <3>3, FlightOf
    <3> QED BY <3>3, <3>4
  <2> QED BY <2>1, <2>2
<1>12. GrammarHolds'
  BY <1>1 DEF GrammarHolds
<1> QED BY <1>5, <1>9, <1>10, <1>11, <1>12

LEMMA AppendToOne ==
  ASSUME NEW e, NEW f PROVE Append(<<e>>, f) = <<e, f>>
<1>1. PICK s : s = <<e>>
  OBVIOUS
<1>2. PICK S : e \in S /\ f \in S
  <2>1. e \in {e, f} /\ f \in {e, f}
    OBVIOUS
  <2> QED BY <2>1
<1>3. s \in Seq(S) /\ Len(s) = 1 /\ s[1] = e
  BY <1>1, <1>2
<1>4. PICK u : u = Append(s, f)
  OBVIOUS
<1>5. u \in Seq(S) /\ Len(u) = 2 /\ u[1] = e /\ u[2] = f
  <2>1. /\ Append(s, f) \in Seq(S) /\ Len(Append(s, f)) = Len(s) + 1
        /\ \A i \in 1..Len(s) : Append(s, f)[i] = s[i]
        /\ Append(s, f)[Len(s) + 1] = f
    <3>1. s \in Seq(S) /\ f \in S
      BY <1>2, <1>3
    <3> QED BY <3>1, AppendProperties
  <2> QED BY <1>3, <1>4, <2>1
<1>6. PICK v : v = <<e, f>>
  OBVIOUS
<1>7. v \in Seq(S) /\ Len(v) = 2 /\ v[1] = e /\ v[2] = f
  BY <1>2, <1>6
<1>8. \A i \in 1..Len(u) : u[i] = v[i]
  BY <1>5, <1>7
<1>9. u = v
  BY <1>5, <1>7, <1>8, SeqEqual
<1> QED BY <1>1, <1>4, <1>6, <1>9

\* A sampled step is one more frame behind at most one.
LEMMA FramesAppended ==
  ASSUME FramesTaken, Len(flight) < 2, UNCHANGED <<made, grammar, rejected>>,
         NEW f, flight' = Append(flight, f), Taken(f),
         DOMAIN f.sampled \subseteq DOMAIN drafts',
         \A r \in DOMAIN f.sampled : ~InFlight(r),
         \A r \in Structured : InFlight(r) => Done(r) \/ chunks'[r] > 0
  PROVE  /\ FramesTaken'
         /\ \A r : InFlight(r)' <=> InFlight(r) \/ r \in DOMAIN f.sampled
<1>1. \A r : Done(r)' <=> Done(r)
  BY DEF Done
<1>2. \A e : Taken(e) => Taken(e)'
  BY <1>1 DEF Taken, Live
<1>3. CASE flight = <<>>
  <2>1. flight' = <<f>>
    BY <1>3
  <2>2. \A r : InFlight(r)' <=> r \in DOMAIN f.sampled
    <3>1. DOMAIN flight' = {1} /\ flight'[1] = f
      BY <2>1
    <3> QED BY <3>1, Zenon DEF InFlight
  <2>3. \A r : ~InFlight(r)
    BY <1>3, FlightOf
  <2> QED BY <1>2, <2>1, <2>2, <2>3 DEF FramesTaken
<1>4. ASSUME NEW e, flight = <<e>>, Taken(e)
      PROVE  /\ FramesTaken'
             /\ \A r : InFlight(r)' <=> InFlight(r) \/ r \in DOMAIN f.sampled
  <2>1. flight' = <<e, f>>
    BY <1>4, AppendToOne, Zenon
  <2>2. \A r : InFlight(r) <=> r \in DOMAIN e.sampled
    BY <1>4, FlightOf
  <2>3. ASSUME NEW r PROVE InFlight(r)' <=> r \in DOMAIN e.sampled \/ r \in DOMAIN f.sampled
    <3>1. DOMAIN flight' = {1, 2} /\ flight'[1] = e /\ flight'[2] = f
      BY <2>1
    <3> QED BY <3>1 DEF InFlight
  <2>4. DOMAIN e.sampled \intersect DOMAIN f.sampled = {}
    BY <2>2
  <2>5. \A r \in DOMAIN e.sampled : Done(r)' \/ chunks'[r] > 0
    BY <1>1, <1>4, <2>2 DEF Taken
  <2>6. FramesTaken'
    BY <1>2, <1>4, <2>1, <2>4, <2>5 DEF FramesTaken
  <2> QED BY <2>2, <2>3, <2>6
<1>5. ASSUME NEW d, NEW e, flight = <<d, e>> PROVE FALSE
  BY <1>5
<1> QED BY <1>3, <1>4, <1>5 DEF FramesTaken

\* schedule() of a step that is sampled at once: none of it is owed a token,
\* so no drafts are placed.
LEMMA ScheduleSamples ==
  ASSUME ShortDrafts = FALSE, GrammarInv, Schedule, ~Pending(ScheduledStep),
         SampleMasked(ScheduledStep, flight), UNCHANGED deferred
  PROVE  GrammarInv'
<1> USE DEF GrammarInv
<1>1. /\ made' = made /\ grammar' = grammar /\ rejected' = rejected
      /\ deferred' = deferred /\ deferred = NoStep /\ Len(flight) < 2
  BY DEF Schedule
<1>2. \A r : Done(r)' <=> Done(r)
  BY <1>1 DEF Done
<1>3. /\ chunks' \in [Structured -> Nat] /\ specLen' \in [Structured -> 0..NumSpec]
      /\ \A r \in Structured :
           /\ r \notin Scheduled => chunks'[r] = chunks[r] /\ specLen'[r] = specLen[r]
           /\ r \in Scheduled /\ chunks'[r] = 0 => r \in ScheduledStep.yields
           /\ r \in ScheduledStep.yields => chunks'[r] = 0
           /\ r \notin ScheduledStep.yields => specLen'[r] = specLen[r]
  BY ScheduleAdvances
<1>4. /\ GoodStep(ScheduledStep)
      /\ ScheduledStep.yields = {r \in Scheduled : chunks[r] <= 1}
      /\ DOMAIN ScheduledStep.placed = Scheduled
      /\ \A r \in Scheduled : ScheduledStep.placed[r] = [k \in 1..specLen[r] |-> Pad]
  BY ScheduledStepGood
<1>5. PICK s : s = ScheduledStep
  OBVIOUS
<1>6. s.yields \subseteq DOMAIN s.placed /\ s.yields \subseteq Structured
      /\ s.yields \subseteq Scheduled /\ DOMAIN s.placed = Scheduled
  BY <1>4, <1>5 DEF GoodStep
<1>7. \A r \in Scheduled : ~InFlight(r) /\ ~Done(r)
  BY <1>5, <1>6 DEF Pending, Scheduled
<1>8. SampleMasked(s, flight)
  BY <1>5
<1>9. PICK q : q = flight
  OBVIOUS
<1>10. SampleMasked(s, q)
  BY <1>8, <1>9
<1>11. /\ DOMAIN drafts' = DOMAIN s.placed
       /\ \A r \in DOMAIN drafts' : GoodDrafts(drafts'[r])
       /\ \E f : /\ flight' = Append(q, f)
                 /\ DOMAIN f.sampled = s.yields
                 /\ \A r \in s.yields : f.sampled[r] \in Sampled(s, r)
                 /\ \A r \in s.yields : f.lengths[r] \in Nat
  BY <1>6, <1>10, FrameOfStep
<1>12. PICK f : /\ flight' = Append(flight, f)
                /\ DOMAIN f.sampled = s.yields
                /\ \A r \in s.yields : f.sampled[r] \in Sampled(s, r)
                /\ \A r \in s.yields : f.lengths[r] \in Nat
  BY <1>9, <1>11
<1>13. ASSUME NEW r \in s.yields
       PROVE  Fitted(DraftsFor(r), s.placed[r], grammar[r])
  <2>1. r \in Structured /\ ~Done(r) /\ ~InFlight(r) /\ r \in Scheduled
    BY <1>6, <1>7
  <2>2. specLen[r] = 0
    <3>1. ~(specLen[r] > 0)
      BY <1>1, <2>1 DEF DraftsOwed
    <3>2. specLen[r] \in 0..NumSpec /\ NumSpec \in Nat
      BY <2>1, GrammarAssumption DEF GrammarTypes
    <3> QED BY <3>1, <3>2
  <2>3. s.placed[r] = [k \in 1..0 |-> Pad]
    BY <1>4, <1>5, <2>1, <2>2
  <2>4. r \in DOMAIN drafts => GoodDrafts(drafts[r])
    BY DEF GrammarTypes
  <2> QED BY <2>3, <2>4, NothingPlacedFits
<1>14. Taken(f)
  BY <1>6, <1>12, <1>13, FrameTaken
<1>15. \A r \in Structured : InFlight(r) => Done(r) \/ chunks'[r] > 0
  <2> SUFFICES ASSUME NEW r \in Structured, InFlight(r), ~Done(r)
               PROVE  chunks'[r] > 0
    OBVIOUS
  <2>1. r \notin Scheduled
    BY <1>7
  <2>2. chunks[r] > 0
    BY <2>1 DEF Scheduled
  <2> QED BY <1>3, <2>1, <2>2
<1>16. /\ FramesTaken'
       /\ \A r : InFlight(r)' <=> InFlight(r) \/ r \in DOMAIN f.sampled
  <2>1. FramesTaken /\ UNCHANGED <<made, grammar, rejected>>
    BY <1>1
  <2>2. DOMAIN f.sampled \subseteq DOMAIN drafts'
        /\ \A r \in DOMAIN f.sampled : ~InFlight(r)
    BY <1>6, <1>7, <1>11, <1>12
  <2> QED BY <1>1, <1>12, <1>14, <1>15, <2>1, <2>2, FramesAppended
<1>17. GrammarTypes'
  BY <1>1, <1>3, <1>11 DEF GrammarTypes
<1>18. DraftsOwed'
  <2>1. ASSUME NEW r \in Structured, chunks'[r] > 0 PROVE specLen'[r] = 0
    <3>1. r \notin ScheduledStep.yields /\ specLen'[r] = specLen[r]
      BY <1>3, <2>1
    <3>2. chunks[r] > 0
      <4>1. CASE r \in Scheduled
        <5>1. ~(chunks[r] <= 1) /\ chunks[r] \in Nat
          BY <1>4, <3>1, <4>1 DEF GrammarTypes
        <5> QED BY <5>1
      <4>2. CASE r \notin Scheduled
        BY <1>3, <2>1, <4>2
      <4> QED BY <4>1, <4>2
    <3> QED BY <3>1, <3>2 DEF DraftsOwed
  <2>2. ASSUME NEW r \in Structured, specLen'[r] > 0, ~Done(r)' PROVE InFlight(r)'
    <3>1. CASE r \in s.yields
      BY <1>12, <1>16, <3>1
    <3>2. CASE r \notin s.yields
      <4>1. specLen[r] > 0 /\ ~Done(r)
        BY <1>2, <1>3, <1>5, <2>2, <3>2
      <4> QED BY <1>1, <1>16, <4>1 DEF DraftsOwed
    <3> QED BY <3>1, <3>2
  <2> QED BY <2>1, <2>2 DEF DraftsOwed
<1>19. DeferredDrafted'
  BY <1>1 DEF DeferredDrafted
<1>20. GrammarHolds'
  BY <1>1 DEF GrammarHolds
<1> QED BY <1>16, <1>17, <1>18, <1>19, <1>20

\* The step that waited is sampled when nothing is in flight.
LEMMA DeferredSamples ==
  ASSUME ShortDrafts = FALSE, GrammarInv, SampleDeferred
  PROVE  GrammarInv'
<1> USE DEF GrammarInv
<1>1. /\ chunks' = chunks /\ specLen' = specLen
      /\ made' = made /\ grammar' = grammar /\ rejected' = rejected
      /\ deferred' = NoStep /\ deferred # NoStep /\ flight = <<>>
      /\ SampleMasked(UpdateDraftsInOutput(deferred), flight)
  BY DEF SampleDeferred
<1>2. \A r : Done(r)' <=> Done(r)
  BY <1>1 DEF Done
<1>3. GoodStep(deferred)
  BY DEF GrammarTypes
<1>4. PICK s : s = UpdateDraftsInOutput(deferred)
  OBVIOUS
<1>5. /\ s.yields = deferred.yields /\ DOMAIN s.placed = DOMAIN deferred.placed
      /\ \A r \in DOMAIN s.placed :
           s.placed[r] = IF r \in DOMAIN drafts /\ ~Done(r)
                         THEN Filtered(r, Len(deferred.placed[r]))
                         ELSE deferred.placed[r]
  BY <1>4 DEF UpdateDraftsInOutput
<1>6. s.yields \subseteq DOMAIN s.placed /\ s.yields \subseteq Structured
  BY <1>3, <1>5 DEF GoodStep
<1>7. PICK q : q = flight
  OBVIOUS
<1>8. SampleMasked(s, q)
  BY <1>1, <1>4, <1>7
<1>9. /\ DOMAIN drafts' = DOMAIN s.placed
      /\ \A r \in DOMAIN drafts' : GoodDrafts(drafts'[r])
      /\ \E f : /\ flight' = Append(q, f)
                /\ DOMAIN f.sampled = s.yields
                /\ \A r \in s.yields : f.sampled[r] \in Sampled(s, r)
                /\ \A r \in s.yields : f.lengths[r] \in Nat
  BY <1>6, <1>8, FrameOfStep
<1>10. PICK f : /\ flight' = Append(flight, f)
                /\ DOMAIN f.sampled = s.yields
                /\ \A r \in s.yields : f.sampled[r] \in Sampled(s, r)
                /\ \A r \in s.yields : f.lengths[r] \in Nat
  BY <1>7, <1>9
<1>11. ASSUME NEW r \in s.yields, ~Done(r)
       PROVE  Fitted(DraftsFor(r), s.placed[r], grammar[r])
  <2>1. r \in Structured /\ r \in deferred.yields /\ r \in DOMAIN s.placed
    BY <1>5, <1>6
  <2>2. r \in DOMAIN drafts => GoodDrafts(drafts[r])
    BY DEF GrammarTypes
  <2>3. PICK n \in 0..NumSpec : deferred.placed[r] = [k \in 1..n |-> Pad]
    BY <1>3, <1>5, <2>1 DEF GoodStep
  <2>4. Len(deferred.placed[r]) = n
    <3>1. PICK p : p = [k \in 1..n |-> Pad]
      OBVIOUS
    <3>2. Len(p) = n
      BY <3>1, GrammarAssumption
    <3> QED BY <2>3, <3>1, <3>2
  <2>5. CASE r \in DOMAIN drafts
    <3>1. s.placed[r] = Filtered(r, n)
      BY <1>5, <1>11, <2>1, <2>4, <2>5
    <3>2. Fitted(DraftsFor(r), Filtered(r, n), grammar[r])
      BY <2>2, <2>5, FilteredFits
    <3> QED BY <3>1, <3>2
  <2>6. CASE r \notin DOMAIN drafts
    <3>1. ~(Len(deferred.placed[r]) > 0)
      BY <1>1, <1>11, <2>1, <2>6 DEF DeferredDrafted
    <3>2. n = 0
      BY <2>4, <3>1, GrammarAssumption
    <3>3. s.placed[r] = [k \in 1..0 |-> Pad]
      BY <1>5, <2>1, <2>3, <2>6, <3>2
    <3> QED BY <2>6, <3>3, NothingPlacedFits
  <2> QED BY <2>5, <2>6
<1>12. Taken(f)
  BY <1>6, <1>10, <1>11, FrameTaken
<1>13. \A r : ~InFlight(r)
  BY <1>1, FlightOf
<1>14. /\ FramesTaken'
       /\ \A r : InFlight(r)' <=> InFlight(r) \/ r \in DOMAIN f.sampled
  <2>1. FramesTaken /\ UNCHANGED <<made, grammar, rejected>> /\ Len(flight) < 2
    BY <1>1
  <2>2. DOMAIN f.sampled \subseteq DOMAIN drafts'
        /\ \A r \in DOMAIN f.sampled : ~InFlight(r)
    BY <1>6, <1>9, <1>10, <1>13
  <2> QED BY <1>10, <1>12, <1>13, <2>1, <2>2, FramesAppended
<1>15. GrammarTypes'
  <2>1. GoodStep(NoStep)
    BY DEF GoodStep, NoStep
  <2> QED BY <1>1, <1>9, <2>1 DEF GrammarTypes
<1>16. DraftsOwed'
  <2>1. \A r \in Structured : chunks'[r] > 0 => specLen'[r] = 0
    BY <1>1 DEF DraftsOwed
  <2>2. ASSUME NEW r \in Structured, specLen'[r] > 0, ~Done(r)' PROVE InFlight(r)'
    <3>1. specLen[r] > 0 /\ ~Done(r)
      BY <1>1, <1>2, <2>2
    <3>2. chunks[r] = 0
      <4>1. ~(chunks[r] > 0)
        <5>1. specLen[r] # 0
          BY <3>1
        <5> QED BY <5>1 DEF DraftsOwed
      <4>2. chunks[r] \in Nat
        BY DEF GrammarTypes
      <4> QED BY <4>1, <4>2
    <3>3. r \in deferred.yields
      BY <1>1, <3>1, <3>2 DEF DeferredDrafted
    <3> QED BY <1>5, <1>10, <1>14, <3>3
  <2> QED BY <2>1, <2>2 DEF DraftsOwed
<1>17. DeferredDrafted'
  BY <1>1 DEF DeferredDrafted
<1>18. GrammarHolds'
  BY <1>1 DEF GrammarHolds
<1> QED BY <1>14, <1>15, <1>16, <1>17, <1>18

\* What is received of a frame is taken by the grammar, and not too much.
LEMMA ReceivedTaken ==
  ASSUME GrammarTypes, NEW f, Taken(f), NEW r \in Live(f)
  PROVE  /\ Legal(f, r)
         /\ made[r] + Len(Kept(f, r)) \in 0..MaxTokens
<1>1. PICK o : o = f.sampled[r]
  OBVIOUS
<1>2. o \in Seq(Tokens) /\ Accepts(grammar[r], o) /\ r \in Structured
  BY <1>1 DEF Taken, Live
<1>3. MaxTokens \in Nat /\ made[r] \in 0..MaxTokens
  BY <1>2, GrammarAssumption DEF GrammarTypes
<1>4. PICK x \in Int : x = MaxTokens - made[r] /\ x >= 0
  BY <1>3
<1>5. PICK y \in Int : y = Len(o) /\ y >= 0
  BY <1>2, Members
<1>6. /\ Min({y, x}) \in Int /\ Min({y, x}) <= y /\ Min({y, x}) <= x
      /\ Min({y, x}) \in {y, x}
  BY LessOfTwo
<1>7. PICK n \in 0..Len(o) : n = Min({y, x}) /\ n <= x
  <2>1. PICK z \in Int : z = Min({y, x}) /\ z <= y /\ z <= x /\ (z = y \/ z = x)
    BY <1>6
  <2>2. z \in 0..Len(o)
    BY <1>4, <1>5, <2>1
  <2> QED BY <2>1, <2>2
<1>8. Kept(f, r) = SubSeq(o, 1, n)
  BY <1>1, <1>4, <1>5, <1>7 DEF Kept
<1>9. Accepts(grammar[r], SubSeq(o, 1, n))
  BY <1>2, PrefixAccepted
<1>10. Len(SubSeq(o, 1, n)) = n
  BY <1>2, Prefix
<1>11. made[r] + n \in 0..MaxTokens
  BY <1>3, <1>4, <1>7
<1> QED BY <1>8, <1>9, <1>10, <1>11 DEF Legal

\* What update_from_output() does to the requests, its frame being good.
LEMMA ReceiveAdvances ==
  ASSUME GrammarInv, Receive, NEW h, h = Head(flight), Taken(h)
  PROVE  /\ made' \in [Structured -> 0..MaxTokens]
         /\ specLen' \in [Structured -> 0..NumSpec]
         /\ DOMAIN grammar' = Structured
         /\ rejected' = {}
         /\ \A r \in Structured :
              /\ r \notin DOMAIN h.sampled =>
                   grammar'[r] = grammar[r] /\ specLen'[r] = specLen[r]
              /\ chunks[r] > 0 => specLen'[r] = specLen[r]
              /\ Done(r) => Done(r)'
<1> USE DEF GrammarInv
<1>1. /\ made' = [r \in Structured |->
                    made[r] + IF r \in Live(h) THEN Len(Kept(h, r)) ELSE 0]
      /\ grammar' = [r \in Structured |->
                       IF r \in Live(h) /\ Legal(h, r)
                       THEN State(grammar[r], Kept(h, r)) ELSE grammar[r]]
      /\ rejected' = rejected \cup {r \in Live(h) : ~Legal(h, r)}
      /\ specLen' = [r \in Structured |->
                       IF r \in Live(h) /\ chunks[r] = 0
                       THEN Min({h.lengths[r], NumSpec}) ELSE specLen[r]]
  BY DEF Receive
<1>2. \A r \in Live(h) : Legal(h, r) /\ made[r] + Len(Kept(h, r)) \in 0..MaxTokens
  BY ReceivedTaken
<1>3. rejected' = {}
  BY <1>1, <1>2 DEF GrammarHolds
<1>4. MaxTokens \in Nat /\ NumSpec \in Nat
  BY GrammarAssumption
<1>5. ASSUME NEW r \in Structured
      PROVE  /\ made'[r] \in 0..MaxTokens
             /\ r \notin Live(h) => made'[r] = made[r]
  <2>1. made[r] \in 0..MaxTokens
    BY DEF GrammarTypes
  <2>2. CASE r \in Live(h)
    BY <1>1, <1>2, <2>2
  <2>3. CASE r \notin Live(h)
    BY <1>1, <1>4, <2>1, <2>3
  <2> QED BY <2>2, <2>3
<1>6. ASSUME NEW r \in Structured PROVE specLen'[r] \in 0..NumSpec
  <2>1. specLen[r] \in 0..NumSpec
    BY DEF GrammarTypes
  <2>2. CASE r \in Live(h)
    <3>1. h.lengths[r] \in Nat
      BY <2>2 DEF Taken, Live
    <3>2. PICK x \in Nat : x = h.lengths[r]
      BY <3>1
    <3>3. Min({x, NumSpec}) \in Int /\ Min({x, NumSpec}) <= NumSpec
          /\ Min({x, NumSpec}) \in {x, NumSpec}
      BY <1>4, LessOfTwo
    <3>4. Min({x, NumSpec}) \in 0..NumSpec
      BY <1>4, <3>3
    <3> QED BY <1>1, <2>1, <3>2, <3>4
  <2>3. CASE r \notin Live(h)
    BY <1>1, <2>1, <2>3
  <2> QED BY <2>2, <2>3
<1>7. made' \in [Structured -> 0..MaxTokens]
  BY <1>1, <1>5
<1>8. specLen' \in [Structured -> 0..NumSpec]
  BY <1>1, <1>6
<1>9. DOMAIN grammar' = Structured
  BY <1>1
<1>10. ASSUME NEW r \in Structured
       PROVE  /\ r \notin DOMAIN h.sampled =>
                   grammar'[r] = grammar[r] /\ specLen'[r] = specLen[r]
              /\ chunks[r] > 0 => specLen'[r] = specLen[r]
              /\ Done(r) => Done(r)'
  <2>1. r \notin DOMAIN h.sampled => r \notin Live(h)
    BY DEF Live
  <2>2. Done(r) => r \notin Live(h) /\ made[r] = MaxTokens
    BY DEF Live, Done, GrammarHolds
  <2>3. chunks[r] > 0 => chunks[r] # 0
    OBVIOUS
  <2>4. r \notin DOMAIN h.sampled => grammar'[r] = grammar[r] /\ specLen'[r] = specLen[r]
    BY <1>1, <2>1
  <2>5. chunks[r] > 0 => specLen'[r] = specLen[r]
    BY <1>1, <2>3
  <2>6. Done(r) => Done(r)'
    BY <1>5, <2>2 DEF Done
  <2> QED BY <2>4, <2>5, <2>6
<1> QED BY <1>3, <1>7, <1>8, <1>9, <1>10

LEMMA ReceiveKeeps ==
  ASSUME GrammarInv, Receive
  PROVE  GrammarInv'
<1> USE DEF GrammarInv
<1>1. /\ chunks' = chunks /\ deferred' = deferred /\ drafts' = drafts
      /\ flight # <<>> /\ flight' = Tail(flight)
      /\ deferred # NoStep \/ Len(flight) = 2 \/ Scheduled = {}
  BY DEF Receive
<1>2. PICK h : h = Head(flight)
  OBVIOUS
<1>3. Taken(h)
  <2>1. CASE \E f : flight = <<f>> /\ Taken(f)
    BY <1>2, <2>1
  <2>2. CASE \E e, f : flight = <<e, f>> /\ Taken(e)
    BY <1>2, <2>2
  <2> QED BY <1>1, <2>1, <2>2 DEF FramesTaken
<1>4. /\ made' \in [Structured -> 0..MaxTokens]
      /\ specLen' \in [Structured -> 0..NumSpec]
      /\ DOMAIN grammar' = Structured
      /\ rejected' = {}
      /\ \A r \in Structured :
           /\ r \notin DOMAIN h.sampled =>
                grammar'[r] = grammar[r] /\ specLen'[r] = specLen[r]
           /\ chunks[r] > 0 => specLen'[r] = specLen[r]
           /\ Done(r) => Done(r)'
  BY <1>2, <1>3, ReceiveAdvances
<1>5. GrammarTypes'
  BY <1>1, <1>4 DEF GrammarTypes
<1>6. GrammarHolds'
  BY <1>4 DEF GrammarHolds
<1>7. DeferredDrafted'
  BY <1>1, <1>4 DEF DeferredDrafted
<1>8. \A r \in Structured : chunks'[r] > 0 => specLen'[r] = 0
  BY <1>1, <1>4 DEF DraftsOwed
<1>9. CASE \E f : flight = <<f>>
  <2>1. PICK f : flight = <<f>>
    BY <1>9
  <2>2. flight' = <<>> /\ Len(flight) # 2
    BY <1>1, <2>1
  <2>3. ASSUME deferred = NoStep, NEW r \in Structured, specLen'[r] > 0, ~Done(r)'
        PROVE  FALSE
    <3>1. ~Done(r) /\ r \notin Scheduled
      BY <1>1, <1>4, <2>2, <2>3
    <3>2. chunks[r] > 0
      BY <3>1 DEF Scheduled
    <3>3. specLen'[r] = 0
      BY <1>1, <1>8, <3>2
    <3> QED BY <2>3, <3>3
  <2>4. DraftsOwed'
    BY <1>1, <1>8, <2>3 DEF DraftsOwed
  <2> QED BY <1>5, <1>6, <1>7, <2>2, <2>4 DEF FramesTaken
<1>10. CASE \E e, f : flight = <<e, f>>
  <2>1. PICK e, f : /\ flight = <<e, f>> /\ Taken(e) /\ Taken(f)
                    /\ DOMAIN e.sampled \intersect DOMAIN f.sampled = {}
                    /\ DOMAIN f.sampled \subseteq DOMAIN drafts
                    /\ \A r \in DOMAIN e.sampled : Done(r) \/ chunks[r] > 0
    <3>1. flight # <<>> /\ \A f : flight # <<f>>
      BY <1>10
    <3> QED BY <3>1 DEF FramesTaken
  <2>2. flight' = <<f>> /\ h = e
    BY <1>1, <1>2, <2>1
  <2>3. ASSUME NEW r \in DOMAIN f.sampled, ~Done(r)'
        PROVE  f.sampled[r] \in Seq(Tokens) /\ Accepts(grammar'[r], f.sampled[r])
    <3>1. r \in Structured /\ r \notin DOMAIN e.sampled
      BY <2>1 DEF Taken
    <3>2. ~Done(r) /\ grammar'[r] = grammar[r]
      BY <1>4, <2>2, <2>3, <3>1
    <3>3. r \in Live(f)
      BY <3>2 DEF Live
    <3> QED BY <2>1, <3>2, <3>3 DEF Taken
  <2>4. Taken(f)'
    BY <2>1, <2>3 DEF Taken, Live
  <2>5. FramesTaken'
    BY <1>1, <2>1, <2>2, <2>4 DEF FramesTaken
  <2>6. ASSUME deferred = NoStep, NEW r \in Structured, specLen'[r] > 0, ~Done(r)'
        PROVE  InFlight(r)'
    <3>1. ~Done(r)
      BY <1>4, <2>6
    <3>2. r \notin DOMAIN e.sampled
      <4>1. SUFFICES ASSUME r \in DOMAIN e.sampled PROVE FALSE
        OBVIOUS
      <4>2. chunks[r] > 0
        BY <2>1, <3>1, <4>1
      <4>3. specLen'[r] = 0
        BY <1>1, <1>8, <4>2
      <4> QED BY <2>6, <4>3
    <3>3. specLen[r] > 0
      BY <1>4, <2>2, <2>6, <3>2
    <3>4. InFlight(r)
      BY <2>6, <3>1, <3>3 DEF DraftsOwed
    <3>5. r \in DOMAIN f.sampled
      BY <2>1, <3>2, <3>4, FlightOf
    <3>6. DOMAIN flight' = {1} /\ flight'[1] = f
      BY <2>2
    <3> QED BY <3>5, <3>6, Zenon DEF InFlight
  <2>7. DraftsOwed'
    BY <1>1, <1>8, <2>6 DEF DraftsOwed
  <2> QED BY <1>5, <1>6, <1>7, <2>5, <2>7
<1> QED BY <1>1, <1>9, <1>10 DEF FramesTaken

\* A preempted request computes its prompt again, and has no drafts till then.
LEMMA PreemptKeeps ==
  ASSUME GrammarInv, NEW x \in Structured, Preempt(x)
  PROVE  GrammarInv'
<1> USE DEF GrammarInv
<1>1. /\ chunks' = [chunks EXCEPT ![x] = 1] /\ specLen' = [specLen EXCEPT ![x] = 0]
      /\ made' = made /\ grammar' = grammar /\ rejected' = rejected
      /\ flight' = flight /\ deferred' = deferred /\ drafts' = drafts
      /\ deferred = NoStep
  BY DEF Preempt
<1>2. \A r : /\ Done(r)' <=> Done(r)
             /\ InFlight(r)' <=> InFlight(r)
  BY <1>1 DEF Done, InFlight
<1>3. \A f : Taken(f) => Taken(f)'
  BY <1>1, <1>2 DEF Taken, Live
<1>4. /\ NumSpec \in Nat /\ chunks \in [Structured -> Nat]
      /\ specLen \in [Structured -> 0..NumSpec]
  BY GrammarAssumption DEF GrammarTypes
<1>5. /\ chunks' \in [Structured -> Nat] /\ specLen' \in [Structured -> 0..NumSpec]
      /\ \A r \in Structured : /\ r # x => chunks'[r] = chunks[r] /\ specLen'[r] = specLen[r]
                               /\ r = x => chunks'[r] = 1 /\ specLen'[r] = 0
  BY <1>1, <1>4
<1>6. GrammarTypes'
  BY <1>1, <1>5 DEF GrammarTypes
<1>7. \A r \in Structured : chunks[r] > 0 => chunks'[r] > 0
  BY <1>5
<1>8. FramesTaken'
  <2>1. CASE flight = <<>>
    BY <1>1, <2>1 DEF FramesTaken
  <2>2. CASE \E f : flight = <<f>> /\ Taken(f) /\ DOMAIN f.sampled \subseteq DOMAIN drafts
    BY <1>1, <1>3, <2>2 DEF FramesTaken
  <2>3. ASSUME NEW e, NEW f,
               /\ flight = <<e, f>> /\ Taken(e) /\ Taken(f)
               /\ DOMAIN e.sampled \intersect DOMAIN f.sampled = {}
               /\ DOMAIN f.sampled \subseteq DOMAIN drafts
               /\ \A r \in DOMAIN e.sampled : Done(r) \/ chunks[r] > 0
        PROVE  FramesTaken'
    <3>1. \A r \in DOMAIN e.sampled : Done(r)' \/ chunks'[r] > 0
      BY <1>2, <1>7, <2>3 DEF Taken
    <3> QED BY <1>1, <1>3, <2>3, <3>1 DEF FramesTaken
  <2> QED BY <2>1, <2>2, <2>3 DEF FramesTaken
<1>9. DraftsOwed'
  BY <1>1, <1>2, <1>5 DEF DraftsOwed
<1>10. DeferredDrafted'
  BY <1>1 DEF DeferredDrafted
<1>11. GrammarHolds'
  BY <1>1 DEF GrammarHolds
<1> QED BY <1>6, <1>8, <1>9, <1>10, <1>11

LEMMA GrammarStutters ==
  ASSUME GrammarInv, UNCHANGED grammarVars
  PROVE  GrammarInv'
  BY DEF grammarVars, GrammarInv, GrammarTypes, FramesTaken, Taken, Live, DraftsOwed,
         DeferredDrafted, GrammarHolds, Done, InFlight

(***************************************************************************)
(* Whatever the drafts, the preemptions and the steps in flight, the       *)
(* grammar takes every token update_from_output() receives, for any number *)
(* of requests, drafts, chunks and tokens, as long as the drafts of a row  *)
(* are reported in full (GrammarDecode.tla, take_draft_token_ids()).       *)
(***************************************************************************)
THEOREM GrammarTakesAll ==
  ASSUME ShortDrafts = FALSE PROVE GrammarSpec => []GrammarHolds
<1>1. GrammarInit => GrammarInv
  BY InitGrammar
<1>2. GrammarInv /\ [GrammarNext]_grammarVars => GrammarInv'
  <2> SUFFICES ASSUME GrammarInv, [GrammarNext]_grammarVars PROVE GrammarInv'
    OBVIOUS
  <2>1. CASE Schedule
    <3>1. CASE Pending(ScheduledStep) /\ deferred' = ScheduledStep /\ UNCHANGED <<flight, drafts>>
      BY <2>1, <3>1, ScheduleWaits
    <3>2. CASE /\ ~Pending(ScheduledStep) /\ SampleMasked(ScheduledStep, flight)
               /\ UNCHANGED deferred
      BY <2>1, <3>2, ScheduleSamples
    <3> QED BY <2>1, <3>1, <3>2 DEF Schedule
  <2>2. CASE Receive
    BY <2>2, ReceiveKeeps
  <2>3. CASE SampleDeferred
    BY <2>3, DeferredSamples
  <2>4. ASSUME NEW x \in Structured, Preempt(x) PROVE GrammarInv'
    BY <2>4, PreemptKeeps
  <2>5. CASE UNCHANGED grammarVars
    BY <2>5, GrammarStutters
  <2> QED BY <2>1, <2>2, <2>3, <2>4, <2>5 DEF GrammarNext
<1>3. GrammarInv => GrammarHolds
  BY DEF GrammarInv
<1> QED BY <1>1, <1>2, <1>3, PTL DEF GrammarSpec
-----------------------------------------------------------------------------
(* Graphs.                                                                 *)

LEMMA SliceFacts ==
  ASSUME NEW f, NEW z \in Nat, DOMAIN f = 1..z, NEW n \in Nat
  PROVE  \E j \in Nat : /\ j <= n /\ j <= z /\ (j = n \/ j = z)
                        /\ DOMAIN Slice(f, n) = 1..j /\ Len(Slice(f, n)) = j
                        /\ \A i \in 1..j : Slice(f, n)[i] = f[i]
<1>1. Cardinality(DOMAIN f) = z
  BY FS_Interval
<1>2. n \in Int /\ z \in Int
  OBVIOUS
<1>3. /\ Min({n, z}) \in Int /\ Min({n, z}) <= n /\ Min({n, z}) <= z
      /\ Min({n, z}) \in {n, z}
  BY <1>2, LessOfTwo
<1> DEFINE j == Min({n, z})
<1>4. Slice(f, n) = [i \in 1..j |-> f[i]]
  BY <1>1 DEF Slice
<1>5. j \in Nat /\ j <= n /\ j <= z /\ (j = n \/ j = z)
  BY <1>3
<1> HIDE DEF j
<1>6. Len([i \in 1..j |-> f[i]]) = j
  BY <1>5
<1> QED BY <1>4, <1>5, <1>6

\* What a graph reads of rows that are filled and padded.
LEMMA SliceOfFilled ==
  ASSUME NEW f, NEW z \in Nat, DOMAIN f = 1..z, NEW n \in Nat, NEW limit \in Nat,
         NEW k \in Nat, k <= limit
  PROVE  \A i \in DOMAIN Slice(Filled(f, n, limit), k) :
           Slice(Filled(f, n, limit), k)[i] = IF i <= n THEN Own ELSE Inert
<1> DEFINE g == Filled(f, n, limit)
<1>1. DOMAIN g = 1..z
  BY DEF Filled
<1>2. ASSUME NEW i \in 1..z, i <= limit
      PROVE  g[i] = IF i <= n THEN Own ELSE Inert
  BY <1>2 DEF Filled
<1> HIDE DEF g
<1>3. \E j \in Nat : /\ j <= k /\ j <= z /\ (j = k \/ j = z)
                     /\ DOMAIN Slice(g, k) = 1..j /\ Len(Slice(g, k)) = j
                     /\ \A i \in 1..j : Slice(g, k)[i] = g[i]
  BY <1>1, SliceFacts
<1>4. PICK j \in Nat : /\ j <= k /\ j <= z /\ DOMAIN Slice(g, k) = 1..j
                       /\ \A i \in 1..j : Slice(g, k)[i] = g[i]
  BY <1>3
<1>5. ASSUME NEW i \in 1..j PROVE Slice(g, k)[i] = IF i <= n THEN Own ELSE Inert
  BY <1>2, <1>4
<1> QED BY <1>4, <1>5 DEF g

\* What the keys of a mode are.
LEMMA KeyFacts ==
  ASSUME NEW m \in Modes, NEW d \in KeysOf(m)
  PROVE  /\ d.tokens \in Nat \ {0}
         /\ \/ /\ d.mode = "FULL" /\ d.tokens % QueryLen = 0
               /\ d.reqs = d.tokens \div QueryLen /\ d.reqs \in 1..MaxNumSeqs
            \/ /\ d.mode = "PIECEWISE" /\ d.reqs = 0
               /\ d = Descriptor("PIECEWISE", d.tokens, FALSE)
<1>1. CASE \E t \in FullSizes : d = Descriptor("FULL", t, TRUE)
  <2>1. PICK t \in FullSizes : d = Descriptor("FULL", t, TRUE)
    BY <1>1
  <2>2. t \in Nat \ {0} /\ t % QueryLen = 0 /\ t \div QueryLen \in 1..MaxNumSeqs
    BY GraphAssumption DEF FullSizes
  <2> QED BY <2>1, <2>2 DEF Descriptor
<1>2. CASE \E t \in CaptureSizes : d = Descriptor("PIECEWISE", t, FALSE)
  <2>1. PICK t \in CaptureSizes : d = Descriptor("PIECEWISE", t, FALSE)
    BY <1>2
  <2>2. t \in Nat \ {0}
    BY GraphAssumption
  <2> QED BY <2>1, <2>2 DEF Descriptor
<1> QED BY <1>1, <1>2 DEF KeysOf

\* The drafter has the piecewise keys of the runner.
LEMMA DraftKeysAre ==
  ASSUME NEW m \in Modes
  PROVE  KeysOf(DraftMode(m)) = {d \in KeysOf(m) : d.mode = "PIECEWISE"}
<1>1. m \in {"NONE", "PIECEWISE", "FULL_DECODE_ONLY", "FULL_AND_PIECEWISE"}
  BY GraphAssumption
<1> DEFINE pieces == {Descriptor("PIECEWISE", n, FALSE) : n \in CaptureSizes}
           fulls == {Descriptor("FULL", n, TRUE) : n \in FullSizes}
<1>2. \A d \in pieces : d.mode = "PIECEWISE"
  BY DEF Descriptor
<1>3. \A d \in fulls : d.mode = "FULL"
  BY DEF Descriptor
<1>4. KeysOf(m) = (IF DecodeMode(m) = "FULL" THEN fulls ELSE {})
                    \cup (IF MixedMode(m) = "PIECEWISE" THEN pieces ELSE {})
  BY DEF KeysOf
<1>5. KeysOf(DraftMode(m)) = IF MixedMode(m) = "PIECEWISE" THEN pieces ELSE {}
  BY <1>1 DEF KeysOf, DraftMode, DecodeMode, MixedMode
<1> HIDE DEF pieces, fulls
<1> QED BY <1>2, <1>3, <1>4, <1>5

LEMMA SmallestDescriptor ==
  ASSUME NEW D, D # {}, \A d \in D : d.tokens \in Nat
  PROVE  \E d \in D : \A e \in D : d.tokens <= e.tokens
<1> DEFINE T == {d.tokens : d \in D}
<1>1. T \in SUBSET Nat /\ T # {}
  OBVIOUS
<1>2. PICK t \in T : \A u \in T : t <= u
  <2> HIDE DEF T
  <2> QED BY <1>1, LeastNumber
<1> QED BY <1>2

\* A dispatched graph is large enough, and no smaller piecewise one is; without
\* one the batch runs as it is.
LEMMA DispatchFinds ==
  ASSUME NEW m \in Modes, NEW k \in SUBSET KeysOf(m), NEW n \in Nat, NEW u \in BOOLEAN,
         NEW g, g = Dispatch(k, n, u)
  PROVE  \/ /\ g = Descriptor("NONE", n, FALSE)
            /\ \A e \in k : e.mode = "PIECEWISE" => ~(e.tokens >= n)
         \/ g \in k /\ g.tokens >= n /\ g.mode = "FULL" /\ u
         \/ /\ g \in k /\ g.tokens >= n /\ g.mode = "PIECEWISE"
            /\ \A e \in k : e.mode = "PIECEWISE" /\ e.tokens >= n => g.tokens <= e.tokens
<1> DEFINE Fitting(w) == {d \in k : d.mode = w /\ d.tokens >= n}
           Least(D) == CHOOSE d \in D : \A e \in D : d.tokens <= e.tokens
<1>1. ASSUME NEW w, Fitting(w) # {}
      PROVE  Least(Fitting(w)) \in Fitting(w)
             /\ \A e \in Fitting(w) : Least(Fitting(w)).tokens <= e.tokens
  <2>1. \A d \in Fitting(w) : d.tokens \in Nat
    BY KeyFacts
  <2>2. \E d \in Fitting(w) : \A e \in Fitting(w) : d.tokens <= e.tokens
    <3> HIDE DEF Fitting
    <3> QED BY <1>1, <2>1, SmallestDescriptor
  <2> QED BY <2>2
<1>2. g = IF u /\ Fitting("FULL") # {} THEN Least(Fitting("FULL"))
          ELSE IF Fitting("PIECEWISE") # {} THEN Least(Fitting("PIECEWISE"))
          ELSE Descriptor("NONE", n, FALSE)
  BY DEF Dispatch
<1>3. CASE u /\ Fitting("FULL") # {}
  <2>1. g \in Fitting("FULL")
    BY <1>1, <1>2, <1>3
  <2> QED BY <1>3, <2>1
<1>4. CASE ~(u /\ Fitting("FULL") # {}) /\ Fitting("PIECEWISE") # {}
  <2>1. g \in Fitting("PIECEWISE") /\ \A e \in Fitting("PIECEWISE") : g.tokens <= e.tokens
    BY <1>1, <1>2, <1>4
  <2> QED BY <2>1
<1>5. CASE ~(u /\ Fitting("FULL") # {}) /\ Fitting("PIECEWISE") = {}
  <2>1. g = Descriptor("NONE", n, FALSE)
    BY <1>2, <1>5
  <2> QED BY <1>5, <2>1
<1> HIDE DEF Fitting
<1> QED BY <1>3, <1>4, <1>5

\* A piecewise graph is found by anything between a batch it was found for and
\* its own size.
LEMMA DispatchAgain ==
  ASSUME NEW m \in Modes, NEW n \in Nat, NEW c \in Nat, NEW g,
         g = Dispatch(KeysOf(DraftMode(m)), n, FALSE), g.mode # "NONE",
         n <= c, c <= g.tokens
  PROVE  Dispatch(KeysOf(DraftMode(m)), c, FALSE) = g
<1> DEFINE k == KeysOf(DraftMode(m))
<1>1. k \in SUBSET KeysOf(m) /\ \A d \in k : d.mode = "PIECEWISE"
  BY DraftKeysAre
<1>2. Descriptor("NONE", n, FALSE).mode = "NONE"
  BY DEF Descriptor
<1>3. g \in k /\ \A e \in k : e.tokens >= n => g.tokens <= e.tokens
  <2> HIDE DEF k
  <2>1. \/ g = Descriptor("NONE", n, FALSE)
        \/ /\ g \in k
           /\ \A e \in k : e.mode = "PIECEWISE" /\ e.tokens >= n => g.tokens <= e.tokens
    BY <1>1, DispatchFinds DEF k
  <2> QED BY <1>1, <1>2, <2>1
<1>4. PICK h : h = Dispatch(k, c, FALSE)
  OBVIOUS
<1>5. g.tokens \in Nat /\ g = Descriptor("PIECEWISE", g.tokens, FALSE)
  BY <1>1, <1>3, KeyFacts
<1>6. \/ /\ h = Descriptor("NONE", c, FALSE)
         /\ \A e \in k : e.mode = "PIECEWISE" => ~(e.tokens >= c)
      \/ /\ h \in k /\ h.tokens >= c
         /\ \A e \in k : e.mode = "PIECEWISE" /\ e.tokens >= c => h.tokens <= e.tokens
  <2> HIDE DEF k
  <2> QED BY <1>1, <1>4, DispatchFinds
<1>7. PICK a \in Nat : a = g.tokens
  BY <1>5
<1>8. h \in k /\ h.tokens >= c /\ h.tokens <= a
  BY <1>1, <1>3, <1>6, <1>7
<1>9. h.tokens \in Nat /\ h = Descriptor("PIECEWISE", h.tokens, FALSE)
  BY <1>1, <1>8, KeyFacts
<1>10. PICK b \in Nat : b = h.tokens
  BY <1>9
<1>11. a <= b
  <2>1. b >= n
    BY <1>8, <1>10
  <2>2. h \in k /\ h.tokens >= n
    BY <1>8, <1>10, <2>1
  <2>3. g.tokens <= h.tokens
    BY <1>3, <2>2
  <2> QED BY <1>7, <1>10, <2>3
<1>12. a = b
  BY <1>8, <1>10, <1>11
<1> QED BY <1>4, <1>5, <1>7, <1>9, <1>10, <1>12

\* Beside which graph of the runner the drafter's for n rows is captured.
LEMMA CapturedBeside ==
  ASSUME NEW m \in Modes, NEW n \in 1..MaxNumSeqs, NEW g,
         g = Dispatch(KeysOf(DraftMode(m)), n, FALSE), g.mode # "NONE"
  PROVE  /\ g \in KeysOf(m) /\ g \in KeysOf(DraftMode(m)) /\ DraftCaptures(g)
         /\ Dispatch(KeysOf(DraftMode(m)), DraftDummyBatch(g), FALSE) = g
<1> DEFINE k == KeysOf(DraftMode(m))
<1>1. k \in SUBSET KeysOf(m) /\ \A d \in k : d.mode = "PIECEWISE"
  BY DraftKeysAre
<1>2. n \in Nat /\ MaxNumSeqs \in Nat \ {0}
  BY GraphAssumption
<1>3. Descriptor("NONE", n, FALSE).mode = "NONE"
  BY DEF Descriptor
<1>4. g \in k /\ g.tokens >= n
  <2> HIDE DEF k
  <2>1. g = Dispatch(k, n, FALSE)
    BY DEF k
  <2>2. g = Descriptor("NONE", n, FALSE) \/ (g \in k /\ g.tokens >= n)
    BY <1>1, <1>2, <2>1, DispatchFinds
  <2> QED BY <1>3, <2>2
<1>5. g \in KeysOf(m) /\ DraftCaptures(g)
  BY <1>1, <1>4 DEF DraftCaptures
<1>6. PICK a \in Nat \ {0} : a = g.tokens
  BY <1>5, KeyFacts
<1>7. PICK c \in Nat : c = DraftDummyBatch(g) /\ n <= c /\ c <= a
  <2>1. a \in Int /\ MaxNumSeqs \in Int
    BY <1>2
  <2>2. /\ Min({a, MaxNumSeqs}) \in Int /\ Min({a, MaxNumSeqs}) <= a
        /\ Min({a, MaxNumSeqs}) \in {a, MaxNumSeqs}
    BY <2>1, LessOfTwo
  <2>3. PICK x \in Int : x = Min({a, MaxNumSeqs}) /\ x <= a /\ (x = a \/ x = MaxNumSeqs)
    BY <2>2
  <2>4. x \in Nat \ {0}
    BY <1>2, <1>6, <2>3
  <2>0. Max({1, x}) = x
    BY <2>4 DEF Max
  <2>5. DraftDummyBatch(g) = x
    BY <1>6, <2>3, <2>0 DEF DraftDummyBatch
  <2>6. n <= a
    BY <1>4, <1>6
  <2>7. n <= MaxNumSeqs
    BY <1>2
  <2>8. n <= x /\ x <= a /\ x \in Nat
    BY <1>2, <2>3, <2>4, <2>6, <2>7
  <2> QED BY <2>5, <2>8
<1>8. c <= g.tokens
  BY <1>6, <1>7
<1>9. Dispatch(k, c, FALSE) = g
  BY <1>2, <1>7, <1>8, DispatchAgain
<1> QED BY <1>4, <1>5, <1>7, <1>9

-----------------------------------------------------------------------------
(* Batches.                                                                *)

PartsAddUp(D, f) ==
  /\ \A S \in SUBSET D : SumFunctionOnSet(f, S) \in Nat
  /\ SumFunctionOnSet(f, {}) = 0
  /\ \A h \in D : SumFunctionOnSet(f, {h}) = f[h]
  /\ \A S, U \in SUBSET D : S \intersect U = {} =>
       SumFunctionOnSet(f, S \union U) = SumFunctionOnSet(f, S) + SumFunctionOnSet(f, U)

LEMMA AddUp ==
  ASSUME NEW D, IsFiniteSet(D), NEW f \in [D -> Nat]
  PROVE  PartsAddUp(D, f)
BY SumOfParts DEF PartsAddUp

\* Where the rows of a batch start.
LEMMA RowsStart ==
  ASSUME NEW n \in Nat, NEW b \in [1..n -> Nat]
  PROVE  /\ SumFunction(b) \in Nat
         /\ \A i \in Nat : SumFunctionOnSet(b, {k \in 1..n : k < i}) \in Nat
         /\ \A i \in Nat : SumFunctionOnSet(b, {k \in 1..n : k < i})
                             <= SumFunctionOnSet(b, {k \in 1..n : k < i + 1})
         /\ \A i \in Nat : i > n => SumFunctionOnSet(b, {k \in 1..n : k < i}) = SumFunction(b)
         /\ \A i \in 1..n : SumFunctionOnSet(b, {k \in 1..n : k < i + 1})
                              = SumFunctionOnSet(b, {k \in 1..n : k < i}) + b[i]
         /\ SumFunctionOnSet(b, {k \in 1..n : k < 1}) = 0
<1> DEFINE To(i) == {k \in 1..n : k < i}
           sum(S) == SumFunctionOnSet(b, S)
<1>1. IsFiniteSet(1..n)
  BY FS_Interval
<1>0. PartsAddUp(1..n, b)
  BY <1>1, AddUp
<1>2. /\ \A S \in SUBSET (1..n) : sum(S) \in Nat
      /\ sum({}) = 0
      /\ \A h \in 1..n : sum({h}) = b[h]
      /\ \A S, U \in SUBSET (1..n) : S \intersect U = {} => sum(S \union U) = sum(S) + sum(U)
  BY <1>0 DEF PartsAddUp
<1>3. SumFunction(b) = sum(1..n)
  BY DEF SumFunction
<1>4. \A i \in Nat : To(i) \in SUBSET (1..n)
  OBVIOUS
<1>5. \A i \in 1..n : To(i + 1) = To(i) \union {i} /\ To(i) \intersect {i} = {}
                      /\ {i} \in SUBSET (1..n)
  OBVIOUS
<1>6. \A i \in Nat : i > n => To(i) = 1..n
  OBVIOUS
<1>7. \A i \in Nat : i \notin 1..n => To(i + 1) = To(i)
  OBVIOUS
<1>8. To(1) = {}
  OBVIOUS
<1> HIDE DEF To, sum
<1>9. 1..n \in SUBSET (1..n)
  OBVIOUS
<1>10. \A i \in 1..n : sum(To(i + 1)) = sum(To(i)) + b[i]
  <2> SUFFICES ASSUME NEW i \in 1..n PROVE sum(To(i + 1)) = sum(To(i)) + b[i]
    OBVIOUS
  <2>1. i \in Nat
    OBVIOUS
  <2>2. sum(To(i) \union {i}) = sum(To(i)) + sum({i})
    BY <1>2, <1>4, <1>5, <2>1
  <2> QED BY <1>2, <1>5, <2>2
<1>11. \A i \in Nat : sum(To(i)) <= sum(To(i + 1))
  <2> SUFFICES ASSUME NEW i \in Nat PROVE sum(To(i)) <= sum(To(i + 1))
    OBVIOUS
  <2>1. PICK x \in Nat : x = sum(To(i))
    BY <1>2, <1>4
  <2>2. CASE i \in 1..n
    <3>1. PICK y \in Nat : y = b[i]
      BY <2>2
    <3> QED BY <1>10, <2>1, <2>2, <3>1
  <2>3. CASE i \notin 1..n
    BY <1>7, <2>1, <2>3
  <2> QED BY <2>2, <2>3
<1>12. sum(1..n) \in Nat /\ \A i \in Nat : sum(To(i)) \in Nat
  BY <1>2, <1>4, <1>9
<1>13. \A i \in Nat : i > n => sum(To(i)) = sum(1..n)
  BY <1>6
<1>14. sum(To(1)) = 0
  BY <1>2, <1>8
<1> QED BY <1>3, <1>10, <1>11, <1>12, <1>13, <1>14 DEF To, sum

\* A uniform batch of n requests has n * QueryLen tokens.
LEMMA UniformTokens ==
  ASSUME NEW n \in Nat, NEW b \in [1..n -> Nat], IsUniformDecode(b)
  PROVE  SumFunction(b) = QueryLen * n
<1> DEFINE at(i) == SumFunctionOnSet(b, {k \in 1..n : k < i + 1})
           P == {i \in 0..n : at(i) = QueryLen * i}
<1>1. PICK q \in Nat : q = QueryLen
  BY GraphAssumption
<1>2. 0 \in P
  <2>1. at(0) = 0
    BY RowsStart
  <2> QED BY <1>1, <2>1
<1>3. ASSUME NEW i \in 1..n, i - 1 \in P PROVE i \in P
  <2>1. b[i] = q
    BY <1>1 DEF IsUniformDecode
  <2>2. at(i - 1) = q * (i - 1) /\ i \in 0..n
    BY <1>1, <1>3
  <2>3. (i - 1) + 1 = i
    OBVIOUS
  <2>4. at(i) = at(i - 1) + b[i]
    <3>1. SumFunctionOnSet(b, {k \in 1..n : k < i + 1})
            = SumFunctionOnSet(b, {k \in 1..n : k < i}) + b[i]
      BY RowsStart
    <3> QED BY <2>3, <3>1
  <2>5. q * (i - 1) + q = q * i
    OBVIOUS
  <2>6. at(i) = q * i
    BY <2>1, <2>2, <2>4, <2>5
  <2> QED BY <1>1, <2>2, <2>6
<1> HIDE DEF P
<1>4. n \in P
  <2>1. \A i \in 1..n : i - 1 \in P => i \in P
    BY <1>3
  <2>2. \A i \in 0..n : i \in P
    BY <1>2, <2>1, PositionInduction
  <2> QED BY <2>2
<1>5. at(n) = SumFunction(b)
  <2>1. n + 1 \in Nat /\ n + 1 > n
    OBVIOUS
  <2>2. \A i \in Nat : i > n => SumFunctionOnSet(b, {k \in 1..n : k < i}) = SumFunction(b)
    BY RowsStart
  <2> QED BY <2>1, <2>2
<1> QED BY <1>4, <1>5 DEF P

\* A graph of uniform rows that has enough tokens has enough rows.
LEMMA RowsFit ==
  ASSUME NEW n \in Nat, NEW t \in Nat, t % QueryLen = 0, t >= QueryLen * n
  PROVE  t \div QueryLen >= n
<1>1. PICK q \in Nat \ {0} : q = QueryLen
  BY GraphAssumption
<1>2. PICK r \in Int : r = t \div q
  BY DivMod
<1>3. t = q * r
  BY <1>1, <1>2, DivMod
<1>4. CASE r < n
  <2>1. n - r \in Int /\ n - r >= 1
    BY <1>4
  <2>2. q * (n - r) >= q
    BY <2>1, Multiple
  <2>3. q * (n - r) = q * n - q * r
    OBVIOUS
  <2> QED BY <1>1, <1>3, <2>2, <2>3
<1> QED BY <1>1, <1>2, <1>4

-----------------------------------------------------------------------------
(* The graphs that are held.                                               *)

GraphTypes ==
  /\ boot \in {"start", "profiling", "capturing", "serving"} /\ mode \in Modes
  /\ keys \subseteq KeysOf(mode) /\ draftKeys \subseteq KeysOf(DraftMode(mode))
  /\ todo \subseteq keys
  /\ DOMAIN slotMap = 1..MaxNumTokens /\ DOMAIN tables = 1..MaxNumSeqs
  /\ DOMAIN lens = 1..MaxNumSeqs /\ DOMAIN starts = 1..(MaxNumSeqs + 1)
  /\ DOMAIN draftRows = 1..MaxNumSeqs
  /\ boot # "serving" => starts[1] = 0

\* The drafter's graph beside d, if there is one.
CapturedWith(d) ==
  LET g == Dispatch(draftKeys, DraftDummyBatch(d), FALSE)
  IN  DraftCaptures(d) /\ g.mode # "NONE" => <<g, "capturing">> \in draftGraphs

\* What was captured to profile is gone; what is not to do is captured.
GraphsCaptured ==
  /\ boot = "start" => keys = {} /\ graphs = {}
  /\ boot \in {"capturing", "serving"} =>
       /\ keys = KeysOf(mode) /\ draftKeys = KeysOf(DraftMode(mode))
       /\ \A d \in keys : <<d, "profiling">> \notin graphs
       /\ \A d \in draftKeys : <<d, "profiling">> \notin draftGraphs
       /\ \A d \in keys \ todo : <<d, "capturing">> \in graphs /\ CapturedWith(d)
  /\ boot = "serving" => todo = {}

GraphInv == GraphTypes /\ GraphsCaptured /\ ReplayedRight

LEMMA ReplayedSame ==
  ASSUME ReplayedRight, UNCHANGED seen
  PROVE  ReplayedRight'
BY DEF ReplayedRight, ReplaysCaptured, PaddingIsInert

LEMMA TodoFacts ==
  ASSUME GraphTypes, NEW d \in todo
  PROVE  /\ d.tokens \in Nat /\ d.reqs \in Nat /\ d.reqs <= MaxNumSeqs
         /\ d.reqs = 0 \/ d.mode = "FULL"
<1>1. d \in KeysOf(mode) /\ mode \in Modes
  BY DEF GraphTypes
<1>2. MaxNumSeqs \in Nat
  BY GraphAssumption
<1>3. /\ d.tokens \in Nat \ {0}
      /\ \/ d.mode = "FULL" /\ d.reqs \in 1..MaxNumSeqs
         \/ d.mode = "PIECEWISE" /\ d.reqs = 0
  BY <1>1, KeyFacts
<1> QED BY <1>2, <1>3

\* A dummy run, seen by the graph it captures.
LEMMA DummyIsInert ==
  ASSUME GraphTypes, boot # "serving", NEW d \in todo, CaptureGraph(d)
  PROVE  ReplayedRight'
<1>1. /\ d.tokens \in Nat /\ d.reqs \in Nat /\ d.reqs <= MaxNumSeqs
      /\ d.reqs = 0 \/ d.mode = "FULL"
  BY TodoFacts
<1>2. /\ seen'.dummy = TRUE /\ seen'.slotMap = Slice(slotMap', d.tokens)
      /\ seen'.starts = Slice(starts', d.reqs + 1)
  BY DEF CaptureGraph, NotRun
<1>3. \A i \in DOMAIN seen'.slotMap : seen'.slotMap[i] = Inert
  <2>1. PICK z \in Nat : z = MaxNumTokens
    BY GraphAssumption
  <2>2. /\ DOMAIN slotMap' = 1..z
        /\ \A i \in 1..z : i <= d.tokens => slotMap'[i] = Inert
    BY <2>1 DEF CaptureGraph, GraphTypes
  <2>3. PICK f : f = slotMap'
    OBVIOUS
  <2>4. PICK t \in Nat : t = d.tokens
    BY <1>1
  <2>0. DOMAIN f = 1..z
    BY <2>2, <2>3
  <2>5. \E j \in Nat : /\ j <= t /\ j <= z /\ (j = t \/ j = z)
                       /\ DOMAIN Slice(f, t) = 1..j /\ Len(Slice(f, t)) = j
                       /\ \A i \in 1..j : Slice(f, t)[i] = f[i]
    BY <2>0, SliceFacts
  <2>6. \A i \in DOMAIN Slice(f, t) : Slice(f, t)[i] = Inert
    BY <2>2, <2>3, <2>4, <2>5
  <2> QED BY <1>2, <2>3, <2>4, <2>6
<1>4. \A i \in DOMAIN seen'.starts \ {1} : seen'.starts[i - 1] <= seen'.starts[i]
  <2>1. PICK z \in Nat : z = MaxNumSeqs + 1
    BY GraphAssumption
  <2>2. PICK f : f = starts'
    OBVIOUS
  <2>3. PICK k \in Nat : k = d.reqs + 1 /\ k <= z
    <3>1. PICK c \in Nat : c = MaxNumSeqs
      BY GraphAssumption
    <3>2. PICK e \in Nat : e = d.reqs /\ e <= c
      BY <1>1, <3>1
    <3> QED BY <2>1, <3>1, <3>2
  <2>4. PICK q \in Nat : q = QueryLen
    BY GraphAssumption
  <2>5. DOMAIN f = 1..z
    BY <2>1, <2>2 DEF CaptureGraph, Filled, GraphTypes
  <2>6. k > 1 => f[1] = 0 /\ \A i \in 2..k : f[i] = (i - 1) * q
    <3>1. CASE k > 1
      <4>1. d.mode = "FULL"
        BY <1>1, <2>3, <3>1
      <4>2. f = [i \in 1..z |-> IF i \in 2..(d.reqs + 1) THEN (i - 1) * QueryLen ELSE starts[i]]
        BY <2>1, <2>2, <4>1 DEF CaptureGraph, GraphTypes
      <4>3. starts[1] = 0 /\ 1 \in 1..z
        BY <2>3, <3>1 DEF GraphTypes
      <4> QED BY <2>3, <2>4, <4>2, <4>3
    <3> QED BY <3>1
  <2>7. \E j \in Nat : /\ j <= k /\ j <= z /\ (j = k \/ j = z)
                       /\ DOMAIN Slice(f, k) = 1..j /\ Len(Slice(f, k)) = j
                       /\ \A i \in 1..j : Slice(f, k)[i] = f[i]
    BY <2>5, SliceFacts
  <2>8. DOMAIN Slice(f, k) = 1..k /\ \A i \in 1..k : Slice(f, k)[i] = f[i]
    BY <2>3, <2>7
  <2>9. ASSUME NEW i \in 2..k PROVE f[i - 1] <= f[i]
    <3>1. k > 1
      OBVIOUS
    <3>2. CASE i = 2
      BY <2>6, <3>1, <3>2
    <3>3. CASE i # 2
      <4>1. i - 1 \in 2..k /\ f[i - 1] = ((i - 1) - 1) * q /\ f[i] = (i - 1) * q
        BY <2>6, <3>1, <3>3
      <4>2. PICK x \in Nat : x = i - 2
        OBVIOUS
      <4>3. (x + 1) * q = x * q + q /\ x * q \in Nat
        OBVIOUS
      <4> QED BY <4>1, <4>2, <4>3
    <3> QED BY <3>2, <3>3
  <2>10. ASSUME NEW i \in DOMAIN Slice(f, k) \ {1}
         PROVE  Slice(f, k)[i - 1] <= Slice(f, k)[i]
    <3>1. i \in 2..k /\ i \in 1..k /\ i - 1 \in 1..k
      BY <2>8
    <3> QED BY <2>8, <2>9, <3>1
  <2> QED BY <1>2, <2>2, <2>3, <2>10
<1> QED BY <1>2, <1>3, <1>4 DEF ReplayedRight, ReplaysCaptured, PaddingIsInert

LEMMA CaptureKeeps ==
  ASSUME GraphInv, boot \in {"profiling", "capturing"}, NEW d \in todo, CaptureGraph(d)
  PROVE  GraphInv'
<1>1. GraphTypes /\ GraphsCaptured
  BY DEF GraphInv
<1>2. UNCHANGED <<boot, mode, keys, draftKeys>> /\ todo' = todo \ {d}
      /\ graphs' = graphs \cup {<<d, boot>>}
  BY DEF CaptureGraph
<1>3. ReplayedRight'
  BY <1>1, DummyIsInert
<1>4. GraphTypes'
  <2>1. starts'[1] = 0
    <3>1. 1 \in 1..(MaxNumSeqs + 1) /\ starts[1] = 0
      BY <1>1, GraphAssumption DEF GraphTypes
    <3>2. d.reqs \in Nat
      BY <1>1, TodoFacts
    <3>3. 1 \notin 2..(d.reqs + 1)
      BY <3>2
    <3>4. starts' = starts \/ starts' = [i \in 1..(MaxNumSeqs + 1) |->
                          IF i \in 2..(d.reqs + 1) THEN (i - 1) * QueryLen ELSE starts[i]]
      BY <1>1 DEF CaptureGraph, GraphTypes
    <3> QED BY <3>1, <3>3, <3>4
  <2>2. /\ DOMAIN slotMap' = 1..MaxNumTokens /\ DOMAIN tables' = 1..MaxNumSeqs
        /\ DOMAIN lens' = 1..MaxNumSeqs /\ DOMAIN starts' = 1..(MaxNumSeqs + 1)
        /\ DOMAIN draftRows' = 1..MaxNumSeqs
    BY <1>1 DEF CaptureGraph, GraphTypes, Filled
  <2> QED BY <1>1, <1>2, <2>1, <2>2 DEF GraphTypes
<1>5. GraphsCaptured'
  <2>1. CASE boot = "profiling"
    BY <1>2, <2>1 DEF GraphsCaptured
  <2>2. CASE boot = "capturing"
    <3> DEFINE g == Dispatch(draftKeys, DraftDummyBatch(d), FALSE)
    <3>1. draftGraphs' = IF DraftCaptures(d) /\ g.mode # "NONE"
                         THEN draftGraphs \cup {<<g, "capturing">>} ELSE draftGraphs
      BY <2>2 DEF CaptureGraph
    <3>2. CapturedWith(d)'
      BY <1>2, <3>1 DEF CapturedWith, DraftDummyBatch, DraftCaptures
    <3> HIDE DEF g
    <3>3. draftGraphs \subseteq draftGraphs'
          /\ \A e \in draftKeys : <<e, "profiling">> \in draftGraphs'
                                    => <<e, "profiling">> \in draftGraphs
      BY <3>1
    <3>4. \A e : CapturedWith(e) => CapturedWith(e)'
      BY <1>2, <3>3 DEF CapturedWith, DraftDummyBatch, DraftCaptures
    <3>5. \A e \in keys : /\ <<e, "profiling">> \notin graphs'
                          /\ <<e, "capturing">> \in graphs => <<e, "capturing">> \in graphs'
      BY <1>1, <1>2, <2>2 DEF GraphsCaptured
    <3>6. <<d, "capturing">> \in graphs'
      BY <1>2, <2>2
    <3> QED BY <1>1, <1>2, <2>2, <3>2, <3>3, <3>4, <3>5, <3>6 DEF GraphsCaptured
  <2> QED BY <2>1, <2>2
<1> QED BY <1>3, <1>4, <1>5 DEF GraphInv

\* No graph that a batch or its drafts need is missing.
LEMMA BatchIsCaptured ==
  ASSUME GraphTypes, GraphsCaptured, boot = "serving", NEW n \in 1..MaxNumSeqs,
         NEW k \in Nat, NEW u \in BOOLEAN,
         NEW d, d = Dispatch(keys, k, u), NEW g, g = Dispatch(draftKeys, n, FALSE)
  PROVE  /\ d.mode # "NONE" => CapturedAt(graphs, d) = {"capturing"}
         /\ g.mode # "NONE" => CapturedAt(draftGraphs, g) = {"capturing"}
<1>1. /\ mode \in Modes /\ keys = KeysOf(mode) /\ draftKeys = KeysOf(DraftMode(mode))
      /\ \A e \in keys : <<e, "profiling">> \notin graphs
      /\ \A e \in draftKeys : <<e, "profiling">> \notin draftGraphs
      /\ \A e \in keys : <<e, "capturing">> \in graphs /\ CapturedWith(e)
  BY DEF GraphTypes, GraphsCaptured
<1>2. ASSUME d.mode # "NONE" PROVE CapturedAt(graphs, d) = {"capturing"}
  <2>1. keys \in SUBSET KeysOf(mode)
    BY <1>1
  <2>2. d = Descriptor("NONE", k, FALSE) \/ d \in keys
    BY <1>1, <2>1, DispatchFinds
  <2>3. d \in keys
    BY <1>2, <2>2 DEF Descriptor
  <2> QED BY <1>1, <2>3 DEF CapturedAt
<1>3. ASSUME g.mode # "NONE" PROVE CapturedAt(draftGraphs, g) = {"capturing"}
  <2>1. g = Dispatch(KeysOf(DraftMode(mode)), n, FALSE)
    BY <1>1
  <2>2. /\ g \in KeysOf(mode) /\ g \in KeysOf(DraftMode(mode)) /\ DraftCaptures(g)
        /\ Dispatch(KeysOf(DraftMode(mode)), DraftDummyBatch(g), FALSE) = g
    BY <1>1, <1>3, <2>1, CapturedBeside
  <2>3. CapturedWith(g) /\ g \in draftKeys
    BY <1>1, <2>2
  <2>4. <<g, "capturing">> \in draftGraphs
    BY <1>1, <1>3, <2>2, <2>3 DEF CapturedWith
  <2> QED BY <1>1, <2>3, <2>4 DEF CapturedAt
<1> QED BY <1>2, <1>3

-----------------------------------------------------------------------------
(* What a graph reads of a batch.                                          *)

LEMMA BatchFacts ==
  ASSUME NEW b \in GraphBatches
  PROVE  \E n \in 1..MaxNumSeqs : b \in [1..n -> Nat] /\ Len(b) = n
<1>1. PICK n \in 1..MaxNumSeqs : b \in [1..n -> Lengths]
  BY DEF GraphBatches
<1>2. n \in Nat
  BY GraphAssumption
<1>3. \A x \in Lengths : x \in Nat
  BY GraphAssumption
<1>4. b \in [1..n -> Nat]
  BY <1>1, <1>3
<1>5. Len(b) = n
  BY <1>2, <1>4
<1> QED BY <1>4, <1>5

\* The graph has a token and a row for each of the batch.
LEMMA GraphIsLarge ==
  ASSUME GraphTypes, NEW n \in 1..MaxNumSeqs, NEW b \in [1..n -> Nat], NEW k, k = SumFunction(b),
         NEW d, d = Dispatch(keys, k, IsUniformDecode(b))
  PROVE  /\ k \in Nat /\ PaddedTokens(d, k) \in Nat /\ k <= PaddedTokens(d, k)
         /\ PaddedReqs(d, n) \in Nat /\ n <= PaddedReqs(d, n) /\ PaddedReqs(d, n) <= MaxNumSeqs
<1>1. n \in Nat /\ MaxNumSeqs \in Nat /\ n <= MaxNumSeqs
  BY GraphAssumption
<1>2. k \in Nat
  BY <1>1, RowsStart
<1>3. mode \in Modes /\ keys \in SUBSET KeysOf(mode) /\ IsUniformDecode(b) \in BOOLEAN
  BY DEF GraphTypes, IsUniformDecode
<1>4. CASE d.mode # "FULL"
  BY <1>1, <1>2, <1>4 DEF PaddedTokens, PaddedReqs
<1>5. CASE d.mode = "FULL"
  <2>1. Descriptor("NONE", k, FALSE).mode = "NONE"
    BY DEF Descriptor
  <2>2. \/ d = Descriptor("NONE", k, FALSE)
        \/ d \in keys /\ d.tokens >= k /\ d.mode = "FULL" /\ IsUniformDecode(b)
        \/ d.mode = "PIECEWISE"
    BY <1>2, <1>3, DispatchFinds
  <2>3. d \in keys /\ d.tokens >= k /\ IsUniformDecode(b)
    BY <1>5, <2>1, <2>2
  <2>4. d \in KeysOf(mode)
    BY <1>3, <2>3
  <2>5. /\ d.tokens \in Nat \ {0}
        /\ d.tokens % QueryLen = 0 /\ d.reqs = d.tokens \div QueryLen /\ d.reqs \in 1..MaxNumSeqs
    <3>1. /\ d.tokens \in Nat \ {0}
          /\ \/ /\ d.mode = "FULL" /\ d.tokens % QueryLen = 0
                /\ d.reqs = d.tokens \div QueryLen /\ d.reqs \in 1..MaxNumSeqs
             \/ d.mode = "PIECEWISE"
      BY <1>3, <2>4, KeyFacts
    <3> QED BY <1>5, <3>1
  <2>6. k = QueryLen * n
    BY <1>1, <2>3, UniformTokens
  <2>7. PICK t \in Nat : t = d.tokens /\ t >= QueryLen * n /\ t % QueryLen = 0
    BY <2>3, <2>5, <2>6
  <2>8. t \div QueryLen >= n
    BY <1>1, <2>7, RowsFit
  <2>9. d.reqs >= n
    BY <2>5, <2>7, <2>8
  <2>10. PICK r \in Nat : r = d.reqs /\ r <= MaxNumSeqs
    BY <1>1, <2>5
  <2>11. PaddedReqs(d, n) = r /\ n <= r
    BY <1>5, <1>1, <2>9, <2>10 DEF PaddedReqs
  <2>12. PaddedTokens(d, k) = t /\ k <= t
    BY <1>5, <2>6, <2>7, <2>3 DEF PaddedTokens
  <2> QED BY <1>2, <2>7, <2>10, <2>11, <2>12
<1> QED BY <1>4, <1>5

RowStart(b, n, i) == SumFunctionOnSet(b, {k \in 1..n : k < i})

\* The rows of a batch start in order, those of the padding at its end.
LEMMA StartsInOrder ==
  ASSUME NEW n \in Nat, NEW b \in [1..n -> Nat]
  PROVE  /\ \A i \in Nat : RowStart(b, n, i) <= RowStart(b, n, i + 1)
         /\ \A i \in Nat : i > n => RowStart(b, n, i) = SumFunction(b)
BY RowsStart DEF RowStart

LEMMA SliceInOrder ==
  ASSUME NEW z \in Nat, NEW c \in Nat, 1 <= c, c <= z, NEW f, DOMAIN f = 1..z,
         \A i \in 2..c : f[i - 1] <= f[i]
  PROVE  /\ \A i \in DOMAIN Slice(f, c) \ {1} : Slice(f, c)[i - 1] <= Slice(f, c)[i]
         /\ Slice(f, c)[Len(Slice(f, c))] = f[c]
<1>1. \E j \in Nat : /\ j <= c /\ j <= z /\ (j = c \/ j = z)
                     /\ DOMAIN Slice(f, c) = 1..j /\ Len(Slice(f, c)) = j
                     /\ \A i \in 1..j : Slice(f, c)[i] = f[i]
  BY SliceFacts
<1>2. /\ DOMAIN Slice(f, c) = 1..c /\ Len(Slice(f, c)) = c
      /\ \A i \in 1..c : Slice(f, c)[i] = f[i]
  BY <1>1
<1>3. ASSUME NEW i \in 1..c, i # 1
      PROVE  Slice(f, c)[i - 1] <= Slice(f, c)[i]
  <2>1. i \in 2..c /\ i - 1 \in 1..c
    BY <1>3
  <2> QED BY <1>2, <2>1
<1> QED BY <1>2, <1>3

LEMMA BatchIsInert ==
  ASSUME GraphTypes, GraphsCaptured, NEW b \in GraphBatches, RunBatch(b)
  PROVE  ReplayedRight'
<1>1. PICK n \in 1..MaxNumSeqs : b \in [1..n -> Nat] /\ Len(b) = n
  BY BatchFacts
<1>2. n \in Nat /\ MaxNumSeqs \in Nat /\ MaxNumTokens \in Nat /\ n <= MaxNumSeqs
  BY GraphAssumption
<1>3. PICK k : k = SumFunction(b)
  OBVIOUS
<1>4. PICK d : d = Dispatch(keys, k, IsUniformDecode(b))
  OBVIOUS
<1>5. PICK g : g = Dispatch(draftKeys, n, FALSE)
  OBVIOUS
<1>6. /\ k \in Nat /\ PaddedTokens(d, k) \in Nat /\ k <= PaddedTokens(d, k)
      /\ PaddedReqs(d, n) \in Nat /\ n <= PaddedReqs(d, n) /\ PaddedReqs(d, n) <= MaxNumSeqs
  BY <1>1, <1>3, <1>4, GraphIsLarge
<1>7. PICK t \in Nat : t = PaddedTokens(d, k)
  BY <1>6
<1>8. PICK r \in Nat : r = PaddedReqs(d, n) /\ n <= r /\ r <= MaxNumSeqs
  BY <1>6
<1>9. PICK w \in Nat : w = g.tokens /\ n <= w
  <2>1. mode \in Modes /\ KeysOf(DraftMode(mode)) \in SUBSET KeysOf(mode)
    BY DraftKeysAre DEF GraphTypes
  <2>2. draftKeys \in SUBSET KeysOf(mode)
    BY <2>1 DEF GraphTypes
  <2>3. g = Descriptor("NONE", n, FALSE) \/ (g \in draftKeys /\ g.tokens >= n)
    BY <1>2, <1>5, <2>1, <2>2, DispatchFinds
  <2>4. CASE g = Descriptor("NONE", n, FALSE)
    BY <1>2, <2>4 DEF Descriptor
  <2>5. CASE g \in draftKeys /\ g.tokens >= n
    <3>1. g \in KeysOf(mode)
      BY <2>2, <2>5
    <3>2. g.tokens \in Nat \ {0}
      BY <2>1, <3>1, KeyFacts
    <3> QED BY <2>5, <3>2
  <2> QED BY <2>3, <2>4, <2>5
<1>10. /\ boot = "serving" /\ slotMap' = Filled(slotMap, k, t) /\ tables' = Filled(tables, n, r)
       /\ lens' = Filled(lens, n, MaxNumSeqs) /\ draftRows' = Filled(draftRows, n, w)
       /\ starts' = QueryStartLoc(b)
       /\ seen' = [mode |-> d.mode, graph |-> CapturedAt(graphs, d), dummy |-> FALSE,
                   tokens |-> k, reqs |-> n,
                   slotMap |-> Slice(slotMap', t), tables |-> Slice(tables', r),
                   lens |-> Slice(lens', r), starts |-> Slice(starts', r + 1),
                   draftMode |-> g.mode, draftGraph |-> CapturedAt(draftGraphs, g),
                   draftRows |-> Slice(draftRows', w)]
  BY <1>1, <1>3, <1>4, <1>5, <1>7, <1>8, <1>9
     DEF RunBatch, SlotMapping, BlockTable, SeqLens, DraftBuffers
<1>11. /\ seen'.mode = d.mode /\ seen'.graph = CapturedAt(graphs, d) /\ seen'.dummy = FALSE
       /\ seen'.tokens = k /\ seen'.reqs = n
       /\ seen'.slotMap = Slice(Filled(slotMap, k, t), t)
       /\ seen'.tables = Slice(Filled(tables, n, r), r)
       /\ seen'.lens = Slice(Filled(lens, n, MaxNumSeqs), r)
       /\ seen'.starts = Slice(QueryStartLoc(b), r + 1)
       /\ seen'.draftMode = g.mode /\ seen'.draftGraph = CapturedAt(draftGraphs, g)
       /\ seen'.draftRows = Slice(Filled(draftRows, n, w), w)
  BY <1>10
<1>12. /\ d.mode # "NONE" => CapturedAt(graphs, d) = {"capturing"}
       /\ g.mode # "NONE" => CapturedAt(draftGraphs, g) = {"capturing"}
  <2>1. IsUniformDecode(b) \in BOOLEAN
    BY DEF IsUniformDecode
  <2>2. PICK u \in BOOLEAN : u = IsUniformDecode(b)
    BY <2>1
  <2>3. d = Dispatch(keys, k, u)
    BY <1>4, <2>2
  <2> QED BY <1>5, <1>6, <1>10, <2>3, BatchIsCaptured
<1>13. /\ DOMAIN slotMap = 1..MaxNumTokens /\ DOMAIN tables = 1..MaxNumSeqs
       /\ DOMAIN lens = 1..MaxNumSeqs /\ DOMAIN draftRows = 1..MaxNumSeqs
       /\ DOMAIN starts = 1..(MaxNumSeqs + 1)
  BY DEF GraphTypes
<1>14. \A i \in DOMAIN seen'.slotMap : seen'.slotMap[i] = IF i <= k THEN Own ELSE Inert
  <2>1. \A i \in DOMAIN Slice(Filled(slotMap, k, t), t) :
          Slice(Filled(slotMap, k, t), t)[i] = IF i <= k THEN Own ELSE Inert
    BY <1>2, <1>6, <1>13, SliceOfFilled
  <2> QED BY <1>11, <2>1
<1>15. \A i \in DOMAIN seen'.tables : seen'.tables[i] = IF i <= n THEN Own ELSE Inert
  <2>1. \A i \in DOMAIN Slice(Filled(tables, n, r), r) :
          Slice(Filled(tables, n, r), r)[i] = IF i <= n THEN Own ELSE Inert
    BY <1>2, <1>13, SliceOfFilled
  <2> QED BY <1>11, <2>1
<1>16. \A i \in DOMAIN seen'.lens : seen'.lens[i] = IF i <= n THEN Own ELSE Inert
  <2>1. \A i \in DOMAIN Slice(Filled(lens, n, MaxNumSeqs), r) :
          Slice(Filled(lens, n, MaxNumSeqs), r)[i] = IF i <= n THEN Own ELSE Inert
    BY <1>2, <1>8, <1>13, SliceOfFilled
  <2> QED BY <1>11, <2>1
<1>17. \A i \in DOMAIN seen'.draftRows : seen'.draftRows[i] = IF i <= n THEN Own ELSE Inert
  <2>1. \A i \in DOMAIN Slice(Filled(draftRows, n, w), w) :
          Slice(Filled(draftRows, n, w), w)[i] = IF i <= n THEN Own ELSE Inert
    BY <1>2, <1>13, SliceOfFilled
  <2> QED BY <1>11, <2>1
<1>18. Len(seen'.draftRows) >= n
  <2>1. PICK f : f = Filled(draftRows, n, w)
    OBVIOUS
  <2>2. DOMAIN f = 1..MaxNumSeqs
    BY <1>13, <2>1 DEF Filled
  <2>3. \E j \in Nat : /\ j <= w /\ j <= MaxNumSeqs /\ (j = w \/ j = MaxNumSeqs)
                       /\ DOMAIN Slice(f, w) = 1..j /\ Len(Slice(f, w)) = j
                       /\ \A i \in 1..j : Slice(f, w)[i] = f[i]
    BY <1>2, <2>2, SliceFacts
  <2>4. Len(Slice(f, w)) >= n
    BY <1>2, <1>9, <2>3
  <2> QED BY <1>11, <2>1, <2>4
<1>19. /\ \A i \in DOMAIN seen'.starts \ {1} : seen'.starts[i - 1] <= seen'.starts[i]
       /\ seen'.starts[Len(seen'.starts)] = k
  <2>1. PICK z \in Nat : z = MaxNumSeqs + 1 /\ r + 1 <= z
    BY <1>2, <1>8
  <2>2. PICK f : f = QueryStartLoc(b)
    OBVIOUS
  <2>3. PICK c \in Nat : c = r + 1 /\ 1 <= c /\ c <= z /\ c > n
    BY <1>2, <1>8, <2>1
  <2>4. DOMAIN f = 1..z /\ \A i \in 1..z : f[i] = RowStart(b, n, i)
    BY <1>1, <1>13, <2>1, <2>2 DEF QueryStartLoc, RowStart
  <2>5. /\ \A i \in Nat : RowStart(b, n, i) <= RowStart(b, n, i + 1)
        /\ \A i \in Nat : i > n => RowStart(b, n, i) = SumFunction(b)
    BY <1>1, <1>2, StartsInOrder
  <2>6. ASSUME NEW i \in 2..c PROVE f[i - 1] <= f[i]
    <3>1. PICK e \in Nat : e = i - 1 /\ e + 1 = i /\ e \in 1..z /\ i \in 1..z
      BY <2>3
    <3>2. RowStart(b, n, e) <= RowStart(b, n, i)
      BY <2>5, <3>1
    <3> QED BY <2>4, <3>1, <3>2
  <2>7. f[c] = k
    BY <1>3, <2>3, <2>4, <2>5
  <2>8. \A i \in 2..c : f[i - 1] <= f[i]
    BY <2>6
  <2>9. DOMAIN f = 1..z
    BY <2>4
  <2>10. /\ \A i \in DOMAIN Slice(f, c) \ {1} : Slice(f, c)[i - 1] <= Slice(f, c)[i]
         /\ Slice(f, c)[Len(Slice(f, c))] = f[c]
    BY <2>3, <2>8, <2>9, SliceInOrder
  <2>11. seen'.starts = Slice(f, c)
    BY <1>11, <2>2, <2>3
  <2> QED BY <2>7, <2>10, <2>11
<1>20. ReplaysCaptured'
  BY <1>11, <1>12 DEF ReplaysCaptured
<1>21. PaddingIsInert'
  BY <1>11, <1>14, <1>15, <1>16, <1>17, <1>18, <1>19 DEF PaddingIsInert
<1> QED BY <1>20, <1>21 DEF ReplayedRight

LEMMA RunKeeps ==
  ASSUME GraphInv, NEW b \in GraphBatches, RunBatch(b)
  PROVE  GraphInv'
<1>1. GraphTypes /\ GraphsCaptured
  BY DEF GraphInv
<1>2. ReplayedRight'
  BY <1>1, BatchIsInert
<1>3. boot = "serving"
      /\ UNCHANGED <<boot, mode, keys, draftKeys, graphs, draftGraphs, todo>>
  BY DEF RunBatch
<1>4. GraphTypes'
  BY <1>1, <1>3 DEF GraphTypes, RunBatch, SlotMapping, BlockTable, SeqLens, DraftBuffers,
                    QueryStartLoc, Filled
<1>5. GraphsCaptured'
  BY <1>1, <1>3 DEF GraphsCaptured, CapturedWith
<1> QED BY <1>2, <1>4, <1>5 DEF GraphInv

LEMMA GraphStepKeeps ==
  ASSUME GraphInv, [GraphNext]_graphVars
  PROVE  GraphInv'
<1> GraphTypes /\ GraphsCaptured /\ ReplayedRight
  BY DEF GraphInv
<1>1. CASE StartProfiling
  <2>1. ReplayedRight'
    BY <1>1, ReplayedSame DEF StartProfiling
  <2>2. todo' \subseteq keys'
    BY <1>1 DEF StartProfiling
  <2> QED BY <1>1, <2>1, <2>2
      DEF StartProfiling, InitKeys, graphBuffers, GraphInv, GraphTypes, GraphsCaptured
<1>2. CASE Profile
  BY <1>2, CaptureKeeps DEF Profile
<1>3. CASE EndProfiling
  <2>1. ReplayedRight'
    BY <1>3, ReplayedSame DEF EndProfiling
  <2> QED BY <1>3, <2>1
      DEF EndProfiling, DropGraphs, graphBuffers, GraphInv, GraphTypes, GraphsCaptured
<1>4. CASE StartCapturing
  <2>1. ReplayedRight'
    BY <1>4, ReplayedSame DEF StartCapturing
  <2>2. /\ keys' = KeysOf(mode) /\ draftKeys' = KeysOf(DraftMode(mode)) /\ todo' = keys'
        /\ graphs' = {} /\ draftGraphs' = {} /\ boot' = "capturing" /\ UNCHANGED mode
    BY <1>4 DEF StartCapturing, InitKeys, GraphTypes, GraphsCaptured
  <2>3. GraphTypes'
    BY <1>4, <2>2 DEF StartCapturing, graphBuffers, GraphTypes
  <2> QED BY <2>1, <2>2, <2>3 DEF GraphInv, GraphsCaptured
<1>5. CASE CaptureModel
  BY <1>5, CaptureKeeps DEF CaptureModel
<1>6. CASE EndCapturing
  <2>1. ReplayedRight'
    BY <1>6, ReplayedSame DEF EndCapturing
  <2> QED BY <1>6, <2>1
      DEF EndCapturing, graphBuffers, GraphInv, GraphTypes, GraphsCaptured, CapturedWith
<1>7. ASSUME NEW b \in GraphBatches, RunBatch(b)
      PROVE  GraphInv'
  BY <1>7, RunKeeps
<1>8. CASE UNCHANGED graphVars
  <2>1. ReplayedRight'
    BY <1>8, ReplayedSame DEF graphVars
  <2> QED BY <1>8, <2>1 DEF graphVars, GraphInv, GraphTypes, GraphsCaptured, CapturedWith
<1> QED BY <1>1, <1>2, <1>3, <1>4, <1>5, <1>6, <1>7, <1>8 DEF GraphNext

LEMMA GraphStart ==
  ASSUME GraphInit
  PROVE  GraphInv
<1>1. GraphTypes
  BY GraphAssumption DEF GraphInit, GraphTypes
<1>2. GraphsCaptured
  BY DEF GraphInit, GraphsCaptured
<1>3. ReplayedRight
  BY DEF GraphInit, NotRun, ReplayedRight, ReplaysCaptured, PaddingIsInert
<1> QED BY <1>1, <1>2, <1>3 DEF GraphInv

(***************************************************************************)
(* Whatever sizes are captured, and whatever batches follow one another:   *)
(* execute_model() and propose() replay no graph that is missing or that   *)
(* profile_cudagraph_memory() captured with its small KV cache, and the    *)
(* padding of a graph stores nothing, reads no block and no length of an   *)
(* earlier batch, and gives the drafter no stale row.                      *)
(***************************************************************************)
THEOREM GraphsAreReplayed == GraphSpec => []ReplayedRight
<1>1. GraphInv /\ [GraphNext]_graphVars => GraphInv'
  BY GraphStepKeeps
<1>2. GraphInv => ReplayedRight
  BY DEF GraphInv
<1> QED BY <1>1, <1>2, GraphStart, PTL DEF GraphSpec
=============================================================================
