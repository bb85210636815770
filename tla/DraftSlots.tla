----------------------------- MODULE DraftSlots -----------------------------
(***************************************************************************)
(* The draft model's only state across steps: one ring of main-model KV    *)
(* per slot (models/deepseek_v4/nvidia/dspark.py), and the map from        *)
(* requests to slots that DSparkProposer keeps (v1/spec_decode/            *)
(* dspark_proposer.py).                                                    *)
(*                                                                         *)
(* A step of the model runner runs the target model over the rows of its   *)
(* batch, then propose(): reclaim and assign slots row by row, store the   *)
(* rows that verification kept, draft.  What the scheduler puts into a     *)
(* batch is the environment: a request joins with a prefix-cache hit,      *)
(* leaves (finished or preempted), and comes back from its first position. *)
(*                                                                         *)
(* A ring entry names the request and the position whose KV it holds, in   *)
(* place of the tensor.                                                    *)
(***************************************************************************)
EXTENDS Integers, Sequences, FiniteSets, Functions

CONSTANTS
  Requests,         \* request ids
  MaxBatch,         \* max_num_seqs: slots, and rows of a batch
  Window,           \* window_size of a ring
  NumSpecTokens,    \* num_speculative_tokens
  MaxRows,          \* most tokens of one request in a step
  PromptLen,        \* prompt tokens of a request
  MaxPos,           \* positions a request may reach
  DrafterMaxLen,    \* effective_drafter_max_model_len
  Hits,             \* prefix-cache hits a joining request may have
  PartialBatches    \* whether a step may leave a running request out

ASSUME DraftSlotsAssumption ==
  /\ IsFiniteSet(Requests)
  /\ MaxBatch \in Nat \ {0}
  /\ Window \in Nat \ {0}
  /\ NumSpecTokens \in 0..(Window - 1)
  /\ MaxRows \in Nat \ {0}
  /\ PromptLen \in Nat \ {0}
  /\ MaxPos \in Nat
  /\ DrafterMaxLen \in Nat
  /\ Hits \subseteq 0..(PromptLen - 1)
  /\ PartialBatches \in BOOLEAN

VARIABLES
  known,      \* positions of each request that the target has verified
  active,     \* requests the scheduler keeps running
  slotOf,     \* self._req_id_to_slot, NoSlot for an absent key
  freeSlots,  \* self._free_slots
  ring,       \* main_kv_cache: what each entry of each slot's ring holds
  prefilled,  \* self._prefilled
  phase,      \* where propose() is
  batch,      \* req_ids, in batch-row order
  row,        \* rows of the batch that have their slot
  kept        \* rows of each request that verification kept

vars == <<known, active, slotOf, freeSlots, ring, prefilled, phase, batch,
          row, kept>>

Slots == 0..(MaxBatch - 1)
NoSlot == -1
Unwritten == <<>>

Init ==
  /\ known = [r \in Requests |-> 0]
  /\ active = {}
  /\ slotOf = [r \in Requests |-> NoSlot]
  /\ freeSlots = Slots
  /\ ring = [s \in Slots |-> [i \in 0..(Window - 1) |-> Unwritten]]
  /\ prefilled = FALSE
  /\ phase = "idle"
  /\ batch = <<>>
  /\ row = 0
  /\ kept = [r \in Requests |-> 0]

-----------------------------------------------------------------------------
(* The scheduler, as the worker sees it.                                   *)

\* A request is admitted, or resumed: its cached positions are not computed.
Join(r) ==
  /\ phase = "idle"
  /\ r \notin active
  /\ Cardinality(active) < MaxBatch
  /\ \E hit \in Hits : known' = [known EXCEPT ![r] = hit]
  /\ active' = active \union {r}
  /\ UNCHANGED <<slotOf, freeSlots, ring, prefilled, phase, batch, row, kept>>

\* A request finishes or is preempted: the proposer is not told.
Leave(r) ==
  /\ phase = "idle"
  /\ r \in active
  /\ active' = active \ {r}
  /\ known' = [known EXCEPT ![r] = 0]
  /\ UNCHANGED <<slotOf, freeSlots, ring, prefilled, phase, batch, row, kept>>

-----------------------------------------------------------------------------
(* One step of the model runner.                                           *)

\* The requests of a step: a running request is left out when the token budget
\* ends before it, which takes max_num_batched_tokens below what the running
\* requests ask for, their drafts included.
Batches == IF PartialBatches THEN SUBSET active \ {{}} ELSE {active} \ {{}}

RowOrders(S) == {b \in [1..Cardinality(S) -> S] : IsInjective(b)}

\* What verification keeps of the rows of a request: of a token and its
\* drafts at least the first row, of a longer prompt chunk every row.
KeptOf(tokens) == IF tokens <= NumSpecTokens + 1 THEN 1..tokens ELSE {tokens}

\* Fault: absent requests lose their slots, and nobody gets them back.
ReclaimWithoutFreeing(S) ==
  /\ slotOf' = [r \in Requests |-> IF r \in S THEN slotOf[r] ELSE NoSlot]
  /\ UNCHANGED freeSlots

\* Fault: the slots of absent requests are free, and still in the map.
ReclaimWithoutRemoving(S) ==
  /\ freeSlots' = freeSlots \union
                    {slotOf[r] : r \in {q \in Requests \ S : slotOf[q] # NoSlot}}
  /\ UNCHANGED slotOf

\* _row_to_slot takes the slot of every request that is not in the batch S.
Reclaim(S) ==
  /\ slotOf' = [r \in Requests |-> IF r \in S THEN slotOf[r] ELSE NoSlot]
  /\ freeSlots' = freeSlots \union
                    {slotOf[r] : r \in {q \in Requests \ S : slotOf[q] # NoSlot}}

\* The target has run over `tokens' rows of each request of S, and kept k of
\* them.  The drafter is called unless some request of the batch is too close
\* to the end of the context.
Step ==
  /\ phase = "idle"
  /\ \E S \in Batches :
     \E tokens \in [S -> 1..MaxRows] :
     \E k \in [S -> 1..MaxRows] :
       /\ \A r \in S : /\ known[r] + tokens[r] <= MaxPos
                       /\ k[r] \in KeptOf(tokens[r])
       /\ known' = [r \in Requests |->
                      IF r \in S THEN known[r] + k[r] ELSE known[r]]
       /\ \/ /\ \A r \in S : known[r] + tokens[r] + NumSpecTokens <= DrafterMaxLen
             /\ batch' \in RowOrders(S)
             /\ kept' = [r \in Requests |-> IF r \in S THEN k[r] ELSE 0]
             /\ phase' = "assign"
             /\ Reclaim(S)
          \/ /\ \E r \in S : known[r] + tokens[r] + NumSpecTokens > DrafterMaxLen
             /\ UNCHANGED <<batch, kept, phase, slotOf, freeSlots>>
  /\ UNCHANGED <<active, ring, prefilled, row>>

\* One turn of the loop over req_ids: a new request takes the lowest slot.
AssignSlot ==
  /\ phase = "assign"
  /\ row < Len(batch)
  /\ LET r == batch[row + 1]
     IN  IF slotOf[r] # NoSlot
         THEN UNCHANGED <<slotOf, freeSlots>>
         ELSE \E s \in freeSlots :
                /\ \A t \in freeSlots : s <= t
                /\ slotOf' = [slotOf EXCEPT ![r] = s]
                /\ freeSlots' = freeSlots \ {s}
  /\ row' = row + 1
  /\ UNCHANGED <<known, active, ring, prefilled, phase, batch, kept>>

\* Fault: the ring follows the batch row, as it did before the slot map.
RingOfRow(r) == (CHOOSE i \in DOMAIN batch : batch[i] = r) - 1

\* The ring a request of the batch is stored to, and drafts from.
RingOf(r) == slotOf[r]

\* Positions of r that store_main_kv writes: the rows kept, and of those no
\* more than a window.
Stored(r) ==
  {p \in (known[r] - kept[r])..(known[r] - 1) : p >= known[r] - Window}

\* What the step writes to entry i of ring s.
Written(s, i) ==
  {e \in Range(batch) \X (0..MaxPos) :
     RingOf(e[1]) = s /\ e[2] \in Stored(e[1]) /\ e[2] % Window = i}

EndOfCall == batch' = <<>> /\ row' = 0 /\ kept' = [r \in Requests |-> 0]

\* prefill_main: every row goes to its position modulo the window, in the
\* ring of its request.  The very first call returns without drafting.
StoreMainKv ==
  /\ phase = "assign"
  /\ row = Len(batch)
  /\ ring' = [s \in Slots |-> [i \in 0..(Window - 1) |->
                IF Written(s, i) = {} THEN ring[s][i]
                ELSE CHOOSE e \in Written(s, i) : TRUE]]
  /\ prefilled' = TRUE
  /\ IF prefilled
     THEN phase' = "draft" /\ UNCHANGED <<batch, row, kept>>
     ELSE phase' = "idle" /\ EndOfCall
  /\ UNCHANGED <<known, active, slotOf, freeSlots>>

\* The draft model has read the rings.
EndPropose ==
  /\ phase = "draft"
  /\ phase' = "idle"
  /\ EndOfCall
  /\ UNCHANGED <<known, active, slotOf, freeSlots, ring, prefilled>>

Next ==
  \/ Step
  \/ AssignSlot
  \/ StoreMainKv
  \/ EndPropose
  \/ \E r \in Requests : Join(r) \/ Leave(r)

Spec == Init /\ [][Next]_vars

-----------------------------------------------------------------------------
(* Properties.                                                             *)

\* The variables have their types.
TypeOK ==
  /\ known \in [Requests -> Nat]
  /\ active \in SUBSET Requests
  /\ slotOf \in [Requests -> Slots \union {NoSlot}]
  /\ freeSlots \in SUBSET Slots
  /\ ring \in [Slots -> [0..(Window - 1) ->
                        {Unwritten} \union (Requests \X Nat)]]
  /\ prefilled \in BOOLEAN
  /\ phase \in {"idle", "assign", "draft"}
  /\ batch \in Seq(Requests)
  /\ row \in Nat
  /\ kept \in [Requests -> Nat]

Held == {r \in Requests : slotOf[r] # NoSlot}

(***************************************************************************)
(* The slot map and the free list share out the slots: no two requests     *)
(* have one ring, no ring is both free and taken, and none is lost, however *)
(* requests come, go and come back between two calls of _row_to_slot.      *)
(***************************************************************************)
SlotsShared ==
  /\ \A q, r \in Held : q # r => slotOf[q] # slotOf[r]
  /\ freeSlots = Slots \ {slotOf[r] : r \in Held}

\* free_slots.pop(0) never meets an empty list: there is a slot for every
\* row of a batch, although slots are only reclaimed at the next call.
SlotForEveryRow ==
  phase = "assign" /\ row < Len(batch) /\ slotOf[batch[row + 1]] = NoSlot
    => freeSlots # {}

\* The positions whose KV the draft for r attends to (valid_main_lengths).
Read(r) ==
  LET last   == known[r] - 1
      length == IF last + 1 <= Window THEN last + 1 ELSE Window
  IN  (last - length + 1)..last

(***************************************************************************)
(* What main_kv_cache must do (dspark_proposer.py:87-89): follow the       *)
(* request id.  The draft for a request past its prompt (no other draft is *)
(* ever verified) reads the KV of that request, at the positions it takes  *)
(* the entries for, and no other.                                          *)
(***************************************************************************)
DraftReadsOwnKv ==
  phase = "draft" =>
    \A r \in {q \in Range(batch) : known[q] >= PromptLen} :
      \A p \in Read(r) : ring[RingOf(r)][p % Window] = <<r, p>>
=============================================================================
