----------------------- MODULE BlockedWaiting_proofs -----------------------
(***************************************************************************)
(* Proofs about BlockedWaiting, for any requests, settings and bounds, as  *)
(* long as sessions run with one step in flight.                           *)
(***************************************************************************)
EXTENDS BlockedWaiting, DataLemmas

\* Premise: with two steps in flight, a session is stopped twice.
SessionsInStep == \A s \in Settings : s.resumable # {} => s.depth = 1

-----------------------------------------------------------------------------
(* Queues.                                                                 *)

\* A queue is as long as its members are many.
LEMMA QueueLength ==
  ASSUME NEW S, NEW s, IsQueue(s, S)
  PROVE  /\ IsFiniteSet(ToSet(s)) /\ Cardinality(ToSet(s)) = Len(s)
         /\ Len(s) \in Nat
<1>1. /\ s \in Seq(S) /\ Len(s) \in Nat /\ DOMAIN s = 1..Len(s)
      /\ \A i \in 1..Len(s) : s[i] \in ToSet(s)
      /\ \A e \in ToSet(s) : \E i \in 1..Len(s) : s[i] = e
      /\ \A i, j \in 1..Len(s) : s[i] = s[j] => i = j
  BY Members DEF IsQueue
<1>2. s \in [1..Len(s) -> ToSet(s)]
  BY <1>1
<1>3. s \in Surjection(1..Len(s), ToSet(s))
  BY <1>1, <1>2 DEF Surjection
<1>4. s \in Injection(1..Len(s), ToSet(s))
  BY <1>1, <1>2 DEF Injection, IsInjective
<1>5. IsFiniteSet(1..Len(s)) /\ Cardinality(1..Len(s)) = Len(s)
  BY SMTT(30), <1>1, FS_Interval
<1> QED BY <1>1, <1>3, <1>4, <1>5, FS_Surjection

LEMMA QueueMembers ==
  ASSUME NEW S, NEW s, IsQueue(s, S)
  PROVE  s \in Seq(S) /\ ToSet(s) \subseteq S
<1>1. s \in Seq(S)
  BY DEF IsQueue
<1> QED BY <1>1, Members

-----------------------------------------------------------------------------
(* The invariant.                                                          *)

States == {"NEW", "WAITING", "PREEMPTED", "RUNNING", REMOTE, STREAMING, GRAMMAR,
           "FINISHED", "FREED"}

Entry == [status : States, computed : Int, prompt : Int, tokens : Int, ph : Int,
          preempted : BOOLEAN, inputs : Seq({"input", "end"})]

Loads == [state : {"none", "loading", "ended", "reported"}, bad : SUBSET (Nat \ {0})]

BlockedTypes ==
  /\ setting \in Settings
  /\ req \in [Requests -> Entry]
  /\ IsQueue(queue, Requests) /\ IsQueue(skipped, Requests)
  /\ IsQueue(active, Requests) /\ IsQueue(passed, Requests)
  /\ stage \in {"idle", "waiting", "end", "update"}
  /\ batch \subseteq Requests /\ rowsLeft \subseteq Requests
  /\ failedNow \subseteq Requests /\ flight \in Seq(SUBSET Requests)
  /\ finishedRecving \subseteq Requests
  /\ blocks \in [Requests -> SUBSET Nat]
  /\ \A r \in Requests : IsFiniteSet(blocks[r])
  /\ load \in [Requests -> Loads]
  /\ good \in [Requests -> Int]

\* What belongs to which part of a step.
Pace ==
  /\ Len(flight) <= Depth
  /\ stage # "idle" => Len(flight) < Depth
  /\ stage # "update" => rowsLeft = {} /\ failedNow = {}
  /\ stage \in {"idle", "update"} => batch = {} /\ passed = <<>>
  /\ \A r \in batch : req[r].status = "RUNNING"
  /\ \A r \in failedNow : req[r].status = REMOTE

\* Where a request stands, by its status.
Standing(r) ==
  /\ r \in ToSet(active) <=> req[r].status = "RUNNING"
  /\ r \in ToSet(queue) \union ToSet(skipped) \union ToSet(passed)
       <=> ~Gone(req[r].status) /\ req[r].status # "RUNNING"
  /\ r \in ToSet(queue) =>
       r \notin ToSet(skipped) \union ToSet(passed) /\ ~Blocked(req[r].status)
  /\ r \in ToSet(skipped) => r \notin ToSet(passed)

\* Rows of r that are in flight, or not yet visited.
Owed(r) == r \in rowsLeft \/ \E k \in 1..Len(flight) : r \in flight[k]

\* A row outlives the running of its request only if that is over, or was
\* preempted in the step behind; then it is still in the queue.
Behind(r) ==
  /\ req[r].status = "PREEMPTED" /\ r \in ToSet(queue)
  /\ Depth = 2 /\ stage # "waiting"
  /\ stage = "idle" => Len(flight) = 2 /\ r \notin flight[2]
  /\ stage = "update" => \A k \in 1..Len(flight) : r \notin flight[k]

Flown(r) ==
  Owed(r) => req[r].status \in {"RUNNING", "FINISHED", "FREED"} \/ Behind(r)

Flying(k, r) == IF k <= Len(flight) /\ r \in flight[k] THEN 1 ELSE 0
RowsOf(r) == (IF r \in rowsLeft THEN 1 ELSE 0) + Flying(1, r) + Flying(2, r)

Counted(r) == req[r].status \notin {"FINISHED", "FREED"} => req[r].ph = RowsOf(r)

\* A load goes on while its request waits for it, or after it was aborted.
Lent(r) ==
  /\ load[r].state # "none" =>
       /\ blocks[r] # {}
       /\ \/ req[r].status = REMOTE /\ r \notin finishedRecving
          \/ req[r].status = "FINISHED"
  /\ load[r].state \in {"none", "reported"} => load[r].bad = {}
  /\ r \in finishedRecving => req[r].status = REMOTE /\ load[r].state = "none"
  /\ req[r].status = "FREED" => blocks[r] = {}

Apart == \A r, q \in Requests : r # q => blocks[r] \cap blocks[q] = {}

\* How far the KV goes that really is in the blocks.
Kv(r) ==
  /\ req[r].status \notin {"FINISHED", "FREED"} =>
       req[r].computed >= 0 /\ req[r].tokens >= PromptLen[r]
  /\ req[r].status = "RUNNING" /\ r \notin batch =>
       good[r] = req[r].computed /\ good[r] = req[r].tokens + req[r].ph - 1
  /\ r \in batch =>
       good[r] = req[r].tokens + req[r].ph /\ req[r].computed <= good[r]
  /\ req[r].status \notin {"RUNNING", "FINISHED", "FREED"} =>
       good[r] >= Truncated(r) /\ req[r].computed <= req[r].tokens

Streams == {r \in Requests : req[r].status = STREAMING}

Sound(r) == Standing(r) /\ Flown(r) /\ Counted(r) /\ Lent(r) /\ Kv(r)

BInv ==
  /\ BlockedTypes /\ Pace /\ Apart
  /\ sessionsWaiting = Cardinality(Streams)
  /\ \A r \in Requests : Sound(r)

USE DEF REMOTE, STREAMING, GRAMMAR, Blocked, Gone

-----------------------------------------------------------------------------
(* Settings, rows, and blocks.                                             *)

LEMMA SettingFacts ==
  ASSUME SessionsInStep, setting \in Settings
  PROVE  /\ Depth \in {1, 2} /\ (Resumable # {} => Depth = 1)
         /\ Recompute \in BOOLEAN
         /\ \A r \in Requests :
              /\ PromptLen[r] \in Int /\ PromptLen[r] > 0
              /\ Offers[r] \subseteq 1..PromptLen[r]
         /\ BlockSize \in Nat \ {0} /\ IsFiniteSet(Requests)
<1>1. \A r \in Requests : PromptLen[r] \in Int /\ PromptLen[r] > 0
  BY BlockedAssumption
<1>2. Depth \in {1, 2} /\ (Resumable # {} => Depth = 1) /\ Recompute \in BOOLEAN
  BY BlockedAssumption DEF SessionsInStep, Depth, Resumable, Recompute
<1>3. \A r \in Requests : Offers[r] \subseteq 1..PromptLen[r]
  BY BlockedAssumption DEF Offers
<1> QED BY <1>1, <1>2, <1>3, BlockedAssumption

LEMMA RowFacts ==
  ASSUME BlockedTypes, Pace, SessionsInStep, NEW r \in Requests
  PROVE  /\ Len(flight) \in {0, 1, 2}
         /\ RowsOf(r) \in Int /\ RowsOf(r) >= 0
         /\ Owed(r) <=> RowsOf(r) # 0
         /\ Owed(r) <=> r \in rowsLeft \/ Flying(1, r) = 1 \/ Flying(2, r) = 1
<1>1. PICK n \in {0, 1, 2} : n = Len(flight)
  <2>1. PICK n \in Nat : n = Len(flight)
    BY LenProperties DEF BlockedTypes
  <2>2. setting \in Settings
    BY DEF BlockedTypes
  <2>3. PICK d \in {1, 2} : d = Depth
    BY <2>2, SettingFacts
  <2>4. n <= d
    BY <2>1, <2>3 DEF Pace
  <2> QED BY <2>1, <2>4
<1>2. Flying(1, r) \in {0, 1} /\ Flying(2, r) \in {0, 1}
  BY DEF Flying
<1>3. (\E k \in 1..Len(flight) : r \in flight[k])
         <=> Flying(1, r) = 1 \/ Flying(2, r) = 1
  <2>1. \A k \in 1..n : (k = 1 \/ k = 2) /\ k <= n
    OBVIOUS
  <2>2. (1 <= n => 1 \in 1..n) /\ (2 <= n => 2 \in 1..n)
    OBVIOUS
  <2> QED BY <1>1, <2>1, <2>2 DEF Flying
<1> QED BY <1>1, <1>2, <1>3 DEF RowsOf, Owed

LEMMA LeastOf ==
  ASSUME NEW S \in SUBSET Nat, S # {}
  PROVE  Min(S) \in S /\ \A x \in S : Min(S) <= x
<1> DEFINE R == OpToRel(<, Nat)
<1>1. PICK n \in S : \A m \in S : ~(<<m, n>> \in R)
  <2>1. IsWellFoundedOn(R, Nat)
    BY NatLessThanWellFounded
  <2> HIDE DEF R
  <2> QED BY <2>1, WFMin
<1>2. \A m \in S : ~(m < n)
  BY <1>1 DEF OpToRel
<1>3. \A m \in S : n <= m
  BY <1>2
<1> QED BY <1>3 DEF Min

\* The blocks of n tokens hold them, and one less would not.
LEMMA BlockBounds ==
  ASSUME NEW n \in Nat, BlockSize \in Nat \ {0}
  PROVE  /\ BlocksOf(n) \in Nat /\ n <= BlocksOf(n) * BlockSize
         /\ n > 0 => BlocksOf(n) > 0
         /\ (BlocksOf(n) - 1) * BlockSize < n \/ n = 0
<1>1. PICK w \in Nat \ {0} : w = BlockSize
  OBVIOUS
<1>2. PICK q \in Int, m \in Int :
        q = BlocksOf(n) /\ n + w - 1 = w * q + m /\ m >= 0 /\ m < w
  <2>1. n + w - 1 \in Nat
    OBVIOUS
  <2>2. PICK a \in Nat : a = n + w - 1
    BY <2>1
  <2>3. /\ a = w * (a \div w) + (a % w)
        /\ a % w \in 0..(w - 1) /\ a \div w \in Int
    OBVIOUS
  <2>4. a \div w = BlocksOf(n)
    BY <1>1, <2>2 DEF BlocksOf
  <2> QED BY <2>2, <2>3, <2>4
<1>3. q >= 0
  <2>1. ASSUME q <= -1 PROVE FALSE
    <3>1. w * (-1 - q) >= 0 /\ w * (-1 - q) = -w - w * q
      BY <2>1
    <3> QED BY <1>2, <3>1
  <2> QED BY <2>1
<1>4. q * w = w * q /\ (q - 1) * w = w * q - w
  OBVIOUS
<1>5. n > 0 => q > 0
  <2>1. q = 0 => w * q = 0
    OBVIOUS
  <2> QED BY <1>2, <1>3, <2>1
<1>6. n <= w * q /\ w * q - w < n
  BY <1>2
<1> QED BY <1>1, <1>2, <1>3, <1>4, <1>5, <1>6

LEMMA Times ==
  ASSUME NEW x \in Int, NEW y \in Int, NEW w \in Nat, x <= y
  PROVE  x * w \in Int /\ y * w \in Int /\ x * w <= y * w
<1>1. y - x >= 0
  OBVIOUS
<1>2. (y - x) * w >= 0 /\ (y - x) * w = y * w - x * w
  BY <1>1
<1>3. x * w \in Int /\ y * w \in Int
  OBVIOUS
<1> QED BY <1>2, <1>3

\* Where c computed tokens are cut off by the first block that is bad.
Cut(bad, c) ==
  LET hit == {i \in bad : i <= BlocksOf(c)}
  IN  IF hit = {} THEN c ELSE (Min(hit) - 1) * BlockSize

LEMMA CutFacts ==
  ASSUME NEW bad \in SUBSET (Nat \ {0}), NEW c \in Nat, BlockSize \in Nat \ {0}
  PROVE  /\ Cut(bad, c) \in Int /\ 0 <= Cut(bad, c) /\ Cut(bad, c) <= c
         /\ bad = {} => Cut(bad, c) = c
<1>1. PICK hit \in SUBSET (Nat \ {0}) : hit = {i \in bad : i <= BlocksOf(c)}
  OBVIOUS
<1>2. CASE hit = {}
  BY <1>1, <1>2 DEF Cut
<1>3. CASE hit # {}
  <2>1. PICK m \in hit : m = Min(hit)
    BY <1>3, LeastOf
  <2>2. PICK b \in Nat : b = BlocksOf(c) /\ (b > 0 => (b - 1) * BlockSize < c)
    <3>1. c = 0 => BlocksOf(c) * BlockSize = 0 \/ BlocksOf(c) = 0
      BY DEF BlocksOf
    <3>2. PICK b \in Nat : b = BlocksOf(c)
      BY BlockBounds
    <3>3. CASE c = 0
      <4>1. b = 0
        <5>1. PICK w \in Nat \ {0} : w = BlockSize
          OBVIOUS
        <5>2. (w - 1) \div w = 0
          OBVIOUS
        <5> QED BY <3>2, <3>3, <5>1, <5>2 DEF BlocksOf
      <4> QED BY <3>2, <4>1
    <3>4. CASE c # 0
      BY <3>2, <3>4, BlockBounds
    <3> QED BY <3>3, <3>4
  <2>3. m \in Nat /\ m >= 1 /\ m <= b
    BY <1>1, <2>1, <2>2
  <2>4. PICK w \in Nat \ {0} : w = BlockSize
    OBVIOUS
  <2>5. (m - 1) * w <= (b - 1) * w /\ (m - 1) * w \in Int /\ (b - 1) * w \in Int
    <3>1. m - 1 \in Int /\ b - 1 \in Int /\ m - 1 <= b - 1
      BY <2>3
    <3> QED BY <3>1, <2>4, Times
  <2>6. 0 * w <= (m - 1) * w /\ 0 * w = 0
    <3>1. 0 \in Int /\ m - 1 \in Int /\ 0 <= m - 1
      BY <2>3
    <3> QED BY <2>4, <3>1, Times
  <2>7. (b - 1) * w < c
    BY <2>2, <2>3, <2>4
  <2>8. Cut(bad, c) = (m - 1) * w
    BY <1>1, <1>3, <2>1, <2>4 DEF Cut
  <2>9. 0 <= (m - 1) * w /\ (m - 1) * w <= c
    BY <2>5, <2>6, <2>7
  <2>10. bad # {}
    BY <1>1, <1>3
  <2> QED BY <2>5, <2>8, <2>9, <2>10
<1> QED BY <1>2, <1>3

LEMMA CutMore ==
  ASSUME NEW bad \in SUBSET (Nat \ {0}), NEW c \in Nat, BlockSize \in Nat \ {0},
         NEW i \in Nat \ {0}
  PROVE  /\ Cut(bad \union {i}, c) <= Cut(bad, c)
         /\ Cut(bad \union {i}, c) <= (i - 1) * BlockSize
         /\ (i - 1) * BlockSize \in Int
<1>1. PICK w \in Nat \ {0}, b \in Nat :
        w = BlockSize /\ b = BlocksOf(c) /\ c <= b * w
  BY BlockBounds
<1>2. PICK hit \in SUBSET (Nat \ {0}) : hit = {j \in bad : j <= b}
  OBVIOUS
<1>3. PICK x, y \in Int : /\ x = Cut(bad \union {i}, c) /\ y = Cut(bad, c)
                          /\ x <= c /\ y <= c
  <2>1. bad \union {i} \in SUBSET (Nat \ {0})
    OBVIOUS
  <2>2. Cut(bad \union {i}, c) \in Int /\ Cut(bad \union {i}, c) <= c
    BY <2>1, CutFacts
  <2>3. Cut(bad, c) \in Int /\ Cut(bad, c) <= c
    BY CutFacts
  <2> QED BY <2>2, <2>3
<1>4. (i - 1) * w \in Int
  OBVIOUS
<1>5. CASE i > b
  <2>1. {j \in bad \union {i} : j <= b} = hit
    BY <1>2, <1>5
  <2>2. x = y
    BY <1>1, <1>2, <1>3, <2>1 DEF Cut
  <2>3. b * w <= (i - 1) * w /\ b * w \in Int
    <3>1. b \in Int /\ i - 1 \in Int /\ b <= i - 1
      BY <1>5
    <3> QED BY <3>1, Times
  <2>4. c <= (i - 1) * w
    BY <1>1, <1>4, <2>3
  <2>5. x <= (i - 1) * w
    BY <1>3, <1>4, <2>4
  <2> QED BY <1>1, <1>3, <1>4, <2>2, <2>5
<1>6. CASE i <= b
  <2>1. PICK more \in SUBSET Nat : more = {j \in bad \union {i} : j <= b}
    OBVIOUS
  <2>2. more = hit \union {i}
    BY <1>2, <1>6, <2>1
  <2>3. PICK m \in more : m = Min(more) /\ \A j \in more : m <= j
    BY ZenonT(30), <2>2, LeastOf
  <2>4. x = (m - 1) * w /\ m \in Nat
    BY <1>1, <1>3, <2>1, <2>2, <2>3 DEF Cut
  <2>5. x <= (i - 1) * w
    <3>1. m <= i /\ m \in Nat
      BY <2>2, <2>3
    <3>2. m - 1 \in Int /\ i - 1 \in Int /\ m - 1 <= i - 1
      BY <3>1
    <3> QED BY <2>4, <3>2, Times
  <2>6. x <= y
    <3>1. CASE hit = {}
      <4>1. y = c
        BY <1>1, <1>2, <1>3, <3>1 DEF Cut
      <4> QED BY <1>3, <4>1
    <3>2. CASE hit # {}
      <4>1. PICK h \in hit : h = Min(hit)
        BY <3>2, LeastOf
      <4>2. y = (h - 1) * w /\ h \in Nat
        BY <1>1, <1>2, <1>3, <3>2, <4>1 DEF Cut
      <4>3. m <= h /\ m \in Nat /\ h \in Nat
        BY <2>2, <2>3
      <4>4. m - 1 \in Int /\ h - 1 \in Int /\ m - 1 <= h - 1
        BY <4>3
      <4> QED BY <2>4, <4>2, <4>4, Times
    <3> QED BY <3>1, <3>2
  <2> QED BY <1>1, <1>3, <1>4, <2>5, <2>6
<1> QED BY <1>5, <1>6

\* The blocks of r with some added are its own.
LEMMA GrownFacts ==
  ASSUME BlockedTypes, Apart, NEW r \in Requests, NEW n \in Nat
  PROVE  /\ Grown(r, n) \in SUBSET Nat /\ IsFiniteSet(Grown(r, n))
         /\ n > 0 => Grown(r, n) # {}
         /\ \A q \in Requests : q # r => Grown(r, n) \cap blocks[q] = {}
<1>1. /\ blocks \in [Requests -> SUBSET Nat] /\ IsFiniteSet(Requests)
      /\ \A q \in Requests : IsFiniteSet(blocks[q])
  BY BlockedAssumption DEF BlockedTypes
<1>2. IsFiniteSet(Held) /\ Cardinality(Held) \in Nat
  <2>1. PICK all : all = {blocks[q] : q \in Requests}
    OBVIOUS
  <2>2. blocks \in Surjection(Requests, all)
    BY <1>1, <2>1 DEF Surjection
  <2>3. IsFiniteSet(all)
    BY <1>1, <2>2, FS_Surjection
  <2>4. \A T \in all : IsFiniteSet(T)
    BY <1>1, <2>1
  <2>5. IsFiniteSet(UNION all)
    BY <2>3, <2>4, FS_UNION
  <2>6. Held = UNION all
    BY <2>1 DEF Held
  <2> QED BY <2>5, <2>6, FS_CardinalityType
<1>3. PICK c \in Nat : c = Cardinality(Held)
  BY <1>2
<1>4. PICK free \in SUBSET (1..(c + n)) : free = (1..(c + n)) \ Held
  OBVIOUS
<1>5. PICK more : more = n - Cardinality(blocks[r])
  OBVIOUS
<1>6. PICK new \in SUBSET free :
        new = {x \in free : Cardinality({y \in free : y < x}) < more}
  OBVIOUS
<1>7. Grown(r, n) = blocks[r] \union new
  BY <1>3, <1>4, <1>5, <1>6 DEF Grown
<1>8. IsFiniteSet(1..(c + n)) /\ Cardinality(1..(c + n)) = c + n
  <2>1. c + n \in Nat /\ 1 \in Int /\ (1 > c + n => c + n = 0)
    OBVIOUS
  <2> QED BY <2>1, FS_Interval
<1>9. IsFiniteSet(new) /\ new \subseteq Nat
  <2>1. new \subseteq 1..(c + n) /\ 1..(c + n) \subseteq Nat
    OBVIOUS
  <2> QED BY <1>8, <2>1, FS_Subset
<1>10. n > 0 => Grown(r, n) # {}
  <2> SUFFICES ASSUME n > 0, blocks[r] = {} PROVE new # {}
    BY <1>7
  <2>1. more = n
    BY <1>5, FS_EmptySet
  <2>2. free # {}
    <3> SUFFICES ASSUME free = {} PROVE FALSE
      OBVIOUS
    <3>1. 1..(c + n) \in SUBSET Held
      BY <1>4
    <3>2. c + n <= c
      BY <1>2, <1>3, <1>8, <3>1, FS_Subset
    <3> QED BY <3>2
  <2>3. PICK m \in free : \A x \in free : m <= x
    <3>1. free \in SUBSET Nat
      OBVIOUS
    <3> QED BY <2>2, <3>1, LeastOf
  <2>4. {y \in free : y < m} = {}
    <3>1. \A y \in free : y \in Nat /\ m \in Nat
      OBVIOUS
    <3>2. \A y \in free : ~(y < m)
      BY <2>3, <3>1
    <3> QED BY <3>2
  <2>5. Cardinality({y \in free : y < m}) < more
    BY <2>1, <2>4, FS_EmptySet
  <2> QED BY <1>6, <2>5
<1>11. IsFiniteSet(Grown(r, n)) /\ Grown(r, n) \in SUBSET Nat
  BY <1>1, <1>7, <1>9, FS_Union
<1>12. ASSUME NEW q \in Requests, q # r PROVE Grown(r, n) \cap blocks[q] = {}
  <2>1. blocks[q] \subseteq Held
    BY DEF Held
  <2>2. blocks[r] \cap blocks[q] = {}
    BY <1>12 DEF Apart
  <2> QED BY <1>4, <1>7, <2>1, <2>2
<1> QED BY <1>10, <1>11, <1>12

LEMMA Numbers ==
  ASSUME BlockedTypes, NEW r \in Requests
  PROVE  /\ req[r] \in Entry /\ load[r] \in Loads
         /\ req[r].computed \in Int /\ req[r].tokens \in Int
         /\ req[r].ph \in Int /\ good[r] \in Int
         /\ PromptLen[r] \in Int /\ PromptLen[r] > 0
<1>1. PromptLen[r] \in Int /\ PromptLen[r] > 0
  BY BlockedAssumption
<1>2. req[r] \in Entry /\ load[r] \in Loads /\ good[r] \in Int
  BY DEF BlockedTypes
<1> QED BY <1>1, <1>2 DEF Entry

LEMMA EntryChanged ==
  ASSUME NEW e \in Entry, NEW t \in Int, NEW k \in Int, NEW s \in States
  PROVE  /\ [e EXCEPT !.tokens = t, !.ph = k] \in Entry
         /\ [e EXCEPT !.status = s] \in Entry
<1>1. [e EXCEPT !.tokens = t, !.ph = k] \in Entry
  BY DEF Entry
<1>2. [e EXCEPT !.status = s] \in Entry
  BY DEF Entry
<1> QED BY <1>1, <1>2

LEMMA CutOf ==
  ASSUME NEW r \in Requests
  PROVE  Truncated(r) = Cut(load[r].bad, req[r].computed)
BY DEF Truncated, Cut

-----------------------------------------------------------------------------
(* What a step leaves alone.                                               *)

\* The step does nothing to r.
Untouched(r) ==
  /\ req'[r].status = req[r].status /\ req'[r].computed = req[r].computed
  /\ req'[r].tokens = req[r].tokens /\ req'[r].ph = req[r].ph
  /\ load'[r] = load[r] /\ blocks'[r] = blocks[r] /\ good'[r] = good[r]
  /\ r \in ToSet(queue') <=> r \in ToSet(queue)
  /\ r \in ToSet(skipped') <=> r \in ToSet(skipped)
  /\ r \in ToSet(active') <=> r \in ToSet(active)
  /\ r \in ToSet(passed') <=> r \in ToSet(passed)
  /\ r \in finishedRecving' <=> r \in finishedRecving
  /\ r \in batch' <=> r \in batch
  /\ r \in rowsLeft' <=> r \in rowsLeft

LEMMA StaysSound ==
  ASSUME NEW r \in Requests, Sound(r), Untouched(r), flight' = flight,
         stage' = stage \/ ~Behind(r), setting' = setting
  PROVE  Sound(r)'
<1>1. Standing(r)'
  BY DEF Standing, Sound, Untouched
<1>2. Owed(r)' <=> Owed(r)
  BY DEF Owed, Untouched
<1>3. Behind(r) => Behind(r)'
  <2>1. CASE ~Behind(r)
    BY <2>1
  <2>2. CASE stage' = stage
    BY <2>2 DEF Behind, Depth, Untouched
  <2> QED BY <2>1, <2>2
<1>4. Flown(r)'
  BY <1>2, <1>3 DEF Flown, Sound, Untouched
<1>5. RowsOf(r)' = RowsOf(r)
  BY DEF RowsOf, Flying, Untouched
<1>6. Counted(r)'
  BY <1>5 DEF Counted, Sound, Untouched
<1>7. Lent(r)'
  BY DEF Lent, Sound, Untouched
<1>8. Truncated(r)' = Truncated(r)
  BY DEF Truncated, Untouched
<1>9. Kv(r)'
  BY <1>8 DEF Kv, Sound, Untouched
<1> QED BY <1>1, <1>4, <1>6, <1>7, <1>9 DEF Sound

\* A request of which no row is due waits only if no step can disturb it.
LEMMA NoneBehind ==
  ASSUME BInv, SessionsInStep, NEW r \in Requests,
         stage = "waiting" \/ (stage = "idle" /\ Len(flight) < Depth)
  PROVE  ~Behind(r)
<1>1. Depth \in {1, 2}
  BY SettingFacts DEF BInv, BlockedTypes
<1> QED BY <1>1 DEF Behind

LEMMA BlockedStart ==
  ASSUME SessionsInStep, BlockedInit
  PROVE  BInv
<1>1. BlockedTypes
  <2>1. IsQueue(<<>>, Requests)
    BY EmptyQueue
  <2>2. \A r \in Requests : PromptLen[r] \in Int
    BY BlockedAssumption
  <2>3. req \in [Requests -> Entry]
    BY <2>2 DEF BlockedInit, Entry, States
  <2>4. load \in [Requests -> Loads]
    BY DEF BlockedInit, Loads, NoLoad
  <2>5. /\ blocks \in [Requests -> SUBSET Nat]
        /\ \A r \in Requests : IsFiniteSet(blocks[r])
    BY FS_EmptySet DEF BlockedInit
  <2>6. flight \in Seq(SUBSET Requests)
    BY DEF BlockedInit
  <2> QED BY <2>1, <2>3, <2>4, <2>5, <2>6 DEF BlockedInit, BlockedTypes
<1>2. Depth \in {1, 2}
  BY SettingFacts DEF BlockedInit
<1>3. Pace
  BY <1>2 DEF BlockedInit, Pace
<1>4. Apart
  BY DEF BlockedInit, Apart
<1>5. Streams = {} /\ sessionsWaiting = Cardinality(Streams)
  BY FS_EmptySet DEF BlockedInit, Streams
<1>6. ASSUME NEW r \in Requests PROVE Sound(r)
  <2>1. ToSet(<<>>) = {}
    BY EmptyQueue
  <2>2. Standing(r)
    BY <2>1 DEF BlockedInit, Standing
  <2>3. ~Owed(r)
    BY DEF BlockedInit, Owed
  <2>4. RowsOf(r) = 0
    BY DEF BlockedInit, RowsOf, Flying
  <2>5. Flown(r) /\ Counted(r)
    BY <2>3, <2>4 DEF BlockedInit, Flown, Counted
  <2>6. Lent(r)
    BY DEF BlockedInit, Lent, NoLoad
  <2>7. Truncated(r) = 0
    <3>1. Cut({}, 0) = 0
      BY DEF Cut
    <3> QED BY <3>1, CutOf DEF BlockedInit, NoLoad
  <2>8. PromptLen[r] \in Int /\ PromptLen[r] > 0
    BY BlockedAssumption
  <2>9. Kv(r)
    BY <2>7, <2>8 DEF BlockedInit, Kv
  <2> QED BY <2>2, <2>5, <2>6, <2>9 DEF Sound
<1> QED BY <1>1, <1>3, <1>4, <1>5, <1>6 DEF BInv

-----------------------------------------------------------------------------
(* The head of the waiting.                                                *)

LEMMA HeadFacts ==
  ASSUME BInv, SessionsInStep, Visiting
  PROVE  /\ HeadRequest \in Requests
         /\ ~Gone(req[HeadRequest].status)
         /\ req[HeadRequest].status # "RUNNING"
         /\ HeadRequest \in ToSet(queue) \union ToSet(skipped)
         /\ HeadRequest \notin ToSet(passed) \union ToSet(active) \union batch
         /\ ~Owed(HeadRequest) /\ req[HeadRequest].ph = 0
<1>1. IsQueue(queue, Requests) /\ IsQueue(skipped, Requests)
  BY DEF BInv, BlockedTypes
<1>2. /\ skipped # <<>> => Head(skipped) \in Requests /\ Head(skipped) \in ToSet(skipped)
      /\ queue # <<>> => Head(queue) \in Requests /\ Head(queue) \in ToSet(queue)
  BY <1>1, TailOfQueue
<1>3. PICK h \in Requests :
        h = HeadRequest /\ h \in ToSet(queue) \union ToSet(skipped)
  BY <1>2 DEF HeadRequest, Visiting
<1>4. /\ Sound(h) /\ Pace /\ BlockedTypes
  BY DEF BInv
<1>5. /\ ~Gone(req[h].status) /\ req[h].status # "RUNNING"
      /\ h \notin ToSet(passed) /\ h \notin ToSet(active)
  BY <1>3, <1>4 DEF Sound, Standing
<1>6. h \notin batch
  BY <1>4, <1>5 DEF Pace
<1>7. ~Behind(h)
  BY NoneBehind DEF Visiting
<1>8. ~Owed(h)
  BY <1>4, <1>5, <1>7 DEF Sound, Flown
<1>9. RowsOf(h) = 0
  BY <1>4, <1>8, RowFacts
<1>10. req[h].ph = 0
  BY <1>4, <1>5, <1>9 DEF Sound, Counted
<1> QED BY <1>3, <1>5, <1>6, <1>8, <1>10

LEMMA PopFacts ==
  ASSUME BInv, SessionsInStep, Visiting, Pop
  PROVE  /\ IsQueue(queue', Requests) /\ IsQueue(skipped', Requests)
         /\ ToSet(queue') = ToSet(queue) \ {HeadRequest}
         /\ ToSet(skipped') = ToSet(skipped) \ {HeadRequest}
<1>1. IsQueue(queue, Requests) /\ IsQueue(skipped, Requests)
  BY DEF BInv, BlockedTypes
<1>2. PICK h \in Requests : h = HeadRequest
  BY HeadFacts
<1>3. Sound(h)
  BY DEF BInv
<1>4. CASE skipped # <<>>
  <2>1. h = Head(skipped) /\ skipped' = Tail(skipped) /\ queue' = queue
    BY <1>2, <1>4 DEF HeadRequest, Pop
  <2>2. h \in ToSet(skipped) /\ IsQueue(skipped', Requests)
        /\ ToSet(skipped') = ToSet(skipped) \ {h}
    BY <1>1, <1>4, <2>1, TailOfQueue
  <2>3. h \notin ToSet(queue)
    BY <1>3, <2>2 DEF Sound, Standing
  <2> QED BY <1>1, <1>2, <2>1, <2>2, <2>3
<1>5. CASE skipped = <<>>
  <2>1. h = Head(queue) /\ queue' = Tail(queue) /\ skipped' = skipped /\ queue # <<>>
    BY <1>2, <1>5 DEF HeadRequest, Pop, Visiting
  <2>2. IsQueue(queue', Requests) /\ ToSet(queue') = ToSet(queue) \ {h}
    BY <1>1, <2>1, TailOfQueue
  <2>3. ToSet(skipped) = {}
    BY <1>5, EmptyQueue
  <2> QED BY <1>1, <1>2, <2>1, <2>2, <2>3
<1> QED BY <1>4, <1>5

-----------------------------------------------------------------------------
(* schedule()                                                              *)

LEMMA PassOverKeeps ==
  ASSUME BInv, SessionsInStep, PassOver, setting' = setting
  PROVE  BInv'
<1>1. PICK h \in Requests :
        /\ h = HeadRequest /\ ~Gone(req[h].status) /\ req[h].status # "RUNNING"
        /\ h \in ToSet(queue) \union ToSet(skipped)
        /\ h \notin ToSet(passed) \union ToSet(active) \union batch
        /\ ~Owed(h)
  BY HeadFacts DEF PassOver
<1>2. /\ IsQueue(queue', Requests) /\ IsQueue(skipped', Requests)
      /\ ToSet(queue') = ToSet(queue) \ {h}
      /\ ToSet(skipped') = ToSet(skipped) \ {h}
  BY <1>1, PopFacts DEF PassOver
<1>3. /\ passed' = Append(passed, h)
      /\ UNCHANGED <<req, active, stage, batch, rowsLeft, failedNow, flight,
                     sessionsWaiting, finishedRecving, blocks, load, good>>
  BY <1>1 DEF PassOver, recvVars, kvVars
<1>4. IsQueue(passed, Requests)
  BY DEF BInv, BlockedTypes
<1>5. IsQueue(passed', Requests) /\ ToSet(passed') = ToSet(passed) \union {h}
  BY <1>1, <1>3, <1>4, AppendToQueue
<1>6. BlockedTypes'
  BY <1>2, <1>3, <1>5 DEF BInv, BlockedTypes
<1>7. Pace'
  BY <1>3 DEF BInv, Pace, Depth, PassOver, Visiting
<1>8. Apart' /\ Streams' = Streams
  BY <1>3 DEF BInv, Apart, Streams
<1>9. ASSUME NEW r \in Requests PROVE Sound(r)'
  <2>1. Sound(r)
    BY DEF BInv
  <2>2. CASE r # h
    <3>1. Untouched(r)
      BY <1>2, <1>3, <1>5, <2>2 DEF Untouched
    <3> QED BY <1>3, <2>1, <3>1, StaysSound
  <2>3. CASE r = h
    <3>1. Standing(r)'
      BY <1>1, <1>2, <1>3, <1>5, <2>1, <2>3 DEF Sound, Standing
    <3>2. ~Owed(r)' /\ RowsOf(r)' = RowsOf(r)
      BY <1>1, <1>3, <2>3 DEF Owed, RowsOf, Flying
    <3>3. Flown(r)' /\ Counted(r)'
      BY <1>3, <2>1, <3>2 DEF Sound, Flown, Counted
    <3>4. Lent(r)'
      BY <1>3, <2>1 DEF Sound, Lent
    <3>5. Kv(r)'
      BY <1>3, <2>1 DEF Sound, Kv, Truncated
    <3> QED BY <3>1, <3>3, <3>4, <3>5 DEF Sound
  <2> QED BY <2>2, <2>3
<1> QED BY <1>3, <1>6, <1>7, <1>8, <1>9 DEF BInv

LEMMA PromoteKeeps ==
  ASSUME BInv, SessionsInStep, Promote, setting' = setting
  PROVE  BInv'
<1>1. PICK h \in Requests :
        /\ h = HeadRequest /\ ~Gone(req[h].status) /\ req[h].status # "RUNNING"
        /\ h \in ToSet(queue) \union ToSet(skipped)
        /\ h \notin ToSet(passed) \union ToSet(active) \union batch
        /\ ~Owed(h)
  BY HeadFacts DEF Promote
<1>2. /\ Ready(h) /\ Promoted(h) /\ finishedRecving' = finishedRecving \ {h}
      /\ UNCHANGED <<queue, skipped, active, stage, passed, batch, rowsLeft,
                     failedNow, flight, sessionsWaiting, load, good>>
  BY <1>1 DEF Promote, queueVars, stepVars
<1>3. Sound(h) /\ BlockedTypes /\ Pace /\ Apart
  BY DEF BInv
<1>4. req[h].status \in {REMOTE, GRAMMAR} /\ load[h] = [state |-> "none", bad |-> {}]
  <2>1. req[h].status \in {REMOTE, GRAMMAR} /\ load[h].state = "none"
        /\ load[h].bad = {}
    BY <1>2, <1>3 DEF Ready, Sound, Lent
  <2> QED BY <1>3, <2>1 DEF BlockedTypes, Loads
<1>5. PICK c, c2, t \in Int :
        /\ c = req[h].computed /\ t = req[h].tokens
        /\ c2 = IF req[h].status = REMOTE /\ h \notin failedRecving /\ c = t
                THEN c - 1 ELSE c
  BY <1>3 DEF BlockedTypes, Entry
<1>6. PICK new \in {"WAITING", "PREEMPTED"} :
        new = IF req[h].status = REMOTE /\ req[h].preempted THEN "PREEMPTED"
              ELSE "WAITING"
  OBVIOUS
<1>7. req' = [req EXCEPT ![h].status = new, ![h].computed = c2]
  BY <1>2, <1>3, <1>5, <1>6 DEF Promoted, BlockedTypes
<1>8. blocks' = [blocks EXCEPT ![h] = {}] \/ blocks' = blocks
  BY <1>2 DEF Promoted
<1>9. BlockedTypes'
  <2>1. PICK e \in Entry : e = req[h]
    BY <1>3 DEF BlockedTypes
  <2>2. [e EXCEPT !.status = new, !.computed = c2] \in Entry
    BY <1>5, <1>6 DEF Entry, States
  <2>3. req' = [req EXCEPT ![h] = [e EXCEPT !.status = new, !.computed = c2]]
    BY <1>3, <1>7, <2>1 DEF BlockedTypes
  <2>4. req' \in [Requests -> Entry]
    BY <1>3, <2>2, <2>3 DEF BlockedTypes
  <2>5. blocks' \in [Requests -> SUBSET Nat]
        /\ \A r \in Requests : IsFiniteSet(blocks'[r])
    BY <1>3, <1>8, FS_EmptySet DEF BlockedTypes
  <2> QED BY <1>2, <1>3, <2>4, <2>5 DEF BlockedTypes
<1>10. /\ req'[h].status = new /\ req'[h].computed = c2
       /\ req'[h].tokens = t /\ req'[h].ph = req[h].ph
       /\ \A r \in Requests : r # h => req'[r] = req[r] /\ blocks'[r] = blocks[r]
  BY <1>3, <1>5, <1>7, <1>8 DEF BlockedTypes, Entry
<1>11. Pace'
  <2>1. \A r \in batch : r \in Requests /\ r # h
    BY <1>1, <1>3 DEF BlockedTypes
  <2>2. failedNow = {} /\ stage = "waiting"
    BY <1>3 DEF Pace, Promote, Visiting
  <2> QED BY <1>2, <1>3, <1>10, <2>1, <2>2 DEF Pace, Depth
<1>12. Apart'
  BY <1>3, <1>8 DEF Apart, BlockedTypes
<1>13. Streams' = Streams
  BY <1>4, <1>6, <1>10 DEF Streams
<1>14. ASSUME NEW r \in Requests PROVE Sound(r)'
  <2>1. Sound(r)
    BY DEF BInv
  <2>2. CASE r # h
    <3>1. Untouched(r)
      BY <1>2, <1>10, <2>2 DEF Untouched
    <3> QED BY <1>2, <2>1, <3>1, StaysSound
  <2>3. CASE r = h
    <3>1. Standing(r)'
      BY <1>1, <1>2, <1>3, <1>4, <1>6, <1>10, <2>3 DEF Sound, Standing
    <3>2. ~Owed(r)' /\ RowsOf(r)' = RowsOf(r)
      BY <1>1, <1>2, <2>3 DEF Owed, RowsOf, Flying
    <3>3. Flown(r)'
      BY <3>2 DEF Flown
    <3>4. Counted(r)'
      BY <1>4, <1>10, <2>1, <2>3, <3>2 DEF Sound, Counted
    <3>5. Lent(r)'
      BY <1>2, <1>4, <1>6, <1>10, <2>1, <2>3 DEF Sound, Lent
    <3>6. Kv(r)'
      <4>1. Cut({}, c) = c /\ Cut({}, c2) = c2
        BY DEF Cut
      <4>2. Truncated(r) = c
        BY <1>4, <1>5, <2>3, <4>1 DEF Truncated, Cut
      <4>3. Truncated(r)' = c2
        BY <1>2, <1>4, <1>10, <2>3, <4>1 DEF Truncated, Cut
      <4>4. PICK g \in Int : g = good[h]
        BY <1>3 DEF BlockedTypes
      <4>5. PICK p \in Int : p = PromptLen[h] /\ p > 0
        BY BlockedAssumption
      <4>6. c >= 0 /\ t >= p /\ g >= c /\ c <= t
        BY <1>1, <1>4, <1>5, <2>1, <2>3, <4>2, <4>4, <4>5 DEF Sound, Kv
      <4>7. c2 >= 0 /\ g >= c2 /\ c2 <= t
        BY <1>5, <4>5, <4>6
      <4>8. r \notin batch'
        BY <1>1, <1>2, <2>3
      <4> QED BY <1>2, <1>6, <1>10, <2>3, <4>3, <4>4, <4>5, <4>6, <4>7, <4>8
              DEF Kv
    <3> QED BY <3>1, <3>3, <3>4, <3>5, <3>6 DEF Sound
  <2> QED BY <2>2, <2>3
<1> QED BY <1>2, <1>9, <1>11, <1>12, <1>13, <1>14 DEF BInv

LEMMA StartLoadKeeps ==
  ASSUME BInv, SessionsInStep, StartLoad, setting' = setting
  PROVE  BInv'
<1>1. PICK h \in Requests :
        /\ h = HeadRequest /\ ~Gone(req[h].status) /\ req[h].status # "RUNNING"
        /\ h \in ToSet(queue) \union ToSet(skipped)
        /\ h \notin ToSet(passed) \union ToSet(active) \union batch
        /\ ~Owed(h) /\ req[h].ph = 0
  BY HeadFacts DEF StartLoad
<1>2. Sound(h) /\ BlockedTypes /\ Pace /\ Apart
  BY DEF BInv
<1>3. PICK n \in Offers[h] :
        /\ blocks' = [blocks EXCEPT ![h] = Grown(h, BlocksOf(n))]
        /\ load' = [load EXCEPT ![h] = [state |-> "loading", bad |-> {}]]
        /\ good' = [good EXCEPT ![h] = n]
        /\ req' = [req EXCEPT ![h].status = REMOTE, ![h].computed = n]
  BY <1>1 DEF StartLoad
<1>4. PICK grown : /\ grown = Grown(h, BlocksOf(n))
                   /\ blocks' = [blocks EXCEPT ![h] = grown]
  BY <1>3
<1>5. /\ req[h].status \in {"WAITING", "PREEMPTED"}
      /\ passed' = Append(passed, h) /\ stage = "waiting"
      /\ UNCHANGED <<active, stage, batch, rowsLeft, failedNow, flight,
                     sessionsWaiting, finishedRecving>>
  BY <1>1 DEF StartLoad, Visiting, recvVars
<1>6. /\ IsQueue(queue', Requests) /\ IsQueue(skipped', Requests)
      /\ ToSet(queue') = ToSet(queue) \ {h}
      /\ ToSet(skipped') = ToSet(skipped) \ {h}
  BY <1>1, PopFacts DEF StartLoad
<1>7. IsQueue(passed', Requests) /\ ToSet(passed') = ToSet(passed) \union {h}
  BY <1>1, <1>2, <1>5, AppendToQueue DEF BlockedTypes
<1>8. PICK p \in Int : p = PromptLen[h] /\ n \in 1..p
  <2>1. n \in 1..PromptLen[h] /\ PromptLen[h] \in Int
    BY <1>2, SettingFacts DEF BlockedTypes
  <2> QED BY <2>1
<1>9. n \in Int /\ n > 0 /\ n <= p
  BY <1>8
<1>10. /\ grown \in SUBSET Nat /\ IsFiniteSet(grown) /\ grown # {}
      /\ \A q \in Requests : q # h => grown \cap blocks[q] = {}
  <2>1. BlockSize \in Nat \ {0} /\ n \in Nat
    BY <1>9, BlockedAssumption
  <2>2. BlocksOf(n) \in Nat /\ BlocksOf(n) > 0
    BY <1>9, <2>1, BlockBounds
  <2> QED BY <1>2, <1>4, <2>2, GrownFacts
<1>11. BlockedTypes'
  <2>1. PICK e \in Entry : e = req[h]
    BY <1>2 DEF BlockedTypes
  <2>2. [e EXCEPT !.status = REMOTE, !.computed = n] \in Entry
    BY <1>9 DEF Entry, States
  <2>3. req' = [req EXCEPT ![h] = [e EXCEPT !.status = REMOTE, !.computed = n]]
    BY <1>2, <1>3, <2>1 DEF BlockedTypes
  <2>4. req' \in [Requests -> Entry]
    BY <1>2, <2>2, <2>3 DEF BlockedTypes
  <2>5. blocks' \in [Requests -> SUBSET Nat]
        /\ \A r \in Requests : IsFiniteSet(blocks'[r])
    BY <1>2, <1>4, <1>10 DEF BlockedTypes
  <2>6. load' \in [Requests -> Loads]
    BY <1>2, <1>3 DEF BlockedTypes, Loads
  <2>7. good' \in [Requests -> Int]
    BY <1>2, <1>3, <1>9 DEF BlockedTypes
  <2> QED BY <1>2, <1>5, <1>6, <1>7, <2>4, <2>5, <2>6, <2>7 DEF BlockedTypes
<1>12. /\ req'[h].status = REMOTE /\ req'[h].computed = n
       /\ req'[h].tokens = req[h].tokens /\ req'[h].ph = req[h].ph
       /\ blocks'[h] = grown /\ good'[h] = n
       /\ load'[h].state = "loading" /\ load'[h].bad = {}
       /\ \A r \in Requests : r # h => /\ req'[r] = req[r] /\ blocks'[r] = blocks[r]
                                       /\ load'[r] = load[r] /\ good'[r] = good[r]
  BY <1>2, <1>3, <1>4 DEF BlockedTypes, Entry
<1>13. Pace'
  <2>1. \A r \in batch : r \in Requests /\ r # h
    BY <1>1, <1>2 DEF BlockedTypes
  <2>2. failedNow = {}
    BY <1>2, <1>5 DEF Pace
  <2> QED BY <1>2, <1>5, <1>12, <2>1, <2>2 DEF Pace, Depth
<1>14. Apart'
  BY <1>2, <1>10, <1>12 DEF Apart
<1>15. Streams' = Streams
  BY <1>5, <1>12 DEF Streams
<1>16. ASSUME NEW r \in Requests PROVE Sound(r)'
  <2>1. Sound(r)
    BY DEF BInv
  <2>2. CASE r # h
    <3>1. Untouched(r)
      BY <1>5, <1>6, <1>7, <1>12, <2>2 DEF Untouched
    <3> QED BY <1>5, <2>1, <3>1, StaysSound
  <2>3. CASE r = h
    <3>1. Standing(r)'
      BY <1>1, <1>5, <1>6, <1>7, <1>12, <2>3 DEF Standing
    <3>2. ~Owed(r)' /\ RowsOf(r)' = RowsOf(r)
      BY <1>1, <1>5, <2>3 DEF Owed, RowsOf, Flying
    <3>3. Flown(r)'
      BY <3>2 DEF Flown
    <3>4. Counted(r)'
      BY <1>5, <1>12, <2>1, <2>3, <3>2 DEF Sound, Counted
    <3>5. h \notin finishedRecving'
      BY <1>2, <1>5 DEF Sound, Lent
    <3>6. Lent(r)'
      BY <1>10, <1>12, <2>3, <3>5 DEF Lent
    <3>7. Kv(r)'
      <4>1. Truncated(r)' = n
        BY <1>12, <2>3 DEF Truncated
      <4>2. PICK t \in Int : t = req[h].tokens /\ t >= p
        BY <1>2, <1>5, <1>8 DEF BlockedTypes, Entry, Sound, Kv
      <4>3. n >= 0 /\ n >= n /\ n <= t
        BY <1>9, <4>2
      <4>4. r \notin batch'
        BY <1>1, <1>5, <2>3
      <4> QED BY <1>8, <1>12, <2>3, <4>1, <4>2, <4>3, <4>4 DEF Kv
    <3> QED BY <3>1, <3>3, <3>4, <3>6, <3>7 DEF Sound
  <2> QED BY <2>2, <2>3
<1> QED BY <1>5, <1>11, <1>13, <1>14, <1>15, <1>16 DEF BInv

LEMMA AdmitKeeps ==
  ASSUME BInv, SessionsInStep, Admit, setting' = setting
  PROVE  BInv'
<1>1. PICK h \in Requests :
        /\ h = HeadRequest /\ ~Gone(req[h].status) /\ req[h].status # "RUNNING"
        /\ h \in ToSet(queue) \union ToSet(skipped)
        /\ h \notin ToSet(passed) \union ToSet(active) \union batch
        /\ ~Owed(h) /\ req[h].ph = 0
  BY HeadFacts DEF Admit
<1>2. Sound(h) /\ BlockedTypes /\ Pace /\ Apart
  BY DEF BInv
<1>3. PICK t \in Int, c \in Int, g \in Int, p \in Int :
        /\ t = req[h].tokens /\ c = req[h].computed /\ g = good[h]
        /\ p = PromptLen[h] /\ p > 0
  BY <1>2, Numbers
<1>4. PICK grown :
        /\ grown = Grown(h, BlocksOf(t))
        /\ blocks' = [blocks EXCEPT ![h] = grown]
        /\ good' = [good EXCEPT ![h] = IF g >= c THEN t ELSE g]
        /\ req' = [req EXCEPT ![h].status = "RUNNING"]
        /\ active' = Append(active, h)
        /\ batch' = batch \union {h}
  BY <1>1, <1>2, <1>3 DEF Admit, BlockedTypes
<1>5. /\ req[h].status \in {"WAITING", "PREEMPTED"} /\ stage = "waiting"
      /\ UNCHANGED <<stage, passed, rowsLeft, failedNow, flight,
                     sessionsWaiting, finishedRecving, load>>
  BY <1>1 DEF Admit, Visiting, recvVars
<1>6. /\ IsQueue(queue', Requests) /\ IsQueue(skipped', Requests)
      /\ ToSet(queue') = ToSet(queue) \ {h}
      /\ ToSet(skipped') = ToSet(skipped) \ {h}
  BY <1>1, PopFacts DEF Admit
<1>7. IsQueue(active', Requests) /\ ToSet(active') = ToSet(active) \union {h}
  BY <1>1, <1>2, <1>4, AppendToQueue DEF BlockedTypes
<1>8. load[h].state = "none" /\ load[h].bad = {} /\ h \notin finishedRecving
  BY <1>2, <1>5 DEF Sound, Lent, BlockedTypes, Loads
<1>9. t >= p /\ g >= c /\ c <= t
  <2>1. Truncated(h) = c
    BY <1>3, <1>8 DEF Truncated
  <2> QED BY <1>2, <1>3, <1>5, <2>1 DEF Sound, Kv
<1>10. /\ grown \in SUBSET Nat /\ IsFiniteSet(grown)
       /\ \A q \in Requests : q # h => grown \cap blocks[q] = {}
  <2>1. t \in Nat
    BY <1>3, <1>9
  <2>2. BlocksOf(t) \in Nat
    BY <2>1, BlockBounds, BlockedAssumption
  <2> QED BY <1>2, <1>4, <2>2, GrownFacts
<1>11. BlockedTypes'
  <2>1. PICK e \in Entry : e = req[h]
    BY <1>2 DEF BlockedTypes
  <2>2. [e EXCEPT !.status = "RUNNING"] \in Entry
    BY DEF Entry, States
  <2>3. req' = [req EXCEPT ![h] = [e EXCEPT !.status = "RUNNING"]]
    BY <1>2, <1>4, <2>1 DEF BlockedTypes
  <2>4. req' \in [Requests -> Entry]
    BY <1>2, <2>2, <2>3 DEF BlockedTypes
  <2>5. blocks' \in [Requests -> SUBSET Nat]
        /\ \A r \in Requests : IsFiniteSet(blocks'[r])
    BY <1>2, <1>4, <1>10 DEF BlockedTypes
  <2>6. good' \in [Requests -> Int]
    BY <1>2, <1>3, <1>4 DEF BlockedTypes
  <2>7. batch' \subseteq Requests
    BY <1>2, <1>4 DEF BlockedTypes
  <2> QED BY <1>2, <1>5, <1>6, <1>7, <2>4, <2>5, <2>6, <2>7 DEF BlockedTypes
<1>12. /\ req'[h].status = "RUNNING" /\ req'[h].computed = c
       /\ req'[h].tokens = t /\ req'[h].ph = 0
       /\ blocks'[h] = grown /\ good'[h] = t
       /\ \A r \in Requests : r # h => /\ req'[r] = req[r] /\ blocks'[r] = blocks[r]
                                       /\ good'[r] = good[r]
  BY <1>1, <1>2, <1>3, <1>4, <1>9 DEF BlockedTypes, Entry
<1>13. Pace'
  <2>1. \A r \in batch' : r \in Requests /\ (r \in batch \/ r = h)
    BY <1>2, <1>4 DEF BlockedTypes
  <2>2. failedNow = {} /\ \A r \in batch : r \in Requests /\ r # h
    BY <1>1, <1>2, <1>5 DEF Pace, BlockedTypes
  <2> QED BY <1>2, <1>5, <1>12, <2>1, <2>2 DEF Pace, Depth
<1>14. Apart'
  BY <1>2, <1>10, <1>12 DEF Apart
<1>15. Streams' = Streams
  BY <1>5, <1>12 DEF Streams
<1>16. ASSUME NEW r \in Requests PROVE Sound(r)'
  <2>1. Sound(r)
    BY DEF BInv
  <2>2. CASE r # h
    <3>1. Untouched(r)
      BY <1>4, <1>5, <1>6, <1>7, <1>12, <2>2 DEF Untouched
    <3> QED BY <1>5, <2>1, <3>1, StaysSound
  <2>3. CASE r = h
    <3>1. Standing(r)'
      BY <1>1, <1>5, <1>6, <1>7, <1>12, <2>3 DEF Standing
    <3>2. ~Owed(r)' /\ RowsOf(r)' = RowsOf(r)
      BY <1>1, <1>5, <2>3 DEF Owed, RowsOf, Flying
    <3>3. Flown(r)'
      BY <3>2 DEF Flown
    <3>4. Counted(r)'
      BY <1>1, <1>5, <1>12, <2>1, <2>3, <3>2 DEF Sound, Counted
    <3>5. Lent(r)'
      BY <1>5, <1>8, <1>12, <2>3 DEF Lent
    <3>6. Kv(r)'
      <4>1. c >= 0 /\ t = t + 0 /\ c <= t
        BY <1>2, <1>3, <1>5, <1>9 DEF Sound, Kv
      <4>2. r \in batch'
        BY <1>4, <2>3
      <4> QED BY <1>3, <1>9, <1>12, <2>3, <4>1, <4>2 DEF Kv
    <3> QED BY <3>1, <3>3, <3>4, <3>5, <3>6 DEF Sound
  <2> QED BY <2>2, <2>3
<1> QED BY <1>5, <1>11, <1>13, <1>14, <1>15, <1>16 DEF BInv

LEMMA RefuseKeeps ==
  ASSUME BInv, SessionsInStep, Refuse, setting' = setting
  PROVE  BInv'
<1>1. /\ stage = "waiting" /\ stage' = "end"
      /\ UNCHANGED <<req, queue, skipped, active, passed, batch, rowsLeft,
                     failedNow, flight, sessionsWaiting, finishedRecving, blocks,
                     load, good>>
  BY DEF Refuse, Visiting, queueVars, recvVars, kvVars
<1>2. BlockedTypes'
  BY <1>1 DEF BInv, BlockedTypes
<1>3. Pace'
  BY <1>1 DEF BInv, Pace, Depth
<1>4. Apart' /\ Streams' = Streams
  BY <1>1 DEF BInv, Apart, Streams
<1>5. ASSUME NEW r \in Requests PROVE Sound(r)'
  <2>1. Sound(r) /\ ~Behind(r)
    BY <1>1, NoneBehind DEF BInv
  <2>2. Untouched(r)
    BY <1>1 DEF Untouched
  <2> QED BY <1>1, <2>1, <2>2, StaysSound
<1> QED BY <1>1, <1>2, <1>3, <1>4, <1>5 DEF BInv

\* A running request of which no step is planned is up to date.
LEMMA UpToDate ==
  ASSUME BInv, NEW r \in Requests, r \in ToSet(active), batch = {}
  PROVE  /\ req[r].status = "RUNNING"
         /\ good[r] = req[r].computed
         /\ good[r] = req[r].tokens + req[r].ph - 1
         /\ req[r].computed >= 0 /\ req[r].tokens >= PromptLen[r]
         /\ NewTokens(r) \in {0, 1}
<1>1. Sound(r) /\ BlockedTypes
  BY DEF BInv
<1>2. req[r].status = "RUNNING" /\ r \notin batch
  BY <1>1 DEF Sound, Standing
<1>3. PICK c \in Int, t \in Int, h \in Int :
        c = req[r].computed /\ t = req[r].tokens /\ h = req[r].ph
  BY <1>1, Numbers
<1>4. /\ good[r] = req[r].computed /\ good[r] = req[r].tokens + req[r].ph - 1
      /\ req[r].computed >= 0 /\ req[r].tokens >= PromptLen[r]
  BY <1>1, <1>2 DEF Sound, Kv
<1>5. t + h - c = 1
  BY <1>3, <1>4
<1>6. NewTokens(r) \in {0, t + h - c}
  BY <1>3 DEF NewTokens
<1> QED BY <1>2, <1>4, <1>5, <1>6

\* What schedule() does to the requests that run on, in either case.
LEMMA ScheduledSound ==
  ASSUME BInv, SessionsInStep, BeginSchedule, setting' = setting,
         NEW r \in Requests,
         req'[r] = req[r], blocks'[r] = blocks[r],
         r \in batch' <=> r \in ToSet(active) /\ NewTokens(r) > 0,
         good'[r] = (IF r \in batch' /\ good[r] = req[r].computed
                     THEN good[r] + NewTokens(r) ELSE good[r]),
         r \in ToSet(active') <=> r \in ToSet(active),
         r \in ToSet(queue') <=> r \in ToSet(queue)
  PROVE  Sound(r)'
<1>1. Sound(r) /\ BlockedTypes /\ Pace
  BY DEF BInv
<1>2. /\ stage = "idle" /\ Len(flight) < Depth
      /\ UNCHANGED <<skipped, passed, flight, rowsLeft, failedNow,
                     finishedRecving, load>>
  BY DEF BeginSchedule, recvVars
<1>3. batch = {}
  BY <1>1, <1>2 DEF Pace
<1>4. ~Behind(r)
  BY <1>2, NoneBehind
<1>5. Standing(r)'
  BY <1>1, <1>2 DEF Sound, Standing
<1>6. (Owed(r)' <=> Owed(r)) /\ RowsOf(r)' = RowsOf(r)
  BY <1>2 DEF Owed, RowsOf, Flying
<1>7. Flown(r)' /\ Counted(r)'
  BY <1>1, <1>4, <1>6 DEF Sound, Flown, Counted
<1>8. Lent(r)'
  BY <1>1, <1>2 DEF Sound, Lent
<1>9. Kv(r)'
  <2>1. CASE r \in batch'
    <3>1. PICK c \in Int, t \in Int, h \in Int, g \in Int, p \in Int :
            /\ c = req[r].computed /\ t = req[r].tokens /\ h = req[r].ph
            /\ g = good[r] /\ p = PromptLen[r]
      BY <1>1, Numbers
    <3>2. /\ req[r].status = "RUNNING" /\ NewTokens(r) \in {0, 1}
          /\ g = c /\ g = t + h - 1 /\ c >= 0 /\ t >= p
      BY <1>3, <2>1, <3>1, UpToDate
    <3>3. NewTokens(r) = 1
      BY <2>1, <3>2
    <3>4. good'[r] = g + 1
      BY <2>1, <3>1, <3>2, <3>3
    <3>5. g + 1 = t + h /\ c <= g + 1
      BY <3>2
    <3> QED BY <2>1, <3>1, <3>2, <3>4, <3>5 DEF Kv
  <2>2. CASE r \notin batch'
    <3>1. good'[r] = good[r] /\ Truncated(r)' = Truncated(r)
      BY <1>2, <2>2 DEF Truncated
    <3> QED BY <1>1, <1>3, <2>2, <3>1 DEF Sound, Kv
  <2> QED BY <2>1, <2>2
<1> QED BY <1>5, <1>7, <1>8, <1>9 DEF Sound

LEMMA BeginScheduleKeeps ==
  ASSUME BInv, SessionsInStep, BeginSchedule, setting' = setting
  PROVE  BInv'
<1>1. BlockedTypes /\ Pace /\ Apart /\ \A r \in Requests : Sound(r)
  BY DEF BInv
<1>2. /\ stage = "idle" /\ Len(flight) < Depth
      /\ UNCHANGED <<skipped, passed, flight, rowsLeft, failedNow,
                     sessionsWaiting, finishedRecving, load>>
  BY DEF BeginSchedule, recvVars
<1>3. batch = {} /\ failedNow = {} /\ passed = <<>> /\ rowsLeft = {}
  BY <1>1, <1>2 DEF Pace
<1>4. Depth' = Depth
  BY DEF Depth
<1>5. \A r \in ToSet(active) : r \in Requests
  BY <1>1, QueueMembers DEF BlockedTypes
<1>6. CASE /\ stage' = "waiting"
           /\ batch' = {r \in ToSet(active) : NewTokens(r) > 0}
           /\ good' = [r \in Requests |->
                         IF r \in batch' /\ good[r] = req[r].computed
                         THEN good[r] + NewTokens(r) ELSE good[r]]
           /\ UNCHANGED <<req, queue, active, blocks, spent>>
  <2>1. \A r \in Requests : Sound(r)'
    <3> SUFFICES ASSUME NEW r \in Requests PROVE Sound(r)'
      OBVIOUS
    <3>1. /\ req'[r] = req[r] /\ blocks'[r] = blocks[r]
          /\ r \in batch' <=> r \in ToSet(active) /\ NewTokens(r) > 0
          /\ good'[r] = IF r \in batch' /\ good[r] = req[r].computed
                        THEN good[r] + NewTokens(r) ELSE good[r]
          /\ r \in ToSet(active') <=> r \in ToSet(active)
          /\ r \in ToSet(queue') <=> r \in ToSet(queue)
      BY <1>6
    <3> QED BY <3>1, ScheduledSound
  <2>2. batch' \subseteq Requests /\ \A r \in batch' : req[r].status = "RUNNING"
    BY <1>1, <1>5, <1>6 DEF Sound, Standing
  <2>3. good' \in [Requests -> Int]
    <3>1. \A r \in batch' : good[r] + NewTokens(r) \in Int
      <4> SUFFICES ASSUME NEW r \in batch' PROVE good[r] + NewTokens(r) \in Int
        OBVIOUS
      <4>1. r \in Requests /\ NewTokens(r) \in {0, 1}
        BY <1>3, <1>5, <1>6, UpToDate
      <4>2. good[r] \in Int
        BY <1>1, <4>1, Numbers
      <4> QED BY <4>1, <4>2
    <3>2. \A r \in Requests : good[r] \in Int
      BY <1>1 DEF BlockedTypes
    <3> QED BY <1>6, <3>1, <3>2
  <2>4. BlockedTypes'
    BY <1>1, <1>2, <1>6, <2>2, <2>3 DEF BlockedTypes
  <2>5. Pace'
    BY <1>1, <1>2, <1>3, <1>4, <1>6, <2>2 DEF Pace
  <2>6. Apart' /\ Streams' = Streams
    BY <1>1, <1>6 DEF Apart, Streams
  <2> QED BY <1>2, <2>1, <2>4, <2>5, <2>6 DEF BInv
<1>7. CASE /\ active # <<>> /\ stage' = "end"
           /\ LET v == Last(active)
              IN  /\ active' = Front(active)
                  /\ queue' = <<v>> \o queue
                  /\ batch' = {r \in ToSet(Front(active)) : NewTokens(r) > 0}
                  /\ req' = [req EXCEPT ![v].status = "PREEMPTED",
                                        ![v].computed = 0, ![v].preempted = TRUE]
                  /\ blocks' = [blocks EXCEPT ![v] = {}]
                  /\ good' = [r \in Requests |->
                                IF r = v THEN 0
                                ELSE IF r \in batch' /\ good[r] = req[r].computed
                                THEN good[r] + NewTokens(r) ELSE good[r]]
  <2>1. PICK v \in Requests :
          /\ v \in ToSet(active) /\ IsQueue(active', Requests)
          /\ ToSet(active') = ToSet(active) \ {v}
          /\ queue' = <<v>> \o queue
          /\ batch' = {r \in ToSet(active') : NewTokens(r) > 0}
          /\ req' = [req EXCEPT ![v].status = "PREEMPTED",
                                ![v].computed = 0, ![v].preempted = TRUE]
          /\ blocks' = [blocks EXCEPT ![v] = {}]
          /\ good' = [r \in Requests |->
                        IF r = v THEN 0
                        ELSE IF r \in batch' /\ good[r] = req[r].computed
                        THEN good[r] + NewTokens(r) ELSE good[r]]
    <3>1. IsQueue(active, Requests)
      BY <1>1 DEF BlockedTypes
    <3>2. /\ Last(active) \in Requests /\ Last(active) \in ToSet(active)
          /\ IsQueue(Front(active), Requests)
          /\ ToSet(Front(active)) = ToSet(active) \ {Last(active)}
      BY <1>7, <3>1, FrontOfQueue
    <3> QED BY <1>7, <3>2
  <2>2. req[v].status = "RUNNING" /\ load[v].state = "none" /\ load[v].bad = {}
        /\ v \notin finishedRecving
    BY <1>1, <2>1 DEF Sound, Standing, Lent, BlockedTypes, Loads
  <2>3. v \notin ToSet(queue) /\ v \notin ToSet(skipped)
    BY <1>1, <2>2 DEF Sound, Standing
  <2>4. IsQueue(queue', Requests) /\ ToSet(queue') = ToSet(queue) \union {v}
    <3>1. IsQueue(<<v>>, Requests) /\ ToSet(<<v>>) = {v}
      BY SingletonQueue
    <3>2. IsQueue(queue, Requests) /\ ToSet(<<v>>) \cap ToSet(queue) = {}
      BY <1>1, <2>3, <3>1 DEF BlockedTypes
    <3>3. PICK one : one = <<v>>
      OBVIOUS
    <3>4. /\ IsQueue(one \o queue, Requests)
          /\ ToSet(one \o queue) = ToSet(one) \union ToSet(queue)
      BY <3>1, <3>2, <3>3, ConcatQueues
    <3> QED BY <2>1, <3>1, <3>3, <3>4
  <2>5. /\ req'[v].status = "PREEMPTED" /\ req'[v].computed = 0
        /\ req'[v].tokens = req[v].tokens /\ req'[v].ph = req[v].ph
        /\ blocks'[v] = {} /\ good'[v] = 0
        /\ \A r \in Requests : r # v => req'[r] = req[r] /\ blocks'[r] = blocks[r]
    BY <1>1, <2>1 DEF BlockedTypes, Entry
  <2>6. /\ batch' \subseteq Requests /\ v \notin batch'
        /\ \A r \in batch' : req'[r].status = "RUNNING"
    <3>1. batch' \subseteq Requests /\ v \notin batch'
      BY <1>5, <2>1
    <3>2. \A r \in batch' : r # v /\ req[r].status = "RUNNING"
      BY <1>1, <1>5, <2>1, <3>1 DEF Sound, Standing
    <3> QED BY <2>5, <3>1, <3>2
  <2>7. ASSUME NEW r \in Requests, r # v PROVE Sound(r)'
    <3>1. /\ req'[r] = req[r] /\ blocks'[r] = blocks[r]
          /\ r \in batch' <=> r \in ToSet(active) /\ NewTokens(r) > 0
          /\ good'[r] = IF r \in batch' /\ good[r] = req[r].computed
                        THEN good[r] + NewTokens(r) ELSE good[r]
          /\ r \in ToSet(active') <=> r \in ToSet(active)
          /\ r \in ToSet(queue') <=> r \in ToSet(queue)
      BY <2>1, <2>4, <2>5, <2>7
    <3> QED BY <3>1, ScheduledSound
  <2>8. Sound(v)'
    <3>1. Sound(v)
      BY <1>1
    <3>2. ToSet(passed) = {}
      BY <1>3, EmptyQueue
    <3>3. Standing(v)'
      BY <1>2, <2>1, <2>3, <2>4, <2>5, <3>2 DEF Standing
    <3>4. (Owed(v)' <=> Owed(v)) /\ RowsOf(v)' = RowsOf(v)
      BY <1>2 DEF Owed, RowsOf, Flying
    <3>5. Counted(v)'
      BY <2>2, <2>5, <3>1, <3>4 DEF Sound, Counted
    <3>6. ASSUME Owed(v) PROVE Behind(v)'
      <4>1. Len(flight) \in {0, 1, 2} /\ \E k \in 1..Len(flight) : v \in flight[k]
        BY <1>1, <1>3, <3>6, RowFacts DEF Owed
      <4>2. Depth \in {1, 2}
        BY <1>1, SettingFacts DEF BlockedTypes
      <4>3. Depth = 2
        BY <1>2, <4>1, <4>2
      <4> QED BY <1>4, <1>7, <2>4, <2>5, <4>3 DEF Behind
    <3>7. Flown(v)'
      BY <3>4, <3>6 DEF Flown
    <3>8. Lent(v)'
      BY <1>2, <2>2, <2>5 DEF Lent
    <3>9. Truncated(v)' = 0
      BY <1>2, <2>2, <2>5 DEF Truncated
    <3>10. PICK t \in Int, p \in Int :
             t = req[v].tokens /\ p = PromptLen[v] /\ p > 0 /\ t >= p
      <4>1. req[v].tokens >= PromptLen[v]
        BY <1>3, <2>1, UpToDate
      <4> QED BY <1>1, <4>1, Numbers
    <3>11. Kv(v)'
      BY <2>5, <2>6, <3>9, <3>10 DEF Kv
    <3> QED BY <3>3, <3>5, <3>7, <3>8, <3>11 DEF Sound
  <2>9. BlockedTypes'
    <3>1. PICK e \in Entry : e = req[v]
      BY <1>1 DEF BlockedTypes
    <3>2. [e EXCEPT !.status = "PREEMPTED", !.computed = 0, !.preempted = TRUE]
            \in Entry
      <4>1. [e EXCEPT !.status = "PREEMPTED"] \in Entry
        BY DEF Entry, States
      <4>2. PICK x \in Entry : x = [e EXCEPT !.status = "PREEMPTED"]
        BY <4>1
      <4>3. [x EXCEPT !.computed = 0] \in Entry
        BY SMTT(30) DEF Entry
      <4>4. PICK y \in Entry : y = [x EXCEPT !.computed = 0]
        BY <4>3
      <4>5. [y EXCEPT !.preempted = TRUE] \in Entry
        BY DEF Entry
      <4> QED BY <4>2, <4>4, <4>5, Zenon
    <3>3. req' = [req EXCEPT ![v] = [e EXCEPT !.status = "PREEMPTED",
                                     !.computed = 0, !.preempted = TRUE]]
      BY <1>1, <2>1, <3>1 DEF BlockedTypes
    <3>4. req' \in [Requests -> Entry]
      BY <1>1, <3>2, <3>3 DEF BlockedTypes
    <3>5. good' \in [Requests -> Int]
      <4>1. \A r \in batch' : good[r] + NewTokens(r) \in Int
        <5> SUFFICES ASSUME NEW r \in batch' PROVE good[r] + NewTokens(r) \in Int
          OBVIOUS
        <5>1. r \in Requests /\ NewTokens(r) \in {0, 1}
          BY <1>3, <1>5, <2>1, UpToDate
        <5>2. good[r] \in Int
          BY <1>1, <5>1, Numbers
        <5> QED BY <5>1, <5>2
      <4>2. \A r \in Requests : good[r] \in Int
        BY <1>1 DEF BlockedTypes
      <4> QED BY <2>1, <4>1, <4>2
    <3>6. blocks' \in [Requests -> SUBSET Nat]
          /\ \A r \in Requests : IsFiniteSet(blocks'[r])
      BY <1>1, <2>1, FS_EmptySet DEF BlockedTypes
    <3> QED BY <1>1, <1>2, <1>7, <2>1, <2>4, <2>6, <3>4, <3>5, <3>6
            DEF BlockedTypes
  <2>10. Pace'
    BY <1>1, <1>2, <1>3, <1>4, <1>7, <2>6 DEF Pace
  <2>11. Apart'
    BY <1>1, <2>5 DEF Apart
  <2>12. Streams' = Streams
    BY <2>2, <2>5 DEF Streams
  <2> QED BY <1>2, <2>7, <2>8, <2>9, <2>10, <2>11, <2>12 DEF BInv
<1> QED BY <1>6, <1>7 DEF BeginSchedule

\* What a step planned or not planned adds to the rows of r.
LEMMA RowsPlanned ==
  ASSUME BlockedTypes, Pace, SessionsInStep, NEW r \in Requests,
         stage # "idle", rowsLeft = {},
         flight' = Append(flight, batch), rowsLeft' = rowsLeft
  PROVE  /\ Len(flight) \in {0, 1} /\ Len(flight') = Len(flight) + 1
         /\ Len(flight) < Depth
         /\ RowsOf(r)' = RowsOf(r) + (IF r \in batch THEN 1 ELSE 0)
         /\ r \notin batch => (Owed(r)' <=> Owed(r))
         /\ Len(flight) = 1 => flight'[2] = batch
         /\ flight' \in Seq(SUBSET Requests)
<1>1. flight \in Seq(SUBSET Requests) /\ batch \in SUBSET Requests
  BY DEF BlockedTypes
<1>2. Len(flight) \in {0, 1} /\ Len(flight) < Depth
  <2>1. Len(flight) \in {0, 1, 2}
    BY RowFacts
  <2>2. Depth \in {1, 2}
    BY SettingFacts DEF BlockedTypes
  <2>3. Len(flight) < Depth
    BY DEF Pace
  <2> QED BY <2>1, <2>2, <2>3
<1>3. /\ flight' \in Seq(SUBSET Requests) /\ Len(flight') = Len(flight) + 1
      /\ \A k \in 1..Len(flight) : flight'[k] = flight[k]
      /\ flight'[Len(flight) + 1] = batch
  BY <1>1, AppendProperties
<1>4. CASE Len(flight) = 0
  <2>1. Len(flight') = 1 /\ flight'[1] = batch
    BY <1>3, <1>4
  <2>2. /\ Flying(1, r)' = (IF r \in batch THEN 1 ELSE 0)
        /\ Flying(2, r)' = 0 /\ Flying(1, r) = 0 /\ Flying(2, r) = 0
    BY <1>4, <2>1 DEF Flying
  <2>3. RowsOf(r)' = RowsOf(r) + (IF r \in batch THEN 1 ELSE 0)
    BY <2>2 DEF RowsOf
  <2>4. ~Owed(r)' \/ r \in batch
    <3>1. \A k \in 1..Len(flight') : k = 1
      BY <2>1
    <3> QED BY <2>1, <3>1 DEF Owed
  <2>5. ~Owed(r)
    <3>1. 1..Len(flight) = {}
      BY <1>4
    <3> QED BY <3>1 DEF Owed
  <2> QED BY <1>2, <1>3, <1>4, <2>3, <2>4, <2>5
<1>5. CASE Len(flight) = 1
  <2>1. Len(flight') = 2 /\ flight'[1] = flight[1] /\ flight'[2] = batch
    BY <1>3, <1>5
  <2>2. /\ Flying(1, r)' = Flying(1, r) /\ Flying(2, r) = 0
        /\ Flying(2, r)' = (IF r \in batch THEN 1 ELSE 0)
        /\ Flying(1, r) \in {0, 1}
    BY <1>5, <2>1 DEF Flying
  <2>3. RowsOf(r)' = RowsOf(r) + (IF r \in batch THEN 1 ELSE 0)
    BY <2>2 DEF RowsOf
  <2>4. ASSUME r \notin batch PROVE Owed(r)' <=> Owed(r)
    <3>1. \A k \in 1..Len(flight') : k = 1 \/ k = 2
      BY <2>1
    <3>2. 1 \in 1..Len(flight') /\ 1 \in 1..Len(flight)
      BY <1>5, <2>1
    <3>3. \A k \in 1..Len(flight) : k = 1
      BY <1>5
    <3> QED BY <2>1, <2>4, <3>1, <3>2, <3>3 DEF Owed
  <2> QED BY <1>2, <1>3, <1>5, <2>1, <2>3, <2>4
<1> QED BY <1>2, <1>4, <1>5

LEMMA EndScheduleKeeps ==
  ASSUME BInv, SessionsInStep, EndSchedule, setting' = setting
  PROVE  BInv'
<1>1. BlockedTypes /\ Pace /\ Apart /\ \A r \in Requests : Sound(r)
  BY DEF BInv
<1>2. /\ stage \in {"waiting", "end"} /\ stage' = "idle"
      /\ skipped' = passed \o skipped /\ passed' = <<>> /\ batch' = {}
      /\ flight' = Append(flight, batch)
      /\ req' = [r \in Requests |->
                   IF r \notin batch THEN req[r]
                   ELSE [req[r] EXCEPT !.computed = req[r].tokens + req[r].ph,
                                       !.ph = @ + 1]]
      /\ UNCHANGED <<queue, active, rowsLeft, failedNow, sessionsWaiting,
                     finishedRecving, blocks, load, good>>
  BY DEF EndSchedule, recvVars, kvVars
<1>3. rowsLeft = {} /\ failedNow = {}
  BY <1>1, <1>2 DEF Pace
<1>4. IsQueue(skipped', Requests) /\ ToSet(skipped') = ToSet(passed) \union ToSet(skipped)
      /\ IsQueue(passed', Requests) /\ ToSet(passed') = {}
  <2>1. IsQueue(skipped, Requests) /\ IsQueue(passed, Requests)
    BY <1>1 DEF BlockedTypes
  <2>2. ToSet(passed) \cap ToSet(skipped) = {}
    <3>1. ToSet(passed) \subseteq Requests
      BY <2>1, QueueMembers
    <3> QED BY <1>1, <3>1 DEF Sound, Standing
  <2>3. IsQueue(passed \o skipped, Requests)
        /\ ToSet(passed \o skipped) = ToSet(passed) \union ToSet(skipped)
    BY <2>1, <2>2, ConcatQueues
  <2> QED BY <1>2, <2>3, EmptyQueue
<1>5. ASSUME NEW r \in Requests
      PROVE  /\ req'[r].status = req[r].status /\ req'[r].tokens = req[r].tokens
             /\ r \notin batch => req'[r] = req[r]
             /\ r \in batch => /\ req'[r].computed = req[r].tokens + req[r].ph
                               /\ req'[r].ph = req[r].ph + 1
  BY <1>1, <1>2 DEF BlockedTypes, Entry
<1>6. ASSUME NEW r \in Requests
      PROVE  /\ Len(flight) \in {0, 1} /\ Len(flight') = Len(flight) + 1
             /\ Len(flight) < Depth
             /\ RowsOf(r)' = RowsOf(r) + (IF r \in batch THEN 1 ELSE 0)
             /\ r \notin batch => (Owed(r)' <=> Owed(r))
             /\ Len(flight) = 1 => flight'[2] = batch
  BY <1>1, <1>2, <1>3, RowsPlanned
<1>7. BlockedTypes'
  <2>1. \A r \in batch : r \in Requests
    BY <1>1 DEF BlockedTypes
  <2>2. \A r \in Requests : [req[r] EXCEPT !.computed = req[r].tokens + req[r].ph,
                                           !.ph = @ + 1] \in Entry
    <3> SUFFICES ASSUME NEW r \in Requests
                 PROVE  [req[r] EXCEPT !.computed = req[r].tokens + req[r].ph,
                                       !.ph = @ + 1] \in Entry
      OBVIOUS
    <3>1. PICK e \in Entry, c \in Int, h \in Int :
            e = req[r] /\ c = req[r].tokens + req[r].ph /\ h = e.ph + 1
      <4>1. req[r] \in Entry /\ req[r].tokens \in Int /\ req[r].ph \in Int
        BY <1>1, Numbers
      <4> QED BY <4>1
    <3>2. [e EXCEPT !.computed = c, !.ph = h] \in Entry
      BY DEF Entry
    <3> QED BY <3>1, <3>2
  <2>3. req' \in [Requests -> Entry]
    BY <1>1, <1>2, <2>2 DEF BlockedTypes
  <2>4. flight' \in Seq(SUBSET Requests)
    BY <1>1, <1>2, AppendProperties DEF BlockedTypes
  <2> QED BY <1>1, <1>2, <1>4, <2>3, <2>4 DEF BlockedTypes
<1>8. Len(flight') <= Depth
  <2>1. flight \in Seq(SUBSET Requests) /\ Len(flight) < Depth /\ Len(flight) \in Nat
    BY <1>1, <1>2, LenProperties DEF BlockedTypes, Pace
  <2>2. Len(flight') = Len(flight) + 1
    <3>1. batch \in SUBSET Requests
      BY <1>1 DEF BlockedTypes
    <3>2. Len(Append(flight, batch)) = Len(flight) + 1
      BY <2>1, <3>1, AppendProperties
    <3> QED BY <1>2, <3>2
  <2>3. Depth \in {1, 2}
    BY <1>1, SettingFacts DEF BlockedTypes
  <2> QED BY <2>1, <2>2, <2>3
<1>9. Pace'
  BY <1>1, <1>2, <1>3, <1>8 DEF Pace, Depth
<1>10. Apart' /\ Streams' = Streams
  BY <1>1, <1>2, <1>5 DEF Apart, Streams
<1>11. ASSUME NEW r \in Requests PROVE Sound(r)'
  <2>1. Sound(r)
    BY <1>1
  <2>2. r \in batch => req[r].status = "RUNNING"
    BY <1>1 DEF Pace
  <2>3. Standing(r)'
    BY <1>2, <1>4, <1>5, <2>1 DEF Sound, Standing
  <2>4. Flown(r)'
    <3>1. CASE r \in batch
      BY <1>5, <2>2, <3>1 DEF Flown
    <3>2. CASE r \notin batch
      <4> SUFFICES ASSUME Owed(r)', Behind(r) PROVE Behind(r)'
        BY <1>5, <1>6, <2>1, <3>2 DEF Sound, Flown
      <4>1. Owed(r)
        BY <1>6, <3>2
      <4>2. Len(flight) # 0
        BY <1>3, <4>1 DEF Owed
      <4>3. Len(flight') = 2 /\ flight'[2] = batch
        <5>1. PICK n \in {0, 1} : n = Len(flight) /\ Len(flight') = n + 1
                                  /\ (n = 1 => flight'[2] = batch)
          BY <1>6
        <5> QED BY SMTT(30), <4>2, <5>1
      <4> QED BY <1>2, <1>5, <3>2, <4>3 DEF Behind, Depth
    <3> QED BY <3>1, <3>2
  <2>5. Counted(r)'
    <3>1. CASE r \in batch
      BY <1>5, <1>6, <2>1, <3>1 DEF Sound, Counted
    <3>2. CASE r \notin batch
      <4>1. RowsOf(r) \in Int
        BY <1>1, RowFacts
      <4>2. RowsOf(r)' = RowsOf(r)
        BY <1>6, <3>2, <4>1
      <4> QED BY <1>5, <2>1, <3>2, <4>2 DEF Sound, Counted
    <3> QED BY <3>1, <3>2
  <2>6. Lent(r)'
    BY <1>2, <1>5, <2>1 DEF Sound, Lent
  <2>7. Kv(r)'
    <3>1. CASE r \in batch
      <4>1. PICK t \in Int, h \in Int, g \in Int, p \in Int, c \in Int :
              /\ t = req[r].tokens /\ h = req[r].ph /\ g = good[r]
              /\ p = PromptLen[r] /\ c = req[r].computed
        BY <1>1, Numbers
      <4>2. g = t + h /\ c >= 0 /\ c <= g /\ t >= p
        BY <2>1, <2>2, <3>1, <4>1 DEF Sound, Kv
      <4>3. req'[r].computed = t + h /\ req'[r].ph = h + 1 /\ req'[r].tokens = t
            /\ req'[r].status = "RUNNING"
        BY <1>5, <2>2, <3>1, <4>1
      <4>4. g = t + (h + 1) - 1 /\ t + h >= 0
        BY <4>2
      <4> QED BY <1>2, <4>1, <4>2, <4>3, <4>4 DEF Kv
    <3>2. CASE r \notin batch
      <4>1. req'[r] = req[r] /\ load'[r] = load[r] /\ good'[r] = good[r] /\ r \notin batch'
        BY <1>2, <1>5, <3>2
      <4>2. Truncated(r)' = Truncated(r)
        BY <4>1 DEF Truncated
      <4> QED BY <2>1, <3>2, <4>1, <4>2 DEF Sound, Kv
    <3> QED BY <3>1, <3>2
  <2> QED BY <2>3, <2>4, <2>5, <2>6, <2>7 DEF Sound
<1> QED BY <1>2, <1>7, <1>9, <1>10, <1>11 DEF BInv

-----------------------------------------------------------------------------
(* add_request() and finish_requests()                                     *)

LEMMA AddRequestKeeps ==
  ASSUME BInv, SessionsInStep, NEW h \in Requests, AddRequest(h), setting' = setting
  PROVE  BInv'
<1>1. BlockedTypes /\ Pace /\ Apart /\ Sound(h) /\ \A r \in Requests : Sound(r)
  BY DEF BInv
<1>2. PICK first \in {GRAMMAR, "WAITING"} :
        /\ req' = [req EXCEPT ![h].status = first]
        /\ Enqueue(h, first)
  BY DEF AddRequest
<1>3. /\ req[h].status = "NEW" /\ stage = "idle"
      /\ UNCHANGED <<active, stage, passed, batch, rowsLeft, failedNow, flight,
                     sessionsWaiting, finishedRecving, blocks, load, good>>
  BY DEF AddRequest, stepVars, recvVars, kvVars
<1>4. h \notin ToSet(queue) /\ h \notin ToSet(skipped) /\ h \notin ToSet(active)
      /\ h \notin ToSet(passed)
  BY <1>1, <1>3 DEF Sound, Standing
<1>5. /\ IsQueue(queue', Requests) /\ IsQueue(skipped', Requests)
      /\ \A r \in Requests : r # h => /\ r \in ToSet(queue') <=> r \in ToSet(queue)
                                      /\ r \in ToSet(skipped') <=> r \in ToSet(skipped)
      /\ first = GRAMMAR => h \in ToSet(skipped') /\ h \notin ToSet(queue')
      /\ first = "WAITING" => h \in ToSet(queue') /\ h \notin ToSet(skipped')
  <2>1. /\ IsQueue(queue, Requests) /\ IsQueue(skipped, Requests)
    BY <1>1 DEF BlockedTypes
  <2>2. CASE first = GRAMMAR
    <3>1. skipped' = Append(skipped, h) /\ queue' = queue
      BY <1>2, <2>2 DEF Enqueue
    <3>2. IsQueue(skipped', Requests) /\ ToSet(skipped') = ToSet(skipped) \union {h}
      BY <1>4, <2>1, <3>1, AppendToQueue
    <3> QED BY <1>4, <2>1, <2>2, <3>1, <3>2
  <2>3. CASE first = "WAITING"
    <3>1. queue' = Append(queue, h) /\ skipped' = skipped
      BY <1>2, <2>3 DEF Enqueue
    <3>2. IsQueue(queue', Requests) /\ ToSet(queue') = ToSet(queue) \union {h}
      BY <1>4, <2>1, <3>1, AppendToQueue
    <3> QED BY <1>4, <2>1, <2>3, <3>1, <3>2
  <2> QED BY <2>2, <2>3
<1>6. /\ req'[h].status = first /\ req'[h].computed = req[h].computed
      /\ req'[h].tokens = req[h].tokens /\ req'[h].ph = req[h].ph
      /\ \A r \in Requests : r # h => req'[r] = req[r]
  BY <1>1, <1>2 DEF BlockedTypes, Entry
<1>7. BlockedTypes'
  <2>1. PICK e \in Entry : e = req[h]
    BY <1>1 DEF BlockedTypes
  <2>2. [e EXCEPT !.status = first] \in Entry
    BY DEF Entry, States
  <2>3. req' = [req EXCEPT ![h] = [e EXCEPT !.status = first]]
    BY <1>1, <1>2, <2>1 DEF BlockedTypes
  <2>4. req' \in [Requests -> Entry]
    BY <1>1, <2>2, <2>3 DEF BlockedTypes
  <2> QED BY <1>1, <1>3, <1>5, <2>4 DEF BlockedTypes
<1>8. Pace'
  BY <1>1, <1>3 DEF Pace, Depth
<1>9. Apart' /\ Streams' = Streams
  BY <1>1, <1>3, <1>6 DEF Apart, Streams
<1>10. ASSUME NEW r \in Requests PROVE Sound(r)'
  <2>1. CASE r # h
    <3>1. Untouched(r)
      BY <1>3, <1>5, <1>6, <2>1 DEF Untouched
    <3> QED BY <1>1, <1>3, <3>1, StaysSound
  <2>2. CASE r = h
    <3>1. Standing(h)'
      BY <1>3, <1>4, <1>5, <1>6 DEF Standing
    <3>2. ~Owed(h)
      BY <1>1, <1>3 DEF Sound, Flown, Behind
    <3>3. (Owed(h)' <=> Owed(h)) /\ RowsOf(h)' = RowsOf(h)
      BY <1>3 DEF Owed, RowsOf, Flying
    <3>4. Flown(h)' /\ Counted(h)'
      BY <1>1, <1>3, <1>6, <3>2, <3>3 DEF Sound, Flown, Counted
    <3>5. Lent(h)'
      BY <1>1, <1>3, <1>6 DEF Sound, Lent
    <3>6. Truncated(h)' = Truncated(h)
      BY <1>3, <1>6 DEF Truncated
    <3>7. h \notin batch'
      BY <1>1, <1>3 DEF Pace
    <3>8. Kv(h)'
      BY <1>1, <1>3, <1>6, <3>6, <3>7 DEF Sound, Kv
    <3> QED BY <2>2, <3>1, <3>4, <3>5, <3>8 DEF Sound
  <2> QED BY <2>1, <2>2
<1> QED BY <1>3, <1>7, <1>8, <1>9, <1>10 DEF BInv

\* What becomes of a request that is freed now or later.
LEMMA FreedSound ==
  ASSUME BInv, NEW S \in SUBSET Requests, Freed(S), NEW r \in S,
         ~Gone(req[r].status),
         r \notin ToSet(queue'), r \notin ToSet(skipped'), r \notin ToSet(active'),
         r \notin ToSet(passed'), r \notin finishedRecving', r \notin batch',
         load' = load
  PROVE  Sound(r)' /\ req'[r].status \in {"FINISHED", "FREED"}
<1>1. Sound(r) /\ BlockedTypes
  BY DEF BInv
<1>2. PICK late : late = {q \in S : \/ req[q].status = REMOTE /\ q \notin finishedRecving
                                    \/ req[q].status # REMOTE /\ q \in Senders}
  OBVIOUS
<1>3. /\ blocks'[r] = IF r \in late THEN blocks[r] ELSE {}
      /\ req'[r].status = IF r \in late THEN "FINISHED" ELSE "FREED"
  <2>1. /\ blocks' = [q \in Requests |-> IF q \in S \ late THEN {} ELSE blocks[q]]
        /\ req' = [q \in Requests |->
                     IF q \in S THEN [req[q] EXCEPT !.status =
                                        IF q \in late THEN "FINISHED" ELSE "FREED"]
                     ELSE req[q]]
    BY <1>2 DEF Freed
  <2> QED BY <1>1, <2>1 DEF BlockedTypes, Entry
<1>4. Standing(r)' /\ Flown(r)' /\ Counted(r)' /\ Kv(r)'
  BY <1>3 DEF Standing, Flown, Counted, Kv
<1>5. Lent(r)'
  <2>1. load[r].state # "none" => r \in late
    BY <1>1, <1>2 DEF Sound, Lent
  <2> QED BY <1>1, <1>3, <2>1 DEF Sound, Lent
<1> QED BY <1>3, <1>4, <1>5 DEF Sound

LEMMA FreedTypes ==
  ASSUME BlockedTypes, Apart, NEW S \in SUBSET Requests, Freed(S)
  PROVE  /\ req' \in [Requests -> Entry]
         /\ blocks' \in [Requests -> SUBSET Nat]
         /\ \A r \in Requests : IsFiniteSet(blocks'[r])
         /\ Apart'
         /\ \A r \in Requests : r \notin S => /\ req'[r] = req[r]
                                              /\ blocks'[r] = blocks[r]
<1>1. PICK late : late = {q \in S : \/ req[q].status = REMOTE /\ q \notin finishedRecving
                                    \/ req[q].status # REMOTE /\ q \in Senders}
  OBVIOUS
<1>2. /\ blocks' = [q \in Requests |-> IF q \in S \ late THEN {} ELSE blocks[q]]
      /\ req' = [q \in Requests |->
                   IF q \in S THEN [req[q] EXCEPT !.status =
                                      IF q \in late THEN "FINISHED" ELSE "FREED"]
                   ELSE req[q]]
  BY <1>1 DEF Freed
<1>3. \A e \in Entry : /\ [e EXCEPT !.status = "FINISHED"] \in Entry
                       /\ [e EXCEPT !.status = "FREED"] \in Entry
  BY DEF Entry, States
<1>4. \A q \in Requests : [req[q] EXCEPT !.status =
                             IF q \in late THEN "FINISHED" ELSE "FREED"] \in Entry
  BY <1>3 DEF BlockedTypes
<1>5. req' \in [Requests -> Entry]
  BY <1>2, <1>4 DEF BlockedTypes
<1>6. /\ blocks' \in [Requests -> SUBSET Nat]
      /\ \A r \in Requests : IsFiniteSet(blocks'[r])
  BY <1>2, FS_EmptySet DEF BlockedTypes
<1>7. Apart'
  BY <1>2 DEF Apart
<1>8. \A r \in Requests : r \notin S => req'[r] = req[r] /\ blocks'[r] = blocks[r]
  BY <1>2
<1> QED BY <1>5, <1>6, <1>7, <1>8

LEMMA FinishKeeps ==
  ASSUME BInv, SessionsInStep, setting' = setting,
         NEW S \in SUBSET Requests, FinishRequests(S),
         \A r \in S : ~Gone(req[r].status),
         stage \in {"idle", "update"}, failedNow' = {},
         UNCHANGED <<stage, passed, batch, rowsLeft, flight, load, good>>
  PROVE  BInv'
<1>1. BlockedTypes /\ Pace /\ Apart /\ \A r \in Requests : Sound(r)
  BY DEF BInv
<1>2. batch = {} /\ passed = <<>> /\ ToSet(passed) = {}
  BY <1>1, EmptyQueue DEF Pace
<1>3. /\ Freed(S) /\ finishedRecving' = finishedRecving \ S
      /\ sessionsWaiting' = sessionsWaiting
                            - Cardinality({r \in S : req[r].status = STREAMING})
  BY DEF FinishRequests
<1>4. /\ IsQueue(queue', Requests) /\ ToSet(queue') = ToSet(queue) \ S
      /\ IsQueue(skipped', Requests) /\ ToSet(skipped') = ToSet(skipped) \ S
      /\ IsQueue(active', Requests) /\ ToSet(active') = ToSet(active) \ S
  <2>1. IsQueue(queue, Requests) /\ IsQueue(skipped, Requests)
        /\ IsQueue(active, Requests)
    BY <1>1 DEF BlockedTypes
  <2> QED BY <2>1, WithoutQueue DEF FinishRequests
<1>5. ASSUME NEW r \in S PROVE Sound(r)' /\ req'[r].status \in {"FINISHED", "FREED"}
  BY <1>2, <1>3, <1>4, FreedSound
<1>6. /\ req' \in [Requests -> Entry] /\ blocks' \in [Requests -> SUBSET Nat]
      /\ \A r \in Requests : IsFiniteSet(blocks'[r])
      /\ Apart'
      /\ \A r \in Requests : r \notin S => /\ req'[r] = req[r]
                                           /\ blocks'[r] = blocks[r]
  BY <1>1, <1>3, FreedTypes
<1>7. ASSUME NEW r \in Requests, r \notin S PROVE Sound(r)'
  <2>1. Untouched(r)
    BY <1>3, <1>4, <1>6, <1>7 DEF Untouched
  <2> QED BY <1>1, <2>1, StaysSound
<1>8. BlockedTypes'
  BY <1>1, <1>3, <1>4, <1>6 DEF BlockedTypes
<1>9. Pace'
  BY <1>1, <1>2 DEF Pace, Depth
<1>10. sessionsWaiting' = Cardinality(Streams')
  <2>1. PICK gone : gone = {r \in S : req[r].status = STREAMING}
    OBVIOUS
  <2>2. gone \subseteq Streams /\ Streams' = Streams \ gone
    BY <1>5, <1>6, <2>1 DEF Streams
  <2>3. IsFiniteSet(Streams)
    BY BlockedAssumption, FS_Subset DEF Streams
  <2>4. Streams \cap gone = gone
    BY <2>2
  <2>5. Cardinality(Streams \ gone) = Cardinality(Streams) - Cardinality(gone)
    BY <2>3, <2>4, FS_Difference
  <2> QED BY <1>3, <2>1, <2>2, <2>5 DEF BInv
<1> QED BY <1>5, <1>6, <1>7, <1>8, <1>9, <1>10 DEF BInv

LEMMA AbortKeeps ==
  ASSUME BInv, SessionsInStep, NEW h \in Requests, Abort(h), setting' = setting
  PROVE  BInv'
<1>1. /\ FinishRequests({h}) /\ ~Gone(req[h].status) /\ stage = "idle"
      /\ UNCHANGED <<stage, passed, batch, rowsLeft, flight, load, good>>
      /\ failedNow' = failedNow
  BY DEF Abort, stepVars
<1>2. failedNow' = {}
  BY <1>1 DEF BInv, Pace
<1> QED BY <1>1, <1>2, FinishKeeps

LEMMA FailLoadsKeeps ==
  ASSUME BInv, SessionsInStep, FailLoads, setting' = setting
  PROVE  BInv'
<1>1. /\ FinishRequests(failedNow) /\ stage = "update" /\ failedNow' = {}
      /\ UNCHANGED <<stage, passed, batch, rowsLeft, flight, load, good>>
  BY DEF FailLoads
<1>2. failedNow \in SUBSET Requests /\ \A r \in failedNow : ~Gone(req[r].status)
  BY DEF BInv, BlockedTypes, Pace
<1> QED BY <1>1, <1>2, FinishKeeps

LEMMA MoreInputKeeps ==
  ASSUME BInv, SessionsInStep, NEW h \in Requests, NEW kind \in {"input", "end"},
         MoreInput(h, kind), setting' = setting
  PROVE  BInv'
<1>1. BlockedTypes /\ Pace /\ Apart /\ \A r \in Requests : Sound(r)
  BY DEF BInv
<1>2. /\ stage = "idle" /\ h \in Resumable /\ req[h].status \notin {"NEW", "FREED"}
      /\ UNCHANGED <<stage, passed, batch, rowsLeft, failedNow, flight, load, good>>
  BY DEF MoreInput, stepVars
<1>3. PICK e \in Entry : e = req[h]
  BY <1>1 DEF BlockedTypes
<1>4. failedNow' = {} /\ batch = {}
  BY <1>1, <1>2 DEF Pace
<1>5. CASE /\ req[h].status # STREAMING
           /\ req' = [req EXCEPT ![h].inputs = Append(@, kind)]
           /\ UNCHANGED <<queueVars, sessionsWaiting, recvVars, blocks>>
  <2>1. PICK more \in Seq({"input", "end"}) : more = Append(e.inputs, kind)
    <3>1. e.inputs \in Seq({"input", "end"})
      BY DEF Entry
    <3> QED BY <3>1, AppendProperties
  <2>2. req' = [req EXCEPT ![h] = [e EXCEPT !.inputs = more]]
    BY <1>1, <1>3, <1>5, <2>1 DEF BlockedTypes
  <2>3. [e EXCEPT !.inputs = more] \in Entry
    BY DEF Entry
  <2>4. req' \in [Requests -> Entry]
    BY <1>1, <2>2, <2>3 DEF BlockedTypes
  <2>5. /\ req'[h].status = req[h].status /\ req'[h].computed = req[h].computed
        /\ req'[h].tokens = req[h].tokens /\ req'[h].ph = req[h].ph
        /\ \A r \in Requests : r # h => req'[r] = req[r]
    BY <1>1, <1>3, <2>2 DEF BlockedTypes, Entry
  <2>6. UNCHANGED <<queue, skipped, active, sessionsWaiting, finishedRecving, blocks>>
    BY <1>5 DEF queueVars, recvVars
  <2>7. BlockedTypes'
    BY <1>1, <1>2, <2>4, <2>6 DEF BlockedTypes
  <2>8. Pace'
    BY <1>1, <1>2, <1>4 DEF Pace, Depth
  <2>9. Apart' /\ Streams' = Streams
    BY <1>1, <2>5, <2>6 DEF Apart, Streams
  <2>10. ASSUME NEW r \in Requests PROVE Sound(r)'
    <3>1. Untouched(r)
      BY <1>2, <2>5, <2>6 DEF Untouched
    <3> QED BY <1>1, <1>2, <3>1, StaysSound
  <2> QED BY <2>6, <2>7, <2>8, <2>9, <2>10 DEF BInv
<1>6. CASE /\ req[h].status = STREAMING
           /\ req' = [req EXCEPT ![h] = NextInput(@, h)]
           /\ sessionsWaiting' = sessionsWaiting - 1
           /\ UNCHANGED <<queueVars, recvVars, blocks>>
  <2>1. PICK c \in Int, p \in Int, t \in Int :
          /\ c = e.computed /\ p = PromptLen[h] /\ t = c + p
    BY <1>1, Numbers DEF Entry
  <2>2. req' = [req EXCEPT ![h] = [e EXCEPT !.tokens = t, !.prompt = t,
                                            !.status = "WAITING"]]
    BY <1>1, <1>3, <1>6, <2>1 DEF BlockedTypes, NextInput
  <2>3. [e EXCEPT !.tokens = t, !.prompt = t, !.status = "WAITING"] \in Entry
    BY DEF Entry, States
  <2>4. req' \in [Requests -> Entry]
    BY <1>1, <2>2, <2>3 DEF BlockedTypes
  <2>5. /\ req'[h].status = "WAITING" /\ req'[h].computed = c
        /\ req'[h].tokens = t /\ req'[h].ph = req[h].ph
        /\ \A r \in Requests : r # h => req'[r] = req[r]
    BY <1>1, <1>3, <2>1, <2>2 DEF BlockedTypes, Entry
  <2>6. UNCHANGED <<queue, skipped, active, finishedRecving, blocks>>
    BY <1>6 DEF queueVars, recvVars
  <2>7. BlockedTypes'
    BY <1>1, <1>2, <2>4, <2>6 DEF BlockedTypes
  <2>8. Pace'
    BY <1>1, <1>2, <1>4 DEF Pace, Depth
  <2>9. Apart'
    BY <1>1, <2>6 DEF Apart
  <2>10. sessionsWaiting' = Cardinality(Streams')
    <3>1. h \in Streams /\ Streams' = Streams \ {h}
      BY <1>6, <2>5 DEF Streams
    <3>2. IsFiniteSet(Streams)
      BY BlockedAssumption, FS_Subset DEF Streams
    <3>3. Cardinality(Streams \ {h}) = Cardinality(Streams) - 1
      BY <3>1, <3>2, FS_RemoveElement
    <3> QED BY <1>6, <3>1, <3>3 DEF BInv
  <2>11. ASSUME NEW r \in Requests PROVE Sound(r)'
    <3>1. CASE r # h
      <4>1. Untouched(r)
        BY <1>2, <2>5, <2>6, <3>1 DEF Untouched
      <4> QED BY <1>1, <1>2, <4>1, StaysSound
    <3>2. CASE r = h
      <4>1. Standing(h)'
        BY <1>1, <1>2, <1>6, <2>5, <2>6 DEF Sound, Standing
      <4>2. ~Owed(h)
        BY <1>1, <1>6 DEF Sound, Flown, Behind
      <4>3. (Owed(h)' <=> Owed(h)) /\ RowsOf(h)' = RowsOf(h)
        BY <1>2 DEF Owed, RowsOf, Flying
      <4>4. Flown(h)' /\ Counted(h)'
        BY <1>1, <1>6, <2>5, <4>2, <4>3 DEF Sound, Flown, Counted
      <4>5. Lent(h)'
        BY <1>1, <1>2, <1>6, <2>5, <2>6 DEF Sound, Lent
      <4>6. Truncated(h)' = Truncated(h)
        BY <1>2, <1>3, <2>1, <2>5 DEF Truncated
      <4>7. /\ c >= 0 /\ c <= req[h].tokens /\ p > 0 /\ good[h] >= Truncated(h)
        BY <1>1, <1>3, <1>6, <2>1, Numbers DEF Sound, Kv
      <4>8. t >= p /\ c <= t
        BY <2>1, <4>7
      <4>9. h \notin batch' /\ good'[h] = good[h]
        BY <1>2, <1>4
      <4>10. Kv(h)'
        BY <2>1, <2>5, <4>6, <4>7, <4>8, <4>9 DEF Kv
      <4> QED BY <3>2, <4>1, <4>4, <4>5, <4>10 DEF Sound
    <3> QED BY <3>1, <3>2
  <2> QED BY <2>7, <2>8, <2>9, <2>10, <2>11 DEF BInv
<1>7. CASE req[h].status = STREAMING /\ FinishRequests({h})
  <2>1. \A r \in {h} : ~Gone(req[r].status)
    BY <1>7
  <2> QED BY <1>2, <1>4, <1>7, <2>1, FinishKeeps
<1> QED BY <1>5, <1>6, <1>7 DEF MoreInput

-----------------------------------------------------------------------------
(* update_from_output()                                                    *)

\* The oldest step in flight becomes the rows to visit.
LEMMA OldestIsVisited ==
  ASSUME BlockedTypes, Pace, SessionsInStep, NEW r \in Requests,
         stage = "idle", flight # <<>>,
         flight' = Tail(flight), rowsLeft' = Head(flight)
  PROVE  /\ RowsOf(r)' = RowsOf(r) /\ (Owed(r)' <=> Owed(r))
         /\ rowsLeft' \in SUBSET Requests /\ flight' \in Seq(SUBSET Requests)
         /\ Len(flight') < Depth
         /\ (Len(flight) = 2 /\ r \notin flight[2]
               => \A k \in 1..Len(flight') : r \notin flight'[k])
<1>1. flight \in Seq(SUBSET Requests) /\ rowsLeft = {}
  BY DEF BlockedTypes, Pace
<1>2. PICK n \in {1, 2} : n = Len(flight)
  <2>1. Len(flight) \in {0, 1, 2}
    BY RowFacts
  <2>2. Len(flight) # 0
    BY <1>1, EmptySeq
  <2> QED BY <2>1, <2>2
<1>3. /\ flight' \in Seq(SUBSET Requests) /\ Len(flight') = n - 1
      /\ \A k \in 1..(n - 1) : flight'[k] = flight[k + 1]
      /\ rowsLeft' = flight[1] /\ flight[1] \in SUBSET Requests
  BY <1>1, <1>2, HeadTailProperties
<1>4. Len(flight') < Depth
  <2>1. Depth \in {1, 2} /\ n <= Depth
    BY <1>2, SettingFacts DEF Pace, BlockedTypes
  <2> QED BY <1>2, <1>3, <2>1
<1>5. CASE n = 1
  <2>1. Len(flight') = 0 /\ 1..Len(flight') = {}
    BY <1>3, <1>5
  <2>2. /\ Flying(1, r)' = 0 /\ Flying(2, r)' = 0 /\ Flying(2, r) = 0
        /\ Flying(1, r) = (IF r \in flight[1] THEN 1 ELSE 0)
    BY <1>2, <1>5, <2>1 DEF Flying
  <2>3. RowsOf(r)' = RowsOf(r)
    BY <1>1, <1>3, <2>2 DEF RowsOf
  <2>4. \A k \in 1..Len(flight) : k = 1
    BY <1>2, <1>5
  <2>5. 1 \in 1..Len(flight)
    BY <1>2, <1>5
  <2>6. Owed(r)' <=> Owed(r)
    BY <1>1, <1>3, <2>1, <2>4, <2>5 DEF Owed
  <2> QED BY <1>2, <1>3, <1>4, <1>5, <2>1, <2>3, <2>6
<1>6. CASE n = 2
  <2>1. Len(flight') = 1 /\ flight'[1] = flight[2]
    BY <1>3, <1>6
  <2>2. /\ Flying(1, r)' = Flying(2, r) /\ Flying(2, r)' = 0
        /\ Flying(1, r) = (IF r \in flight[1] THEN 1 ELSE 0)
        /\ Flying(2, r) \in {0, 1}
    BY <1>2, <1>6, <2>1 DEF Flying
  <2>3. RowsOf(r)' = RowsOf(r)
    BY <1>1, <1>3, <2>2 DEF RowsOf
  <2>4. \A k \in 1..Len(flight) : k = 1 \/ k = 2
    BY <1>2, <1>6
  <2>5. 1 \in 1..Len(flight) /\ 2 \in 1..Len(flight) /\ 1 \in 1..Len(flight')
    BY <1>2, <1>6, <2>1
  <2>6. \A k \in 1..Len(flight') : k = 1
    <3>1. PICK m : m = Len(flight')
      OBVIOUS
    <3>2. m = 1
      BY <2>1, <3>1
    <3>3. \A k \in 1..m : k = 1
      BY <3>2
    <3> QED BY <3>1, <3>3
  <2>7. Owed(r)' <=> Owed(r)
    BY <1>1, <1>3, <2>1, <2>4, <2>5, <2>6 DEF Owed
  <2> QED BY <1>2, <1>3, <1>4, <1>6, <2>1, <2>3, <2>6, <2>7
<1> QED BY <1>5, <1>6

LEMMA BeginUpdateKeeps ==
  ASSUME BInv, SessionsInStep, BeginUpdate, setting' = setting
  PROVE  BInv'
<1>1. BlockedTypes /\ Pace /\ Apart /\ \A r \in Requests : Sound(r)
  BY DEF BInv
<1>2. PICK hit \in SUBSET Requests :
        /\ hit = {r \in ToSet(skipped) : /\ req[r].status = REMOTE
                                         /\ Truncated(r) # req[r].computed}
        /\ failedNow' = IF Recompute THEN {} ELSE hit
        /\ req' = [r \in Requests |->
                     IF r \in hit THEN [req[r] EXCEPT !.computed = Truncated(r)]
                     ELSE req[r]]
  <2>1. ToSet(skipped) \subseteq Requests
    BY <1>1, QueueMembers DEF BlockedTypes
  <2> QED BY <2>1 DEF BeginUpdate
<1>3. /\ stage = "idle" /\ flight # <<>> /\ stage' = "update"
      /\ rowsLeft' = Head(flight) /\ flight' = Tail(flight)
      /\ load' = [r \in Requests |->
                    [load[r] EXCEPT !.bad = {},
                                    !.state = IF @ = "ended" THEN "reported" ELSE @]]
      /\ UNCHANGED <<queue, skipped, active, passed, batch, sessionsWaiting,
                     finishedRecving, blocks, good>>
  BY DEF BeginUpdate, queueVars
<1>4. batch = {} /\ passed = <<>> /\ ToSet(passed) = {}
  BY <1>1, <1>3, EmptyQueue DEF Pace
<1>5. ASSUME NEW r \in Requests
      PROVE  /\ load'[r] \in Loads /\ load'[r].bad = {}
             /\ load'[r].state = IF load[r].state = "ended" THEN "reported"
                                 ELSE load[r].state
  <2>1. PICK l \in Loads : l = load[r]
    BY <1>1 DEF BlockedTypes
  <2>2. load'[r] = [l EXCEPT !.bad = {}, !.state = IF @ = "ended" THEN "reported"
                                                   ELSE @]
    BY <1>3, <2>1
  <2> QED BY <2>1, <2>2 DEF Loads
<1>6. ASSUME NEW r \in Requests, req[r].status = REMOTE
      PROVE  /\ Truncated(r) \in Int /\ 0 <= Truncated(r)
             /\ Truncated(r) <= req[r].computed
  <2>1. PICK c \in Int : c = req[r].computed /\ c >= 0
    BY <1>1, <1>6, Numbers DEF Sound, Kv
  <2>2. c \in Nat /\ load[r].bad \in SUBSET (Nat \ {0})
    BY <1>1, <2>1, Numbers DEF Loads
  <2>3. /\ Cut(load[r].bad, c) \in Int /\ 0 <= Cut(load[r].bad, c)
        /\ Cut(load[r].bad, c) <= c
    BY <2>2, CutFacts, BlockedAssumption
  <2> QED BY <2>1, <2>3, CutOf
<1>7. ASSUME NEW r \in Requests
      PROVE  /\ req'[r].status = req[r].status /\ req'[r].tokens = req[r].tokens
             /\ req'[r].ph = req[r].ph /\ req'[r] \in Entry
             /\ r \in hit => req'[r].computed = Truncated(r)
             /\ r \notin hit => req'[r] = req[r]
  <2>1. PICK e \in Entry : e = req[r]
    BY <1>1 DEF BlockedTypes
  <2>2. CASE r \in hit
    <3>1. PICK c \in Int : c = Truncated(r)
      BY <1>2, <1>6, <2>2
    <3>2. req'[r] = [e EXCEPT !.computed = c]
      BY <1>2, <2>1, <2>2, <3>1
    <3> QED BY <2>1, <2>2, <3>1, <3>2 DEF Entry
  <2>3. CASE r \notin hit
    BY <1>2, <2>1, <2>3
  <2> QED BY <2>2, <2>3
<1>8. ASSUME NEW r \in Requests
      PROVE  /\ RowsOf(r)' = RowsOf(r) /\ (Owed(r)' <=> Owed(r))
             /\ (Len(flight) = 2 /\ r \notin flight[2]
                   => \A k \in 1..Len(flight') : r \notin flight'[k])
  BY <1>1, <1>3, OldestIsVisited
<1>9. /\ rowsLeft' \in SUBSET Requests /\ flight' \in Seq(SUBSET Requests)
      /\ Len(flight') < Depth
  <2>1. flight \in Seq(SUBSET Requests)
    BY <1>1 DEF BlockedTypes
  <2>2. rowsLeft' \in SUBSET Requests /\ flight' \in Seq(SUBSET Requests)
        /\ Len(flight') = Len(flight) - 1 /\ Len(flight) \in Nat
    BY <1>3, <2>1, HeadTailProperties, LenProperties
  <2>3. Len(flight) <= Depth /\ Depth \in {1, 2}
    BY <1>1, SettingFacts DEF Pace, BlockedTypes
  <2> QED BY <2>2, <2>3
<1>10. BlockedTypes'
  <2>1. req' \in [Requests -> Entry] /\ load' \in [Requests -> Loads]
    BY <1>2, <1>3, <1>5, <1>7
  <2>2. failedNow' \subseteq Requests
    BY <1>2
  <2> QED BY <1>1, <1>3, <1>9, <2>1, <2>2 DEF BlockedTypes
<1>11. Pace'
  <2>1. \A r \in failedNow' : r \in Requests /\ req'[r].status = REMOTE
    BY <1>2, <1>7
  <2>2. Len(flight') <= Depth
    BY <1>1, <1>9, SettingFacts, LenProperties DEF BlockedTypes
  <2> QED BY <1>3, <1>4, <1>9, <2>1, <2>2 DEF Pace, Depth
<1>12. Apart' /\ Streams' = Streams
  BY <1>1, <1>3, <1>7 DEF Apart, Streams
<1>13. ASSUME NEW r \in Requests PROVE Sound(r)'
  <2>1. Sound(r)
    BY <1>1
  <2>2. Standing(r)'
    BY <1>3, <1>7, <2>1 DEF Sound, Standing
  <2>3. Flown(r)'
    <3> SUFFICES ASSUME Behind(r) PROVE Behind(r)'
      BY <1>7, <1>8, <2>1 DEF Sound, Flown
    <3>1. Len(flight) = 2 /\ r \notin flight[2]
      BY <1>3 DEF Behind
    <3> QED BY <1>3, <1>7, <1>8, <3>1 DEF Behind, Depth
  <2>4. Counted(r)'
    BY <1>7, <1>8, <2>1 DEF Sound, Counted
  <2>5. Lent(r)'
    BY <1>3, <1>5, <1>7, <2>1 DEF Sound, Lent
  <2>6. Kv(r)'
    <3>1. PICK c \in Int, t \in Int, g \in Int, p \in Int :
            /\ c = req[r].computed /\ t = req[r].tokens /\ g = good[r]
            /\ p = PromptLen[r]
      BY <1>1, Numbers
    <3>2. req'[r].computed \in Int /\ Truncated(r)' = req'[r].computed
      <4>1. req'[r].computed \in Int
        BY <1>7 DEF Entry
      <4>2. Truncated(r)' = req'[r].computed
        BY <1>5 DEF Truncated
      <4> QED BY <4>1, <4>2
    <3>3. r \notin batch /\ batch' = {}
      BY <1>3, <1>4
    <3>4. CASE r \in hit
      <4>1. PICK k \in Int : /\ k = Truncated(r) /\ 0 <= k /\ k <= c
                             /\ req[r].status = REMOTE
        BY <1>2, <1>6, <3>1, <3>4
      <4>2. g >= k /\ c <= t /\ t >= p
        BY <2>1, <3>1, <4>1 DEF Sound, Kv
      <4>3. req'[r].computed = k /\ k <= t /\ k >= 0
        BY <1>7, <3>4, <4>1, <4>2
      <4> QED BY <1>3, <1>7, <3>1, <3>2, <3>3, <4>1, <4>2, <4>3 DEF Kv
    <3>5. CASE r \notin hit
      <4>1. req'[r] = req[r] /\ good'[r] = good[r]
        BY <1>3, <1>7, <3>5
      <4>2. ASSUME req[r].status \notin {"RUNNING", "FINISHED", "FREED"}
            PROVE  Truncated(r) = c
        <5>1. CASE req[r].status = REMOTE
          <6>1. r \in ToSet(skipped)
            BY <1>4, <2>1, <5>1 DEF Sound, Standing
          <6> QED BY <1>2, <3>1, <3>5, <5>1, <6>1
        <5>2. CASE req[r].status # REMOTE
          <6>1. load[r].bad = {}
            BY <1>1, <2>1, <4>2, <5>2 DEF Sound, Lent
          <6> QED BY <3>1, <6>1 DEF Truncated
        <5> QED BY <5>1, <5>2
      <4> QED BY <2>1, <3>1, <3>2, <3>3, <4>1, <4>2 DEF Sound, Kv
    <3> QED BY <3>4, <3>5
  <2> QED BY <2>2, <2>3, <2>4, <2>5, <2>6 DEF Sound
<1> QED BY <1>3, <1>10, <1>11, <1>12, <1>13 DEF BInv

\* What a visit of its row says of a request.
LEMMA RowVisited ==
  ASSUME BInv, SessionsInStep, NEW h \in Requests, h \in rowsLeft,
         stage = "update", rowsLeft' = rowsLeft \ {h}, flight' = flight
  PROVE  /\ Owed(h) /\ (Owed(h)' => Owed(h)) /\ RowsOf(h)' = RowsOf(h) - 1
         /\ req[h].status \in {"RUNNING", "FINISHED", "FREED"} \/ Behind(h)
         /\ batch = {} /\ passed = <<>> /\ ToSet(passed) = {}
         /\ Depth = 1 => ~Owed(h)' /\ RowsOf(h) = 1
<1>1. BlockedTypes /\ Pace /\ Sound(h)
  BY DEF BInv
<1>2. Owed(h) /\ (Owed(h)' => Owed(h))
  BY DEF Owed
<1>3. PICK a, b \in {0, 1} : a = Flying(1, h) /\ b = Flying(2, h)
  BY DEF Flying
<1>4. RowsOf(h) = 1 + a + b /\ RowsOf(h)' = 0 + a + b
  <2>1. Flying(1, h)' = a /\ Flying(2, h)' = b
    BY <1>3 DEF Flying
  <2> QED BY <1>3, <2>1 DEF RowsOf
<1>5. RowsOf(h)' = RowsOf(h) - 1
  BY <1>3, <1>4
<1>6. req[h].status \in {"RUNNING", "FINISHED", "FREED"} \/ Behind(h)
  BY <1>1, <1>2 DEF Sound, Flown
<1>7. batch = {} /\ passed = <<>> /\ ToSet(passed) = {}
  BY <1>1, EmptyQueue DEF Pace
<1>8. ASSUME Depth = 1 PROVE ~Owed(h)' /\ RowsOf(h) = 1
  <2>1. Len(flight) \in {0, 1, 2} /\ Len(flight) < 1
    BY <1>1, <1>8, RowFacts DEF Pace
  <2>2. Len(flight) = 0 /\ 1..Len(flight) = {}
    BY <2>1
  <2>3. ~Owed(h)'
    BY <2>2 DEF Owed
  <2>4. a = 0 /\ b = 0
    BY <1>3, <2>2 DEF Flying
  <2> QED BY <1>4, <2>3, <2>4
<1> QED BY <1>2, <1>5, <1>6, <1>7, <1>8

LEMMA SkipRowKeeps ==
  ASSUME BInv, SessionsInStep, NEW h \in Requests, SkipRow(h), setting' = setting
  PROVE  BInv'
<1>1. BlockedTypes /\ Pace /\ Apart /\ \A r \in Requests : Sound(r)
  BY DEF BInv
<1>2. /\ stage = "update" /\ h \in rowsLeft /\ rowsLeft' = rowsLeft \ {h}
      /\ h \in failedNow \/ Gone(req[h].status)
      /\ UNCHANGED <<req, queue, skipped, active, stage, passed, batch, failedNow,
                     flight, sessionsWaiting, finishedRecving, blocks, load, good>>
  BY DEF SkipRow, queueVars, recvVars, kvVars
<1>3. req[h].status \in {"FINISHED", "FREED"}
  <2>1. req[h].status \in {"RUNNING", "FINISHED", "FREED"} \/ Behind(h)
    BY <1>2, RowVisited
  <2>2. h \in failedNow => req[h].status = REMOTE
    BY <1>1 DEF Pace
  <2> QED BY <1>2, <2>1, <2>2 DEF Behind
<1>4. BlockedTypes'
  BY <1>1, <1>2 DEF BlockedTypes
<1>5. Pace'
  BY <1>1, <1>2 DEF Pace, Depth
<1>6. Apart' /\ Streams' = Streams
  BY <1>1, <1>2 DEF Apart, Streams
<1>7. ASSUME NEW r \in Requests PROVE Sound(r)'
  <2>1. CASE r # h
    <3>1. Untouched(r)
      BY <1>2, <2>1 DEF Untouched
    <3> QED BY <1>1, <1>2, <3>1, StaysSound
  <2>2. CASE r = h
    <3>1. Sound(r)
      BY <1>1
    <3>2. Standing(r)' /\ Flown(r)' /\ Counted(r)'
      BY <1>2, <1>3, <2>2, <3>1 DEF Sound, Standing, Flown, Counted
    <3>3. Lent(r)'
      BY <1>2, <3>1 DEF Sound, Lent
    <3>4. Kv(r)'
      BY <1>1, <1>2, <1>3, <2>2 DEF Kv, Pace
    <3> QED BY <3>2, <3>3, <3>4 DEF Sound
  <2> QED BY <2>1, <2>2
<1> QED BY <1>2, <1>4, <1>5, <1>6, <1>7 DEF BInv

\* A request that is visited runs, or was preempted in the step behind.
LEMMA VisitedRequest ==
  ASSUME BInv, SessionsInStep, NEW h \in Requests, Row(h), setting' = setting
  PROVE  /\ stage = "update" /\ h \in rowsLeft /\ rowsLeft' = rowsLeft \ {h}
         /\ UNCHANGED <<stage, passed, batch, failedNow, flight,
                        finishedRecving, load, good>>
         /\ req[h].status = "RUNNING" \/ Behind(h)
         /\ req[h].status \in {"RUNNING", "PREEMPTED"}
         /\ load[h].state = "none" /\ load[h].bad = {} /\ h \notin finishedRecving
         /\ req[h].ph = RowsOf(h) /\ RowsOf(h)' = RowsOf(h) - 1
         /\ batch = {} /\ ToSet(passed) = {}
         /\ Resumable # {} => /\ req[h].status = "RUNNING" /\ req[h].ph = 1
                              /\ ~Owed(h)' /\ RowsOf(h)' = 0
<1>1. BlockedTypes /\ Pace /\ Sound(h)
  BY DEF BInv
<1>2. /\ stage = "update" /\ h \in rowsLeft /\ rowsLeft' = rowsLeft \ {h}
      /\ h \notin failedNow /\ ~Gone(req[h].status)
      /\ UNCHANGED <<stage, passed, batch, failedNow, flight, finishedRecving,
                     load, good>>
  BY DEF Row, recvVars
<1>3. /\ req[h].status \in {"RUNNING", "FINISHED", "FREED"} \/ Behind(h)
      /\ RowsOf(h)' = RowsOf(h) - 1 /\ batch = {} /\ ToSet(passed) = {}
      /\ Depth = 1 => ~Owed(h)' /\ RowsOf(h) = 1
  BY <1>2, RowVisited
<1>4. req[h].status = "RUNNING" \/ Behind(h)
  BY <1>2, <1>3
<1>5. req[h].status \in {"RUNNING", "PREEMPTED"}
  BY <1>4 DEF Behind
<1>6. load[h].state = "none" /\ load[h].bad = {} /\ h \notin finishedRecving
  BY <1>1, <1>5 DEF Sound, Lent, BlockedTypes, Loads
<1>7. req[h].ph = RowsOf(h)
  BY <1>1, <1>5 DEF Sound, Counted
<1>8. ASSUME Resumable # {}
      PROVE  /\ req[h].status = "RUNNING" /\ req[h].ph = 1
             /\ ~Owed(h)' /\ RowsOf(h)' = 0
  <2>1. Depth = 1
    BY <1>1, <1>8, SettingFacts DEF BlockedTypes
  <2> QED BY <1>3, <1>4, <1>7, <2>1 DEF Behind
<1> QED BY <1>2, <1>3, <1>4, <1>5, <1>6, <1>7, <1>8

LEMMA GoOnKeeps ==
  ASSUME BInv, SessionsInStep, NEW h \in Requests, GoOn(h), setting' = setting
  PROVE  BInv'
<1>1. BlockedTypes /\ Pace /\ Apart /\ \A r \in Requests : Sound(r)
  BY DEF BInv
<1>2. /\ stage = "update" /\ h \in rowsLeft /\ rowsLeft' = rowsLeft \ {h}
      /\ UNCHANGED <<stage, passed, batch, failedNow, flight,
                     finishedRecving, load, good>>
      /\ req[h].status = "RUNNING" \/ Behind(h)
      /\ req[h].status \in {"RUNNING", "PREEMPTED"}
      /\ load[h].state = "none" /\ load[h].bad = {} /\ h \notin finishedRecving
      /\ req[h].ph = RowsOf(h) /\ RowsOf(h)' = RowsOf(h) - 1
      /\ batch = {} /\ ToSet(passed) = {}
  BY VisitedRequest DEF GoOn
<1>3. UNCHANGED <<queue, skipped, active, sessionsWaiting, blocks>>
  BY DEF GoOn, queueVars
<1>4. PICK e \in Entry, t \in Int, k \in Int, c \in Int, g \in Int, p \in Int :
        /\ e = req[h] /\ t = e.tokens /\ k = e.ph /\ c = e.computed
        /\ g = good[h] /\ p = PromptLen[h]
  BY <1>1, Numbers DEF Entry
<1>5. req' = [req EXCEPT ![h] = [e EXCEPT !.tokens = t + 1, !.ph = k - 1]]
  BY <1>4 DEF GoOn, Grew
<1>6. [e EXCEPT !.tokens = t + 1, !.ph = k - 1] \in Entry
  <2>1. PICK t2 \in Int, k2 \in Int : t2 = t + 1 /\ k2 = k - 1
    OBVIOUS
  <2>2. [e EXCEPT !.tokens = t2, !.ph = k2] \in Entry
    BY DEF Entry
  <2> QED BY <2>1, <2>2
<1>7. req' \in [Requests -> Entry]
  BY <1>1, <1>5, <1>6 DEF BlockedTypes
<1>8. /\ req'[h].status = req[h].status /\ req'[h].computed = c
      /\ req'[h].tokens = t + 1 /\ req'[h].ph = k - 1
      /\ \A r \in Requests : r # h => req'[r] = req[r]
  BY <1>1, <1>4, <1>5 DEF BlockedTypes, Entry
<1>9. BlockedTypes'
  BY <1>1, <1>2, <1>3, <1>7 DEF BlockedTypes
<1>10. Pace'
  <2>1. \A r \in failedNow : r # h /\ r \in Requests
    BY <1>1, <1>2 DEF Pace, BlockedTypes
  <2> QED BY <1>1, <1>2, <1>8, <2>1 DEF Pace, Depth
<1>11. Apart' /\ Streams' = Streams
  BY <1>1, <1>3, <1>8 DEF Apart, Streams
<1>12. ASSUME NEW r \in Requests PROVE Sound(r)'
  <2>1. CASE r # h
    <3>1. Untouched(r)
      BY <1>2, <1>3, <1>8, <2>1 DEF Untouched
    <3> QED BY <1>1, <1>2, <3>1, StaysSound
  <2>2. CASE r = h
    <3>1. Sound(h)
      BY <1>1
    <3>2. Standing(h)'
      BY <1>2, <1>3, <1>8, <3>1 DEF Sound, Standing
    <3>3. Flown(h)'
      BY <1>2, <1>3, <1>8 DEF Flown, Behind, Depth
    <3>4. Counted(h)'
      BY <1>2, <1>4, <1>8 DEF Counted
    <3>5. Lent(h)'
      BY <1>2, <1>3, <1>8, <3>1 DEF Sound, Lent
    <3>6. Truncated(h)' = c /\ Truncated(h) = c
      BY <1>2, <1>4, <1>8 DEF Truncated
    <3>7. Kv(h)'
      <4>1. /\ c >= 0 /\ t >= p
            /\ req[h].status = "RUNNING" => g = c /\ g = t + k - 1
            /\ req[h].status = "PREEMPTED" => g >= c /\ c <= t
        BY <1>2, <1>4, <3>1, <3>6 DEF Sound, Kv
      <4>2. /\ t + 1 >= p
            /\ req[h].status = "RUNNING" => g = (t + 1) + (k - 1) - 1
            /\ req[h].status = "PREEMPTED" => c <= t + 1
        BY <4>1
      <4> QED BY <1>2, <1>4, <1>8, <3>6, <4>1, <4>2 DEF Kv
    <3> QED BY <2>2, <3>2, <3>3, <3>4, <3>5, <3>7 DEF Sound
  <2> QED BY <2>1, <2>2
<1> QED BY <1>3, <1>9, <1>10, <1>11, <1>12 DEF BInv

LEMMA StopForGoodKeeps ==
  ASSUME BInv, SessionsInStep, NEW h \in Requests, StopForGood(h), setting' = setting
  PROVE  BInv'
<1>1. BlockedTypes /\ Pace /\ Apart /\ \A r \in Requests : Sound(r)
  BY DEF BInv
<1>2. /\ stage = "update" /\ h \in rowsLeft /\ rowsLeft' = rowsLeft \ {h}
      /\ UNCHANGED <<stage, passed, batch, failedNow, flight,
                     finishedRecving, load, good>>
      /\ req[h].status = "RUNNING" \/ Behind(h)
      /\ req[h].status \in {"RUNNING", "PREEMPTED"}
      /\ h \notin finishedRecving /\ batch = {} /\ ToSet(passed) = {}
  BY VisitedRequest DEF StopForGood
<1>3. /\ Freed({h}) /\ sessionsWaiting' = sessionsWaiting
      /\ active' = Without(active, {h}) /\ skipped' = skipped
      /\ queue' = IF req[h].status = "RUNNING" THEN queue ELSE Without(queue, {h})
  BY DEF StopForGood, Removed
<1>4. /\ IsQueue(active', Requests) /\ ToSet(active') = ToSet(active) \ {h}
      /\ IsQueue(skipped', Requests) /\ h \notin ToSet(skipped')
      /\ IsQueue(queue', Requests) /\ ToSet(queue') = ToSet(queue) \ {h}
  <2>1. IsQueue(queue, Requests) /\ IsQueue(skipped, Requests)
        /\ IsQueue(active, Requests)
    BY <1>1 DEF BlockedTypes
  <2>2. IsQueue(active', Requests) /\ ToSet(active') = ToSet(active) \ {h}
    BY <1>3, <2>1, WithoutQueue
  <2>3. CASE req[h].status = "RUNNING"
    <3>1. h \notin ToSet(queue) /\ h \notin ToSet(skipped)
      BY <1>1, <2>3 DEF Sound, Standing
    <3> QED BY <1>3, <2>1, <2>2, <2>3, <3>1
  <2>4. CASE req[h].status # "RUNNING"
    <3>1. h \in ToSet(queue)
      BY <1>2, <2>4 DEF Behind
    <3>2. h \notin ToSet(skipped)
      BY <1>1, <3>1 DEF Sound, Standing
    <3>3. IsQueue(queue', Requests) /\ ToSet(queue') = ToSet(queue) \ {h}
      BY <1>3, <2>1, <2>4, WithoutQueue
    <3> QED BY <1>3, <2>1, <2>2, <3>2, <3>3
  <2> QED BY <2>3, <2>4
<1>5. Sound(h)' /\ req'[h].status \in {"FINISHED", "FREED"}
  <2>1. {h} \in SUBSET Requests /\ h \in {h} /\ ~Gone(req[h].status)
    BY <1>2
  <2>2. /\ h \notin ToSet(queue') /\ h \notin ToSet(skipped')
        /\ h \notin ToSet(active') /\ h \notin ToSet(passed')
        /\ h \notin finishedRecving' /\ h \notin batch' /\ load' = load
    BY <1>2, <1>4
  <2> QED BY <1>3, <2>1, <2>2, FreedSound
<1>6. /\ req' \in [Requests -> Entry] /\ blocks' \in [Requests -> SUBSET Nat]
      /\ \A r \in Requests : IsFiniteSet(blocks'[r])
      /\ Apart'
      /\ \A r \in Requests : r # h => req'[r] = req[r] /\ blocks'[r] = blocks[r]
  <2>1. {h} \in SUBSET Requests
    OBVIOUS
  <2>2. /\ req' \in [Requests -> Entry] /\ blocks' \in [Requests -> SUBSET Nat]
        /\ \A r \in Requests : IsFiniteSet(blocks'[r])
        /\ Apart'
        /\ \A r \in Requests : r \notin {h} => /\ req'[r] = req[r]
                                               /\ blocks'[r] = blocks[r]
    BY <1>1, <1>3, <2>1, FreedTypes
  <2> QED BY <2>2
<1>7. BlockedTypes'
  BY <1>1, <1>2, <1>4, <1>6 DEF BlockedTypes
<1>8. Pace'
  <2>1. \A r \in failedNow : r # h /\ r \in Requests
    BY <1>1, <1>2 DEF Pace, BlockedTypes
  <2> QED BY <1>1, <1>2, <1>6, <2>1 DEF Pace, Depth
<1>9. Streams' = Streams
  BY <1>2, <1>5, <1>6 DEF Streams
<1>10. ASSUME NEW r \in Requests, r # h PROVE Sound(r)'
  <2>1. Untouched(r)
    BY <1>2, <1>3, <1>4, <1>6, <1>10 DEF Untouched
  <2> QED BY <1>1, <1>2, <2>1, StaysSound
<1> QED BY <1>3, <1>5, <1>6, <1>7, <1>8, <1>9, <1>10 DEF BInv

\* A session that stops is out of the running ones.
LEMMA SessionRemoved ==
  ASSUME BInv, NEW h \in Requests, req[h].status = "RUNNING",
         active' = Without(active, {h})
  PROVE  /\ IsQueue(active', Requests) /\ ToSet(active') = ToSet(active) \ {h}
         /\ h \notin ToSet(queue) /\ h \notin ToSet(skipped)
<1>1. Sound(h) /\ IsQueue(active, Requests)
  BY DEF BInv, BlockedTypes
<1> QED BY <1>1, WithoutQueue DEF Sound, Standing

LEMMA StopAndWaitKeeps ==
  ASSUME BInv, SessionsInStep, NEW h \in Requests, StopAndWait(h), setting' = setting
  PROVE  BInv'
<1>1. BlockedTypes /\ Pace /\ Apart /\ \A r \in Requests : Sound(r)
  BY DEF BInv
<1>2. Resumable # {}
  BY DEF StopAndWait
<1>3. /\ stage = "update" /\ h \in rowsLeft /\ rowsLeft' = rowsLeft \ {h}
      /\ UNCHANGED <<stage, passed, batch, failedNow, flight,
                     finishedRecving, load, good>>
      /\ load[h].state = "none" /\ load[h].bad = {} /\ h \notin finishedRecving
      /\ batch = {} /\ ToSet(passed) = {}
      /\ req[h].status = "RUNNING" /\ req[h].ph = 1 /\ ~Owed(h)' /\ RowsOf(h)' = 0
  BY <1>2, VisitedRequest DEF StopAndWait
<1>4. /\ sessionsWaiting' = sessionsWaiting + 1
      /\ active' = Without(active, {h}) /\ queue' = queue
      /\ skipped' = Append(skipped, h) /\ blocks' = blocks
  BY <1>3 DEF StopAndWait, Removed
<1>5. /\ IsQueue(active', Requests) /\ ToSet(active') = ToSet(active) \ {h}
      /\ h \notin ToSet(queue) /\ h \notin ToSet(skipped)
  BY <1>3, <1>4, SessionRemoved
<1>6. IsQueue(skipped', Requests) /\ ToSet(skipped') = ToSet(skipped) \union {h}
  BY <1>1, <1>4, <1>5, AppendToQueue DEF BlockedTypes
<1>7. PICK e \in Entry, t \in Int, c \in Int, g \in Int, p \in Int :
        /\ e = req[h] /\ t = e.tokens /\ c = e.computed
        /\ g = good[h] /\ p = PromptLen[h]
  BY <1>1, Numbers DEF Entry
<1>8. PICK t2 \in Int : t2 = t + 1
  OBVIOUS
<1>9. req' = [req EXCEPT ![h] = [[e EXCEPT !.tokens = t2, !.ph = 0]
                                   EXCEPT !.status = STREAMING]]
  <2>1. e.ph - 1 = 0
    BY <1>3, <1>7
  <2> QED BY <1>7, <1>8, <2>1 DEF StopAndWait, Grew
<1>10. [[e EXCEPT !.tokens = t2, !.ph = 0] EXCEPT !.status = STREAMING] \in Entry
  <2>1. STREAMING \in States /\ 0 \in Int
    BY DEF States
  <2>2. [e EXCEPT !.tokens = t2, !.ph = 0] \in Entry
    BY <2>1, EntryChanged
  <2> QED BY <2>1, <2>2, EntryChanged
<1>11. req' \in [Requests -> Entry]
  BY <1>1, <1>9, <1>10 DEF BlockedTypes
<1>12. /\ req'[h].status = STREAMING /\ req'[h].computed = c
       /\ req'[h].tokens = t2 /\ req'[h].ph = 0
       /\ \A r \in Requests : r # h => req'[r] = req[r]
  BY <1>1, <1>7, <1>9 DEF BlockedTypes, Entry
<1>13. BlockedTypes'
  BY <1>1, <1>3, <1>4, <1>5, <1>6, <1>11 DEF BlockedTypes
<1>14. Pace'
  <2>1. \A r \in failedNow : r # h /\ r \in Requests
    BY <1>1, <1>3 DEF Pace, BlockedTypes
  <2> QED BY <1>1, <1>3, <1>12, <2>1 DEF Pace, Depth
<1>15. Apart'
  BY <1>1, <1>4 DEF Apart
<1>16. sessionsWaiting' = Cardinality(Streams')
  <2>1. h \notin Streams /\ Streams' = Streams \union {h}
    BY <1>3, <1>12 DEF Streams
  <2>2. IsFiniteSet(Streams)
    BY BlockedAssumption, FS_Subset DEF Streams
  <2>3. Cardinality(Streams \union {h}) = Cardinality(Streams) + 1
    BY <2>1, <2>2, FS_AddElement
  <2> QED BY <1>4, <2>1, <2>3 DEF BInv
<1>17. ASSUME NEW r \in Requests PROVE Sound(r)'
  <2>1. CASE r # h
    <3>1. Untouched(r)
      BY <1>3, <1>4, <1>5, <1>6, <1>12, <2>1 DEF Untouched
    <3> QED BY <1>1, <1>3, <3>1, StaysSound
  <2>2. CASE r = h
    <3>1. Sound(h)
      BY <1>1
    <3>2. Standing(h)'
      BY <1>3, <1>4, <1>5, <1>6, <1>12 DEF Standing
    <3>3. Flown(h)' /\ Counted(h)'
      BY <1>3, <1>12 DEF Flown, Counted
    <3>4. Lent(h)'
      BY <1>3, <1>4, <1>12 DEF Lent
    <3>5. Truncated(h)' = c
      BY <1>3, <1>7, <1>12 DEF Truncated
    <3>6. c >= 0 /\ t >= p /\ g = c /\ g = t + 1 - 1
      BY <1>3, <1>7, <3>1 DEF Sound, Kv
    <3>7. c >= 0 /\ t2 >= p /\ g >= c /\ c <= t2
      BY <1>8, <3>6
    <3>8. Kv(h)'
      BY <1>3, <1>7, <1>12, <3>5, <3>7 DEF Kv
    <3> QED BY <2>2, <3>2, <3>3, <3>4, <3>8 DEF Sound
  <2> QED BY <2>1, <2>2
<1> QED BY <1>13, <1>14, <1>15, <1>16, <1>17 DEF BInv

LEMMA StopAndContinueKeeps ==
  ASSUME BInv, SessionsInStep, NEW h \in Requests, StopAndContinue(h),
         setting' = setting
  PROVE  BInv'
<1>1. BlockedTypes /\ Pace /\ Apart /\ \A r \in Requests : Sound(r)
  BY DEF BInv
<1>2. Resumable # {}
  BY DEF StopAndContinue
<1>3. /\ stage = "update" /\ h \in rowsLeft /\ rowsLeft' = rowsLeft \ {h}
      /\ UNCHANGED <<stage, passed, batch, failedNow, flight,
                     finishedRecving, load, good>>
      /\ load[h].state = "none" /\ load[h].bad = {} /\ h \notin finishedRecving
      /\ batch = {} /\ ToSet(passed) = {}
      /\ req[h].status = "RUNNING" /\ req[h].ph = 1 /\ ~Owed(h)' /\ RowsOf(h)' = 0
  BY <1>2, VisitedRequest DEF StopAndContinue
<1>4. /\ sessionsWaiting' = sessionsWaiting
      /\ active' = Without(active, {h}) /\ queue' = Append(queue, h)
      /\ skipped' = skipped /\ blocks' = blocks /\ req[h].inputs # <<>>
  <2>1. PICK n \in Int : n = sessionsWaiting
    <3>1. IsFiniteSet(Streams)
      BY BlockedAssumption, FS_Subset DEF Streams
    <3> QED BY <3>1, FS_CardinalityType DEF BInv
  <2> QED BY <1>3, <2>1 DEF StopAndContinue, Removed
<1>5. /\ IsQueue(active', Requests) /\ ToSet(active') = ToSet(active) \ {h}
      /\ h \notin ToSet(queue) /\ h \notin ToSet(skipped)
  BY <1>3, <1>4, SessionRemoved
<1>6. IsQueue(queue', Requests) /\ ToSet(queue') = ToSet(queue) \union {h}
  BY <1>1, <1>4, <1>5, AppendToQueue DEF BlockedTypes
<1>7. PICK e \in Entry, c \in Int, g \in Int, p \in Int :
        e = req[h] /\ c = e.computed /\ g = good[h] /\ p = PromptLen[h] /\ p > 0
  BY <1>1, Numbers DEF Entry
<1>8. PICK t \in Int, t1 \in Int : t = c + p /\ t1 = e.tokens + 1
  BY DEF Entry
<1>9. PICK rest \in Seq({"input", "end"}) : rest = Tail(e.inputs)
  <2>1. e.inputs \in Seq({"input", "end"}) /\ e.inputs # <<>>
    BY <1>4, <1>7 DEF Entry
  <2> QED BY <2>1, HeadTailProperties
<1>10. PICK x \in Entry : x = [e EXCEPT !.tokens = t1, !.ph = 0]
  <2>1. "WAITING" \in States /\ 0 \in Int
    BY DEF States
  <2> QED BY <2>1, EntryChanged
<1>11. PICK y \in Entry :
         y = [x EXCEPT !.tokens = t, !.prompt = t, !.status = "WAITING"]
  BY DEF Entry, States
<1>12. PICK z \in Entry : z = [y EXCEPT !.inputs = rest]
  BY DEF Entry
<1>13. /\ z.status = "WAITING" /\ z.computed = c /\ z.tokens = t /\ z.ph = 0
       /\ x.computed = c /\ y.inputs = e.inputs
  BY <1>7, <1>10, <1>11, <1>12 DEF Entry
<1>14. req' = [req EXCEPT ![h] = z]
  <2>1. e.ph - 1 = 0
    BY <1>3, <1>7
  <2>2. Grew(h) = x
    BY <1>7, <1>8, <1>10, <2>1 DEF Grew
  <2>3. NextInput(x, h) = y
    BY <1>7, <1>8, <1>11, <1>13 DEF NextInput
  <2>4. req' = [req EXCEPT ![h] = [NextInput(Grew(h), h) EXCEPT !.inputs = Tail(@)]]
    BY DEF StopAndContinue
  <2> QED BY <1>9, <1>12, <1>13, <2>2, <2>3, <2>4
<1>15. req' \in [Requests -> Entry]
  BY <1>1, <1>14 DEF BlockedTypes
<1>16. /\ req'[h].status = "WAITING" /\ req'[h].computed = c
       /\ req'[h].tokens = t /\ req'[h].ph = 0
       /\ \A r \in Requests : r # h => req'[r] = req[r]
  BY <1>1, <1>13, <1>14 DEF BlockedTypes
<1>17. BlockedTypes'
  BY <1>1, <1>3, <1>4, <1>5, <1>6, <1>15 DEF BlockedTypes
<1>18. Pace'
  <2>1. \A r \in failedNow : r # h /\ r \in Requests
    BY <1>1, <1>3 DEF Pace, BlockedTypes
  <2> QED BY <1>1, <1>3, <1>16, <2>1 DEF Pace, Depth
<1>19. Apart' /\ Streams' = Streams
  BY <1>1, <1>3, <1>4, <1>16 DEF Apart, Streams
<1>20. ASSUME NEW r \in Requests PROVE Sound(r)'
  <2>1. CASE r # h
    <3>1. Untouched(r)
      BY <1>3, <1>4, <1>5, <1>6, <1>16, <2>1 DEF Untouched
    <3> QED BY <1>1, <1>3, <3>1, StaysSound
  <2>2. CASE r = h
    <3>1. Sound(h)
      BY <1>1
    <3>2. Standing(h)'
      BY <1>3, <1>4, <1>5, <1>6, <1>16 DEF Standing
    <3>3. Flown(h)' /\ Counted(h)'
      BY <1>3, <1>16 DEF Flown, Counted
    <3>4. Lent(h)'
      BY <1>3, <1>4, <1>16 DEF Lent
    <3>5. Truncated(h)' = c
      BY <1>3, <1>7, <1>16 DEF Truncated
    <3>6. c >= 0 /\ g = c
      BY <1>3, <1>7, <3>1 DEF Sound, Kv
    <3>7. c >= 0 /\ t >= p /\ g >= c /\ c <= t
      BY <1>7, <1>8, <3>6
    <3>8. Kv(h)'
      BY <1>3, <1>7, <1>16, <3>5, <3>7 DEF Kv
    <3> QED BY <2>2, <3>2, <3>3, <3>4, <3>8 DEF Sound
  <2> QED BY <2>1, <2>2
<1> QED BY <1>4, <1>17, <1>18, <1>19, <1>20 DEF BInv

LEMMA EndUpdateKeeps ==
  ASSUME BInv, SessionsInStep, EndUpdate, setting' = setting
  PROVE  BInv'
<1>1. BlockedTypes /\ Pace /\ Apart /\ \A r \in Requests : Sound(r)
  BY DEF BInv
<1>2. PICK ended \in SUBSET Requests, free \in SUBSET Requests :
        /\ ended = {r \in Requests : load[r].state = "reported"}
        /\ \A r \in free : \/ req[r].status = "FINISHED" /\ load[r].state = "none"
                           \/ r \in ended /\ req[r].status # REMOTE
        /\ \A r \in ended : req[r].status # REMOTE => r \in free
        /\ finishedRecving' = finishedRecving
                              \union {r \in ended : req[r].status = REMOTE}
        /\ load' = [r \in Requests |-> IF r \in ended THEN NoLoad ELSE load[r]]
        /\ blocks' = [r \in Requests |-> IF r \in free THEN {} ELSE blocks[r]]
        /\ req' = [r \in Requests |->
                     IF r \in free THEN [req[r] EXCEPT !.status = "FREED"]
                     ELSE req[r]]
  <2>1. PICK sent \in SUBSET {r \in Senders : /\ req[r].status = "FINISHED"
                                              /\ load[r].state = "none"} :
          LET ended == {r \in Requests : load[r].state = "reported"}
              free  == sent \union {r \in ended : req[r].status # REMOTE}
          IN  /\ finishedRecving' = finishedRecving
                                    \union {r \in ended : req[r].status = REMOTE}
              /\ load' = [r \in Requests |-> IF r \in ended THEN NoLoad ELSE load[r]]
              /\ blocks' = [r \in Requests |-> IF r \in free THEN {} ELSE blocks[r]]
              /\ req' = [r \in Requests |->
                           IF r \in free THEN [req[r] EXCEPT !.status = "FREED"]
                           ELSE req[r]]
    BY DEF EndUpdate
  <2>2. Senders \subseteq Requests
    BY <1>1, BlockedAssumption DEF Senders, BlockedTypes
  <2>3. PICK over \in SUBSET Requests : over = {r \in Requests : load[r].state = "reported"}
    OBVIOUS
  <2>4. PICK given \in SUBSET Requests :
          given = sent \union {r \in over : req[r].status # REMOTE}
    BY <2>2
  <2> QED BY <2>1, <2>3, <2>4
<1>3. /\ stage = "update" /\ stage' = "idle" /\ rowsLeft = {} /\ failedNow = {}
      /\ UNCHANGED <<queue, skipped, active, passed, batch, rowsLeft, failedNow,
                     flight, sessionsWaiting, good>>
  BY DEF EndUpdate, queueVars
<1>4. batch = {} /\ passed = <<>>
  BY <1>1, <1>3 DEF Pace
<1>5. \A r \in free : req[r].status = "FINISHED"
  BY <1>1, <1>2 DEF Sound, Lent
<1>6. ASSUME NEW r \in Requests
      PROVE  /\ r \in free => req'[r].status = "FREED" /\ blocks'[r] = {}
             /\ r \notin free => req'[r] = req[r] /\ blocks'[r] = blocks[r]
             /\ r \in ended => load'[r] = [state |-> "none", bad |-> {}]
             /\ r \notin ended => load'[r] = load[r]
             /\ req'[r] \in Entry /\ load'[r] \in Loads
  <2>1. PICK e \in Entry : e = req[r]
    BY <1>1 DEF BlockedTypes
  <2>2. "FREED" \in States
    BY DEF States
  <2>3. r \in free => req'[r] = [e EXCEPT !.status = "FREED"]
    BY <1>2, <2>1
  <2>4. r \in free => req'[r].status = "FREED" /\ req'[r] \in Entry
    <3>1. PICK k \in Int : k = e.ph
      BY DEF Entry
    <3>2. [e EXCEPT !.status = "FREED"] \in Entry
      BY <2>2, <3>1, EntryChanged
    <3>3. [e EXCEPT !.status = "FREED"].status = "FREED"
      BY DEF Entry
    <3> QED BY <2>3, <3>2, <3>3
  <2>5. r \notin free => req'[r] = e
    BY <1>2, <2>1
  <2>6. load[r] \in Loads
    BY <1>1 DEF BlockedTypes
  <2>7. r \in ended => load'[r] = [state |-> "none", bad |-> {}]
    BY <1>2 DEF NoLoad
  <2>8. r \notin ended => load'[r] = load[r]
    BY <1>2
  <2>9. load'[r] \in Loads
    BY <2>6, <2>7, <2>8 DEF Loads
  <2>10. /\ r \in free => blocks'[r] = {}
         /\ r \notin free => blocks'[r] = blocks[r]
    BY <1>2
  <2> QED BY <2>1, <2>4, <2>5, <2>7, <2>8, <2>9, <2>10
<1>7. BlockedTypes'
  <2>1. req' \in [Requests -> Entry] /\ load' \in [Requests -> Loads]
    BY <1>2, <1>6
  <2>2. blocks' \in [Requests -> SUBSET Nat]
        /\ \A r \in Requests : IsFiniteSet(blocks'[r])
    BY <1>1, <1>2, FS_EmptySet DEF BlockedTypes
  <2>3. finishedRecving' \subseteq Requests
    BY <1>1, <1>2 DEF BlockedTypes
  <2> QED BY <1>1, <1>3, <2>1, <2>2, <2>3 DEF BlockedTypes
<1>8. Pace'
  <2>1. Len(flight) <= Depth
    BY <1>1 DEF Pace
  <2> QED BY <1>3, <1>4, <2>1 DEF Pace, Depth
<1>9. Apart'
  BY <1>1, <1>6 DEF Apart
<1>10. Streams' = Streams
  BY <1>5, <1>6 DEF Streams
<1>11. ASSUME NEW r \in Requests PROVE Sound(r)'
  <2>1. Sound(r)
    BY <1>1
  <2>2. ~Owed(r) \/ ~Behind(r)
    BY <1>3 DEF Owed, Behind
  <2>3. (Owed(r)' <=> Owed(r)) /\ RowsOf(r)' = RowsOf(r)
    BY <1>3 DEF Owed, RowsOf, Flying
  <2>4. CASE r \in free
    <3>1. req[r].status = "FINISHED" /\ req'[r].status = "FREED" /\ blocks'[r] = {}
      BY <1>5, <1>6, <2>4
    <3>2. Standing(r)'
      BY <1>3, <2>1, <3>1 DEF Sound, Standing
    <3>3. Flown(r)' /\ Counted(r)' /\ Kv(r)'
      BY <1>3, <1>4, <3>1 DEF Flown, Counted, Kv
    <3>4. load'[r].state = "none" /\ load'[r].bad = {}
      <4>1. CASE r \in ended
        BY <1>6, <4>1
      <4>2. CASE r \notin ended
        <5>1. load[r].state = "none" /\ load'[r] = load[r]
          BY <1>2, <1>6, <2>4, <4>2
        <5> QED BY <2>1, <5>1 DEF Sound, Lent
      <4> QED BY <4>1, <4>2
    <3>5. r \notin finishedRecving'
      BY <1>2, <2>1, <3>1 DEF Sound, Lent
    <3>6. Lent(r)'
      BY <3>1, <3>4, <3>5 DEF Lent
    <3> QED BY <3>2, <3>3, <3>6 DEF Sound
  <2>5. CASE r \notin free
    <3>1. req'[r] = req[r] /\ blocks'[r] = blocks[r] /\ good'[r] = good[r]
      BY <1>3, <1>6, <2>5
    <3>2. Standing(r)'
      BY <1>3, <2>1, <3>1 DEF Sound, Standing
    <3>3. Flown(r)' /\ Counted(r)'
      BY <2>1, <2>2, <2>3, <3>1 DEF Sound, Flown, Counted
    <3>4. CASE r \in ended
      <4>1. req[r].status = REMOTE /\ load[r].bad = {}
            /\ load'[r].state = "none" /\ load'[r].bad = {}
        <5>1. req[r].status = REMOTE
          BY <1>2, <2>5, <3>4
        <5>2. load[r].state = "reported"
          BY <1>2, <3>4
        <5>3. load[r].bad = {}
          BY <2>1, <5>2 DEF Sound, Lent
        <5> QED BY <1>6, <3>4, <5>1, <5>3
      <4>2. Lent(r)'
        BY <3>1, <4>1 DEF Lent
      <4>3. Truncated(r)' = Truncated(r)
        BY <3>1, <4>1 DEF Truncated
      <4>4. Kv(r)'
        BY <1>3, <2>1, <3>1, <4>3 DEF Sound, Kv
      <4> QED BY <3>2, <3>3, <4>2, <4>4 DEF Sound
    <3>5. CASE r \notin ended
      <4>1. load'[r] = load[r] /\ (r \in finishedRecving' <=> r \in finishedRecving)
        BY <1>2, <1>6, <3>5
      <4>2. Lent(r)'
        BY <2>1, <3>1, <4>1 DEF Sound, Lent
      <4>3. Truncated(r)' = Truncated(r)
        BY <3>1, <4>1 DEF Truncated
      <4>4. Kv(r)'
        BY <1>3, <2>1, <3>1, <4>3 DEF Sound, Kv
      <4> QED BY <3>2, <3>3, <4>2, <4>4 DEF Sound
    <3> QED BY <3>4, <3>5
  <2> QED BY <2>4, <2>5
<1> QED BY <1>3, <1>7, <1>8, <1>9, <1>10, <1>11 DEF BInv

-----------------------------------------------------------------------------
(* The worker of the connector, and the grammar backend.                   *)

LEMMA BlockFailsKeeps ==
  ASSUME BInv, SessionsInStep, NEW h \in Requests, NEW i, BlockFails(h, i),
         setting' = setting
  PROVE  BInv'
<1>1. BlockedTypes /\ Pace /\ Apart /\ \A r \in Requests : Sound(r)
  BY DEF BInv
<1>2. /\ load[h].state = "loading" /\ i \in Nat \ {0}
      /\ load' = [load EXCEPT ![h].bad = @ \union {i}]
      /\ good' = [good EXCEPT ![h] = Min({@, (i - 1) * BlockSize})]
      /\ UNCHANGED <<req, queue, skipped, active, stage, passed, batch, rowsLeft,
                     failedNow, flight, sessionsWaiting, finishedRecving, blocks>>
  <2>1. IsFiniteSet(blocks[h])
    BY <1>1 DEF BlockedTypes
  <2>2. Cardinality(blocks[h]) \in Nat
    BY <2>1, FS_CardinalityType
  <2>3. i \in 1..Cardinality(blocks[h])
    BY DEF BlockFails
  <2>4. i \in Nat \ {0}
    BY <2>2, <2>3
  <2> QED BY <2>4 DEF BlockFails, queueVars, stepVars, recvVars
<1>3. PICK l \in Loads, bad \in SUBSET (Nat \ {0}) :
        l = load[h] /\ bad = l.bad /\ bad \union {i} \in SUBSET (Nat \ {0})
  BY <1>1, <1>2, Numbers DEF Loads
<1>4. PICK c \in Int, g \in Int, k \in Int :
        c = req[h].computed /\ g = good[h] /\ k = (i - 1) * BlockSize
  <2>1. BlockSize \in Nat
    BY BlockedAssumption
  <2>2. (i - 1) * BlockSize \in Int
    BY <1>2, <2>1
  <2> QED BY <1>1, <2>2, Numbers
<1>5. PICK low \in Int : low = Min({g, k}) /\ low <= g /\ low \in {g, k}
  <2>1. \E x \in {g, k} : x <= g /\ x <= k
    OBVIOUS
  <2>2. Min({g, k}) \in {g, k} /\ Min({g, k}) <= g
    BY <2>1 DEF Min
  <2> QED BY <2>2
<1>6. /\ load'[h].state = "loading" /\ load'[h].bad = bad \union {i}
      /\ load' \in [Requests -> Loads] /\ good' \in [Requests -> Int]
      /\ good'[h] = low
      /\ \A r \in Requests : r # h => load'[r] = load[r] /\ good'[r] = good[r]
  <2>1. load' = [load EXCEPT ![h] = [l EXCEPT !.bad = bad \union {i}]]
    BY <1>1, <1>2, <1>3 DEF BlockedTypes
  <2>2. [l EXCEPT !.bad = bad \union {i}] \in Loads
    BY <1>3 DEF Loads
  <2>3. [l EXCEPT !.bad = bad \union {i}].state = l.state
        /\ [l EXCEPT !.bad = bad \union {i}].bad = bad \union {i}
    BY DEF Loads
  <2>4. good' = [good EXCEPT ![h] = low]
    BY <1>1, <1>2, <1>4, <1>5 DEF BlockedTypes
  <2> QED BY <1>1, <1>2, <1>3, <2>1, <2>2, <2>3, <2>4 DEF BlockedTypes
<1>7. req[h].status = "FINISHED" \/ (req[h].status = REMOTE /\ h \notin finishedRecving)
  BY <1>1, <1>2 DEF Sound, Lent
<1>8. BlockedTypes'
  BY <1>1, <1>2, <1>6 DEF BlockedTypes
<1>9. Pace'
  BY <1>1, <1>2 DEF Pace, Depth
<1>10. Apart' /\ Streams' = Streams
  BY <1>1, <1>2 DEF Apart, Streams
<1>11. ASSUME NEW r \in Requests PROVE Sound(r)'
  <2>1. CASE r # h
    <3>1. Untouched(r)
      BY <1>2, <1>6, <2>1 DEF Untouched
    <3> QED BY <1>1, <1>2, <3>1, StaysSound
  <2>2. CASE r = h
    <3>1. Sound(h)
      BY <1>1
    <3>2. Standing(h)'
      BY <1>2, <3>1 DEF Sound, Standing
    <3>3. (Owed(h)' <=> Owed(h)) /\ RowsOf(h)' = RowsOf(h)
          /\ (Behind(h)' <=> Behind(h))
      BY <1>2 DEF Owed, RowsOf, Flying, Behind, Depth
    <3>4. Flown(h)' /\ Counted(h)'
      BY <1>2, <3>1, <3>3 DEF Sound, Flown, Counted
    <3>5. Lent(h)'
      BY <1>2, <1>6, <3>1 DEF Sound, Lent
    <3>6. h \notin batch
      BY <1>1, <1>7 DEF Pace
    <3>7. Kv(h)'
      <4>1. CASE req[h].status = "FINISHED"
        BY <1>2, <3>6, <4>1 DEF Kv
      <4>2. CASE req[h].status = REMOTE
        <5>1. c >= 0 /\ g >= Truncated(h) /\ c <= req[h].tokens
              /\ req[h].tokens >= PromptLen[h]
          BY <1>4, <3>1, <4>2 DEF Sound, Kv
        <5>2. c \in Nat
          BY <5>1
        <5>3. Truncated(h) = Cut(bad, c)
          BY <1>3, <1>4 DEF Truncated, Cut
        <5>4. Truncated(h)' = Cut(bad \union {i}, c)
          <6>1. PICK worse : worse = bad \union {i}
            OBVIOUS
          <6>2. load'[h].bad = worse /\ req'[h].computed = c
            BY <1>2, <1>4, <1>6, <6>1
          <6>3. Truncated(h)' = Cut(worse, c)
            BY <6>2 DEF Truncated, Cut
          <6> QED BY <6>1, <6>3
        <5>5. /\ Cut(bad \union {i}, c) <= Cut(bad, c)
              /\ Cut(bad \union {i}, c) <= k
          BY <1>2, <1>4, <5>2, CutMore, BlockedAssumption
        <5>6. Cut(bad, c) \in Int /\ Cut(bad \union {i}, c) \in Int
          BY <1>3, <5>2, CutFacts, BlockedAssumption
        <5>7. low >= Cut(bad \union {i}, c)
          BY <1>5, <5>1, <5>3, <5>5, <5>6
        <5> QED BY <1>2, <1>4, <1>6, <3>6, <4>2, <5>1, <5>4, <5>7 DEF Kv
      <4> QED BY <1>7, <4>1, <4>2
    <3> QED BY <2>2, <3>2, <3>4, <3>5, <3>7 DEF Sound
  <2> QED BY <2>1, <2>2
<1> QED BY <1>2, <1>8, <1>9, <1>10, <1>11 DEF BInv

LEMMA LoadEndsKeeps ==
  ASSUME BInv, SessionsInStep, NEW h \in Requests, LoadEnds(h), setting' = setting
  PROVE  BInv'
<1>1. BlockedTypes /\ Pace /\ Apart /\ \A r \in Requests : Sound(r)
  BY DEF BInv
<1>2. /\ load[h].state = "loading"
      /\ load' = [load EXCEPT ![h].state = "ended"]
      /\ UNCHANGED <<req, queue, skipped, active, stage, passed, batch, rowsLeft,
                     failedNow, flight, sessionsWaiting, finishedRecving, blocks,
                     good>>
  BY DEF LoadEnds, queueVars, stepVars, recvVars
<1>3. /\ load'[h].state = "ended" /\ load'[h].bad = load[h].bad
      /\ load' \in [Requests -> Loads]
      /\ \A r \in Requests : r # h => load'[r] = load[r]
  <2>1. PICK l \in Loads : l = load[h]
    BY <1>1 DEF BlockedTypes
  <2>2. load' = [load EXCEPT ![h] = [l EXCEPT !.state = "ended"]]
    BY <1>1, <1>2, <2>1 DEF BlockedTypes
  <2>3. [l EXCEPT !.state = "ended"] \in Loads
        /\ [l EXCEPT !.state = "ended"].state = "ended"
        /\ [l EXCEPT !.state = "ended"].bad = l.bad
    BY DEF Loads
  <2> QED BY <1>1, <2>1, <2>2, <2>3 DEF BlockedTypes
<1>4. BlockedTypes'
  BY <1>1, <1>2, <1>3 DEF BlockedTypes
<1>5. Pace'
  BY <1>1, <1>2 DEF Pace, Depth
<1>6. Apart' /\ Streams' = Streams
  BY <1>1, <1>2 DEF Apart, Streams
<1>7. ASSUME NEW r \in Requests PROVE Sound(r)'
  <2>1. CASE r # h
    <3>1. Untouched(r)
      BY <1>2, <1>3, <2>1 DEF Untouched
    <3> QED BY <1>1, <1>2, <3>1, StaysSound
  <2>2. CASE r = h
    <3>1. Sound(h)
      BY <1>1
    <3>2. Standing(h)'
      BY <1>2, <3>1 DEF Sound, Standing
    <3>3. (Owed(h)' <=> Owed(h)) /\ RowsOf(h)' = RowsOf(h)
          /\ (Behind(h)' <=> Behind(h))
      BY <1>2 DEF Owed, RowsOf, Flying, Behind, Depth
    <3>4. Flown(h)' /\ Counted(h)'
      BY <1>2, <3>1, <3>3 DEF Sound, Flown, Counted
    <3>5. Lent(h)'
      BY <1>2, <1>3, <3>1 DEF Sound, Lent
    <3>6. Truncated(h)' = Truncated(h)
      BY <1>2, <1>3 DEF Truncated
    <3>7. Kv(h)'
      BY <1>2, <3>1, <3>6 DEF Sound, Kv
    <3> QED BY <2>2, <3>2, <3>4, <3>5, <3>7 DEF Sound
  <2> QED BY <2>1, <2>2
<1> QED BY <1>2, <1>4, <1>5, <1>6, <1>7 DEF BInv

\* A step that changes nothing the invariant speaks of.
LEMMA NothingChanges ==
  ASSUME BInv, SessionsInStep, setting' = setting,
         UNCHANGED <<req, queue, skipped, active, stage, passed, batch, rowsLeft,
                     failedNow, flight, sessionsWaiting, finishedRecving, blocks,
                     load, good>>
  PROVE  BInv'
<1>1. BlockedTypes' /\ Pace' /\ Apart' /\ Streams' = Streams
  BY DEF BInv, BlockedTypes, Pace, Depth, Apart, Streams
<1>2. ASSUME NEW r \in Requests PROVE Sound(r)'
  <2>1. Sound(r) /\ Untouched(r)
    BY DEF BInv, Untouched
  <2> QED BY <2>1, StaysSound
<1> QED BY <1>1, <1>2 DEF BInv

-----------------------------------------------------------------------------
(* The invariant holds.                                                    *)

LEMMA StepKeeps ==
  ASSUME SessionsInStep, BInv, [BlockedNext]_blockedVars
  PROVE  BInv'
<1>1. CASE UNCHANGED blockedVars
  BY <1>1, NothingChanges DEF blockedVars
<1> SUFFICES ASSUME BlockedNext PROVE BInv'
  BY <1>1
<1>2. setting' = setting
  BY DEF BlockedNext
<1>3. CASE BeginSchedule
  BY <1>2, <1>3, BeginScheduleKeeps
<1>4. CASE PassOver
  BY <1>2, <1>4, PassOverKeeps
<1>5. CASE Promote
  BY <1>2, <1>5, PromoteKeeps
<1>6. CASE StartLoad
  BY <1>2, <1>6, StartLoadKeeps
<1>7. CASE Admit
  BY <1>2, <1>7, AdmitKeeps
<1>8. CASE Refuse
  BY <1>2, <1>8, RefuseKeeps
<1>9. CASE EndSchedule
  BY <1>2, <1>9, EndScheduleKeeps
<1>10. CASE BeginUpdate
  BY <1>2, <1>10, BeginUpdateKeeps
<1>11. CASE FailLoads
  BY <1>2, <1>11, FailLoadsKeeps
<1>12. CASE EndUpdate
  BY <1>2, <1>12, EndUpdateKeeps
<1>13. ASSUME NEW r \in Requests, SkipRow(r) PROVE BInv'
  BY <1>2, <1>13, SkipRowKeeps
<1>14. ASSUME NEW r \in Requests, GoOn(r) PROVE BInv'
  BY <1>2, <1>14, GoOnKeeps
<1>15. ASSUME NEW r \in Requests, StopForGood(r) PROVE BInv'
  BY <1>2, <1>15, StopForGoodKeeps
<1>16. ASSUME NEW r \in Requests, StopAndWait(r) PROVE BInv'
  BY <1>2, <1>16, StopAndWaitKeeps
<1>17. ASSUME NEW r \in Requests, StopAndContinue(r) PROVE BInv'
  BY <1>2, <1>17, StopAndContinueKeeps
<1>18. ASSUME NEW r \in Requests, AddRequest(r) PROVE BInv'
  BY <1>2, <1>18, AddRequestKeeps
<1>19. ASSUME NEW r \in Requests, Abort(r) PROVE BInv'
  BY <1>2, <1>19, AbortKeeps
<1>20. ASSUME NEW r \in Requests, NEW kind \in {"input", "end"}, MoreInput(r, kind)
       PROVE  BInv'
  BY <1>2, <1>20, MoreInputKeeps
<1>21. ASSUME NEW r \in Requests, LoadEnds(r) PROVE BInv'
  BY <1>2, <1>21, LoadEndsKeeps
<1>22. ASSUME NEW r \in Requests, GrammarReady(r) PROVE BInv'
  BY <1>2, <1>22, NothingChanges
     DEF GrammarReady, queueVars, stepVars, recvVars, kvVars
<1>23. ASSUME NEW r \in Requests, NEW i, BlockFails(r, i) PROVE BInv'
  BY <1>2, <1>23, BlockFailsKeeps
<1>24. CASE EngineStep
  BY <1>3, <1>4, <1>5, <1>6, <1>7, <1>8, <1>9, <1>10, <1>11, <1>12, <1>13, <1>14,
     <1>15, <1>16, <1>17, <1>24 DEF EngineStep
<1>25. ASSUME NEW r \in Requests, Client(r) PROVE BInv'
  BY <1>18, <1>19, <1>20, <1>25 DEF Client
<1>26. ASSUME NEW r \in Requests, Backend(r) PROVE BInv'
  BY <1>21, <1>22, <1>26 DEF Backend
<1> QED BY <1>23, <1>24, <1>25, <1>26 DEF BlockedNext

LEMMA BlockedInvariant ==
  ASSUME SessionsInStep
  PROVE  BlockedSpec => []BInv
<1>1. BlockedInit => BInv
  BY BlockedStart
<1>2. BInv /\ [BlockedNext]_blockedVars => BInv'
  BY StepKeeps
<1> QED BY <1>1, <1>2, PTL DEF BlockedSpec

-----------------------------------------------------------------------------
(* What follows from it.                                                   *)

LEMMA TimesInQueue ==
  ASSUME NEW S, NEW s, IsQueue(s, S), NEW e
  PROVE  Cardinality({i \in DOMAIN s : s[i] = e}) = IF e \in ToSet(s) THEN 1 ELSE 0
<1>1. /\ Len(s) \in Nat /\ DOMAIN s = 1..Len(s)
      /\ \A i \in 1..Len(s) : s[i] \in ToSet(s)
      /\ \A x \in ToSet(s) : \E i \in 1..Len(s) : s[i] = x
      /\ \A i, j \in 1..Len(s) : s[i] = s[j] => i = j
  BY Members DEF IsQueue
<1>2. CASE e \in ToSet(s)
  <2>1. PICK k \in 1..Len(s) : s[k] = e
    BY <1>1, <1>2
  <2>2. {i \in DOMAIN s : s[i] = e} = {k}
    BY <1>1, <2>1
  <2> QED BY <1>2, <2>2, FS_Singleton
<1>3. CASE e \notin ToSet(s)
  <2>1. {i \in DOMAIN s : s[i] = e} = {}
    BY <1>1, <1>3
  <2> QED BY <1>3, <2>1, FS_EmptySet
<1> QED BY <1>2, <1>3

LEMMA InOnePlace ==
  ASSUME BInv
  PROVE  OnePlaceEach
<1>1. SUFFICES ASSUME NEW r \in Requests
               PROVE  /\ Cardinality({i \in DOMAIN active : active[i] = r})
                           = (IF req[r].status = "RUNNING" THEN 1 ELSE 0)
                      /\ Places(r) = (IF Gone(req[r].status) \/ req[r].status = "RUNNING"
                                      THEN 0 ELSE 1)
                      /\ Blocked(req[r].status) => r \notin ToSet(queue)
  BY DEF OnePlaceEach
<1>2. Standing(r) /\ BlockedTypes
  BY DEF BInv, Sound
<1>3. Cardinality({i \in DOMAIN active : active[i] = r})
        = IF r \in ToSet(active) THEN 1 ELSE 0
  BY <1>2, TimesInQueue DEF BlockedTypes
<1>4. Cardinality({i \in DOMAIN queue : queue[i] = r})
        = IF r \in ToSet(queue) THEN 1 ELSE 0
  BY <1>2, TimesInQueue DEF BlockedTypes
<1>5. Cardinality({i \in DOMAIN skipped : skipped[i] = r})
        = IF r \in ToSet(skipped) THEN 1 ELSE 0
  BY <1>2, TimesInQueue DEF BlockedTypes
<1>6. Cardinality({i \in DOMAIN passed : passed[i] = r})
        = IF r \in ToSet(passed) THEN 1 ELSE 0
  BY <1>2, TimesInQueue DEF BlockedTypes
<1>7. Places(r) = (IF r \in ToSet(queue) THEN 1 ELSE 0)
                  + (IF r \in ToSet(skipped) THEN 1 ELSE 0)
                  + (IF r \in ToSet(passed) THEN 1 ELSE 0)
  BY <1>4, <1>5, <1>6 DEF Places
<1> QED BY <1>2, <1>3, <1>7 DEF Standing

LEMMA BlocksStay ==
  ASSUME BInv
  PROVE  LoadsKeepBlocks
BY DEF BInv, Sound, Lent, Apart, LoadsKeepBlocks

LEMMA GoesOnFromLoaded ==
  ASSUME BInv
  PROVE  StartsFromLoaded
<1>1. SUFFICES ASSUME NEW r \in ToSet(active)
               PROVE  good[r] >= req[r].computed - req[r].ph
  BY DEF StartsFromLoaded
<1>2. r \in Requests
  <2>1. IsQueue(active, Requests)
    BY DEF BInv, BlockedTypes
  <2> QED BY <2>1, QueueMembers
<1>3. Sound(r) /\ BlockedTypes /\ Pace
  BY <1>2 DEF BInv
<1>4. PICK c \in Int, t \in Int, h \in Int, g \in Int :
        /\ c = req[r].computed /\ t = req[r].tokens /\ h = req[r].ph /\ g = good[r]
  BY <1>2, <1>3, Numbers
<1>5. req[r].status = "RUNNING"
  BY <1>3 DEF Sound, Standing
<1>6. g >= c
  <2>1. g = c \/ c <= g
    BY <1>3, <1>4, <1>5 DEF Sound, Kv
  <2> QED BY <2>1
<1>7. h >= 0
  BY <1>2, <1>3, <1>4, <1>5 DEF Sound, Counted, RowsOf, Flying
<1> QED BY <1>4, <1>6, <1>7

LEMMA AwakeForWork ==
  ASSUME BInv
  PROVE  SleepsOnlyForClients
<1>1. SUFFICES ASSUME stage = "idle"
               PROVE  HasUnfinished <=>
                        \E r \in Requests :
                          ~Gone(req[r].status) /\ req[r].status # STREAMING
  BY DEF SleepsOnlyForClients
<1>2. /\ BlockedTypes /\ Pace /\ \A r \in Requests : Standing(r)
      /\ sessionsWaiting = Cardinality(Streams)
  BY DEF BInv, Sound
<1>3. ToSet(passed) = {}
  BY <1>1, <1>2, EmptyQueue DEF Pace
<1>4. PICK a, q, s \in SUBSET Requests :
        /\ a = ToSet(active) /\ q = ToSet(queue) /\ s = ToSet(skipped)
        /\ IsFiniteSet(a) /\ IsFiniteSet(q) /\ IsFiniteSet(s)
  BY <1>2, QueueMembers, QueueLength DEF BlockedTypes
<1>5. /\ Len(active) = Cardinality(a) /\ Len(queue) = Cardinality(q)
      /\ Len(skipped) = Cardinality(s)
  BY <1>2, <1>4, QueueLength DEF BlockedTypes
<1>6. Streams \subseteq s
  BY <1>2, <1>3, <1>4 DEF Streams, Standing
<1>7. PICK m, n, k, w, d \in Nat :
        /\ m = Cardinality(a) /\ n = Cardinality(q) /\ k = Cardinality(s)
        /\ w = Cardinality(Streams) /\ d = Cardinality(s \ Streams)
        /\ d = k - w
  <2>1. IsFiniteSet(Streams) /\ IsFiniteSet(s \ Streams)
    BY <1>4, <1>6, FS_Subset
  <2>2. s \cap Streams = Streams
    BY <1>6
  <2>3. Cardinality(s \ Streams) = Cardinality(s) - Cardinality(Streams)
    BY <1>4, <2>2, FS_Difference
  <2> QED BY <1>4, <2>1, <2>3, FS_CardinalityType
<1>8. HasUnfinished <=> n + d + m > 0
  <2>1. HasUnfinished <=> n + k - w + m > 0
    BY <1>2, <1>5, <1>7 DEF HasUnfinished
  <2> QED BY <1>7, <2>1
<1>9. (m = 0 <=> a = {}) /\ (n = 0 <=> q = {}) /\ (d = 0 <=> s \ Streams = {})
  <2>1. IsFiniteSet(s \ Streams)
    BY <1>4, FS_Subset
  <2> QED BY <1>4, <1>7, <2>1, FS_EmptySet
<1>10. HasUnfinished <=> a # {} \/ q # {} \/ s \ Streams # {}
  BY <1>8, <1>9
<1>11. ASSUME NEW r \in Requests
       PROVE  ~Gone(req[r].status) /\ req[r].status # STREAMING
                <=> r \in a \/ r \in q \/ r \in s \ Streams
  <2>1. Standing(r)
    BY <1>2
  <2> QED BY <1>3, <1>4, <2>1 DEF Standing, Streams
<1> QED BY <1>4, <1>10, <1>11

(***************************************************************************)
(* Every unfinished request stands in exactly one place, the one its       *)
(* status names, a finished one in none, whatever was stopped, continued,  *)
(* aborted, loaded or preempted: schedule() meets no "Invalid request      *)
(* status" (scheduler.py:794).                                             *)
(***************************************************************************)
THEOREM OnePlaceHolds ==
  ASSUME SessionsInStep
  PROVE  BlockedSpec => []OnePlaceEach
<1>1. BInv => OnePlaceEach
  BY InOnePlace
<1> QED BY <1>1, BlockedInvariant, PTL

(***************************************************************************)
(* Blocks that a load still writes to, or that are still being sent, stay  *)
(* with their request, aborted or not, and no two requests hold one block: *)
(* what _free_request and the connector's reports keep.                    *)
(***************************************************************************)
THEOREM LoadsAreSafe ==
  ASSUME SessionsInStep
  PROVE  BlockedSpec => []LoadsKeepBlocks
<1>1. BInv => LoadsKeepBlocks
  BY BlocksStay
<1> QED BY <1>1, BlockedInvariant, PTL

(***************************************************************************)
(* A request goes on from KV that is really in its blocks, however many of *)
(* them failed to load and whenever the failure is reported: what          *)
(* _update_requests_with_invalid_blocks and _update_waiting_for_remote_kv  *)
(* keep.                                                                   *)
(***************************************************************************)
THEOREM LoadedIsThere ==
  ASSUME SessionsInStep
  PROVE  BlockedSpec => []StartsFromLoaded
<1>1. BInv => StartsFromLoaded
  BY GoesOnFromLoaded
<1> QED BY <1>1, BlockedInvariant, PTL

(***************************************************************************)
(* The engine may sleep exactly if every unfinished request is a session   *)
(* that waits for its client: the counter get_num_unfinished_requests      *)
(* subtracts agrees with the statuses in every state.                      *)
(***************************************************************************)
THEOREM SleepIsSafe ==
  ASSUME SessionsInStep
  PROVE  BlockedSpec => []SleepsOnlyForClients
<1>1. BInv => SleepsOnlyForClients
  BY AwakeForWork
<1> QED BY <1>1, BlockedInvariant, PTL
=============================================================================
