------------------------ MODULE EncoderCache_proofs ------------------------
(***************************************************************************)
(* Proofs about EncoderCache, for every number of requests, images and     *)
(* hashes, of any size, shared or not, every size of the cache and of the  *)
(* budget: a step finds every embedding it gathers, and what the scheduler *)
(* counts is what the worker will hold.  They are about scheduling first   *)
(* come, first served: under "priority" a request can be preempted whose   *)
(* row the step has already, and both properties fail.                     *)
(*                                                                         *)
(* The invariant follows a step from the trial of a row to its execution:  *)
(* the accounts agree with themselves (GoodCache), a trial has looked at   *)
(* all images in its reach (GoodFor), what the rows of the step need is    *)
(* counted and referred to (RowsStand), and a sequence of sets tells what  *)
(* the worker will hold after each frame in flight (Follows).              *)
(***************************************************************************)
EXTENDS EncoderCache, DataLemmas

-----------------------------------------------------------------------------
(* Entries and their sizes.                                                *)

Hashes == DOMAIN HashLen

\* What an entry may be referred to by, and the accounts.
Referred == UNION {[D -> SUBSET Requests] : D \in SUBSET Hashes}
Caches == [refs : Referred, freeable : Seq(Hashes), freed : SUBSET Hashes]

\* The accounts agree with themselves and with the requests that are live:
\* an entry is kept for live requests that have the image, is in line to be
\* evicted if there is none, and all of them fit.
GoodCache(c, live) ==
  /\ \A h \in Cached(c) : \A r \in c.refs[h] :
       r \in live /\ h \in HashesOf(r, Inputs(r))
  /\ IsQueue(c.freeable, Hashes)
  /\ ToSet(c.freeable) = {h \in Cached(c) : c.refs[h] = {}}
  /\ FreeSlots(c) >= 0

\* Entries of the accounts, as a partial function.
LEMMA RefsOf ==
  ASSUME NEW f
  PROVE  f \in Referred <=> /\ f = [h \in DOMAIN f |-> f[h]]
                            /\ DOMAIN f \in SUBSET Hashes
                            /\ \A h \in DOMAIN f : f[h] \in SUBSET Requests
<1>1. ASSUME f \in Referred
      PROVE  /\ f = [h \in DOMAIN f |-> f[h]]
             /\ DOMAIN f \in SUBSET Hashes
             /\ \A h \in DOMAIN f : f[h] \in SUBSET Requests
  <2>1. PICK D \in SUBSET Hashes : f \in [D -> SUBSET Requests]
    BY <1>1 DEF Referred
  <2> QED BY <2>1
<1>2. ASSUME /\ f = [h \in DOMAIN f |-> f[h]]
             /\ DOMAIN f \in SUBSET Hashes
             /\ \A h \in DOMAIN f : f[h] \in SUBSET Requests
      PROVE  f \in Referred
  <2>1. f \in [DOMAIN f -> SUBSET Requests]
    BY <1>2
  <2> QED BY <1>2, <2>1 DEF Referred
<1> QED BY <1>1, <1>2

\* The fields of the accounts.
LEMMA CacheType ==
  ASSUME NEW c \in Caches
  PROVE  /\ c = [refs |-> c.refs, freeable |-> c.freeable, freed |-> c.freed]
         /\ c.refs = [h \in Cached(c) |-> c.refs[h]]
         /\ Cached(c) \in SUBSET Hashes
         /\ \A h \in Cached(c) : c.refs[h] \in SUBSET Requests
         /\ c.freeable \in Seq(Hashes) /\ c.freed \in SUBSET Hashes
<1>1. /\ c.refs \in Referred /\ c.freeable \in Seq(Hashes)
      /\ c.freed \in SUBSET Hashes
      /\ c = [refs |-> c.refs, freeable |-> c.freeable, freed |-> c.freed]
  BY DEF Caches
<1> QED BY <1>1, RefsOf DEF Cached

\* Sizes add up.
LEMMA Sizes ==
  /\ IsFiniteSet(Hashes) /\ CacheSize \in Nat
  /\ \A h \in Hashes : HashLen[h] \in Nat /\ SlotsOf({h}) = HashLen[h]
  /\ SlotsOf({}) = 0
  /\ \A S \in SUBSET Hashes : SlotsOf(S) \in Nat
  /\ \A S, U \in SUBSET Hashes : S \intersect U = {} =>
       SlotsOf(S \union U) = SlotsOf(S) + SlotsOf(U)
<1>1. IsFiniteSet(Hashes) /\ CacheSize \in Nat /\ HashLen \in [Hashes -> Nat]
  BY EncoderAssumption DEF Hashes
<1> QED BY <1>1, SumOfParts DEF SlotsOf

\* What is taken out is not counted any more.
LEMMA SizeWithout ==
  ASSUME NEW S \in SUBSET Hashes, NEW U \in SUBSET S
  PROVE  SlotsOf(S) = SlotsOf(S \ U) + SlotsOf(U)
<1>1. /\ S \ U \in SUBSET Hashes /\ U \in SUBSET Hashes
      /\ (S \ U) \intersect U = {} /\ (S \ U) \union U = S
  OBVIOUS
<1>2. SlotsOf((S \ U) \union U) = SlotsOf(S \ U) + SlotsOf(U)
  BY <1>1, Sizes
<1> QED BY <1>1, <1>2

\* Room is an integer.
LEMMA FreeSlotsType ==
  ASSUME NEW c \in Caches
  PROVE  /\ FreeSlots(c) \in Int /\ SlotsOf(Cached(c)) \in Nat
         /\ FreeSlots(c) = CacheSize - SlotsOf(Cached(c)) /\ CacheSize \in Nat
<1>1. SlotsOf(Cached(c)) \in Nat /\ CacheSize \in Nat
  BY CacheType, Sizes
<1>2. PICK m, n \in Nat : m = SlotsOf(Cached(c)) /\ n = CacheSize
  BY <1>1
<1>3. n - m \in Int
  OBVIOUS
<1> QED BY <1>1, <1>2, <1>3 DEF FreeSlots

-----------------------------------------------------------------------------
(* EncoderCacheManager.                                                    *)

\* From c to d, r refers to the entry h as well.
Refers(c, d, r, h) ==
  \A g \in Cached(c) :
    d.refs[g] = IF g = h THEN c.refs[g] \union {r} ELSE c.refs[g]

\* check_and_update_cache refers to the entry.
LEMMA TouchedCache ==
  ASSUME NEW live \in SUBSET Requests, NEW c \in Caches, GoodCache(c, live),
         NEW r, r \in live, NEW h, h \in Cached(c), h \in HashesOf(r, Inputs(r))
  PROVE  /\ Touched(c, r, h) \in Caches
         /\ GoodCache(Touched(c, r, h), live)
         /\ Cached(Touched(c, r, h)) = Cached(c)
         /\ Touched(c, r, h).freed = c.freed
         /\ Refers(c, Touched(c, r, h), r, h)
<1>1. /\ c = [refs |-> c.refs, freeable |-> c.freeable, freed |-> c.freed]
      /\ c.refs = [g \in Cached(c) |-> c.refs[g]]
      /\ Cached(c) \in SUBSET Hashes
      /\ \A g \in Cached(c) : c.refs[g] \in SUBSET Requests
      /\ c.freed \in SUBSET Hashes
  BY CacheType
<1>2. PICK refs : refs = [g \in Cached(c) |->
                            IF g = h THEN c.refs[g] \union {r} ELSE c.refs[g]]
  OBVIOUS
<1>3. PICK line : line = Without(c.freeable, {h})
  OBVIOUS
<1>4. PICK d : d = Touched(c, r, h)
  OBVIOUS
<1>5. d = [refs |-> refs, freeable |-> line, freed |-> c.freed]
  <2>1. [c.refs EXCEPT ![h] = @ \union {r}] = refs
    BY <1>1, <1>2
  <2>2. Touched(c, r, h) = [c EXCEPT !.refs = [c.refs EXCEPT ![h] = @ \union {r}],
                                     !.freeable = line]
    BY <1>3 DEF Touched
  <2>3. d = [c EXCEPT !.refs = refs, !.freeable = line]
    BY <1>4, <2>1, <2>2
  <2> QED BY <1>1, <2>3
<1>6. d.refs = refs /\ d.freeable = line /\ d.freed = c.freed
  BY <1>5
<1>7. DOMAIN refs = Cached(c) /\ Cached(d) = Cached(c)
  BY <1>2, <1>6 DEF Cached
<1>8. IsQueue(line, Hashes) /\ ToSet(line) = ToSet(c.freeable) \ {h}
  BY <1>3, WithoutQueue DEF GoodCache
<1>9. refs \in Referred
  BY <1>1, <1>2, <1>7, RefsOf
<1>10. d \in Caches
  BY <1>1, <1>5, <1>8, <1>9 DEF Caches, IsQueue
<1>11. GoodCache(d, live)
  <2>1. ASSUME NEW g \in Cached(d), NEW q \in d.refs[g]
        PROVE  q \in live /\ g \in HashesOf(q, Inputs(q))
    <3>1. CASE q \in c.refs[g]
      BY <1>7, <3>1 DEF GoodCache
    <3>2. CASE q \notin c.refs[g]
      <4>1. g = h /\ q = r
        BY <1>2, <1>6, <1>7, <2>1, <3>2
      <4> QED BY <4>1
    <3> QED BY <3>1, <3>2
  <2>2. ToSet(line) = {g \in Cached(d) : d.refs[g] = {}}
    <3>1. \A g \in Cached(c) : d.refs[g] = {} <=> c.refs[g] = {} /\ g # h
      BY <1>2, <1>6
    <3>2. ToSet(c.freeable) = {g \in Cached(c) : c.refs[g] = {}}
      BY DEF GoodCache
    <3> QED BY <1>7, <1>8, <3>1, <3>2
  <2>3. FreeSlots(d) = FreeSlots(c)
    BY <1>7 DEF FreeSlots
  <2>4. FreeSlots(c) >= 0
    BY DEF GoodCache
  <2> QED BY <1>6, <1>8, <2>1, <2>2, <2>3, <2>4 DEF GoodCache
<1>12. Refers(c, d, r, h)
  BY <1>2, <1>6 DEF Refers
<1> QED BY <1>4, <1>6, <1>7, <1>10, <1>11, <1>12

\* Nothing enters or leaves the accounts but references.
SameEntries(c, d) == Cached(d) = Cached(c) /\ d.freed = c.freed

\* free_encoder_input: the request lets go of one entry.
LEMMA FreedOne ==
  ASSUME NEW live \in SUBSET Requests, NEW c \in Caches, GoodCache(c, live),
         NEW r, NEW h
  PROVE  /\ FreedInput(c, r, h) \in Caches
         /\ GoodCache(FreedInput(c, r, h), live)
         /\ SameEntries(c, FreedInput(c, r, h))
         /\ \A g \in Cached(c) : FreedInput(c, r, h).refs[g] =
              IF g = h THEN c.refs[g] \ {r} ELSE c.refs[g]
<1>1. /\ c = [refs |-> c.refs, freeable |-> c.freeable, freed |-> c.freed]
      /\ c.refs = [g \in Cached(c) |-> c.refs[g]]
      /\ Cached(c) \in SUBSET Hashes
      /\ \A g \in Cached(c) : c.refs[g] \in SUBSET Requests
      /\ c.freed \in SUBSET Hashes
  BY CacheType
<1>2. PICK d : d = FreedInput(c, r, h)
  OBVIOUS
<1>3. CASE h \notin Cached(c)
  <2>1. d = c
    BY <1>2, <1>3 DEF FreedInput
  <2> QED BY <1>2, <1>3, <2>1 DEF SameEntries
<1>4. CASE h \in Cached(c) /\ c.refs[h] = {}
  <2>1. d = c
    BY <1>2, <1>4 DEF FreedInput
  <2> QED BY <1>2, <1>4, <2>1 DEF SameEntries
<1>5. ASSUME h \in Cached(c), c.refs[h] # {}
      PROVE  /\ d \in Caches /\ GoodCache(d, live) /\ SameEntries(c, d)
             /\ \A g \in Cached(c) : d.refs[g] =
                  IF g = h THEN c.refs[g] \ {r} ELSE c.refs[g]
  <2>1. PICK refs : refs = [g \in Cached(c) |->
                              IF g = h THEN c.refs[g] \ {r} ELSE c.refs[g]]
    OBVIOUS
  <2>2. [c.refs EXCEPT ![h] = @ \ {r}] = refs
    BY <1>1, <1>5, <2>1
  <2>3. PICK line : line = IF c.refs[h] \ {r} = {} THEN Append(c.freeable, h)
                           ELSE c.freeable
    OBVIOUS
  <2>4. d = [refs |-> refs, freeable |-> line, freed |-> c.freed]
    <3>1. CASE c.refs[h] \ {r} = {}
      <4>1. d = [c EXCEPT !.refs = [c.refs EXCEPT ![h] = {}],
                          !.freeable = Append(c.freeable, h)]
        BY <1>2, <1>5, <3>1 DEF FreedInput
      <4>2. [c.refs EXCEPT ![h] = {}] = refs
        BY <2>2, <3>1
      <4>3. d = [c EXCEPT !.refs = refs, !.freeable = line]
        BY <2>3, <3>1, <4>1, <4>2
      <4> QED BY <1>1, <4>3
    <3>2. CASE c.refs[h] \ {r} # {}
      <4>1. d = [c EXCEPT !.refs = [c.refs EXCEPT ![h] = @ \ {r}]]
        BY <1>2, <1>5, <3>2 DEF FreedInput
      <4>2. d = [c EXCEPT !.refs = refs]
        BY <2>2, <4>1
      <4> QED BY <1>1, <2>3, <3>2, <4>2
    <3> QED BY <3>1, <3>2
  <2>5. d.refs = refs /\ d.freeable = line /\ d.freed = c.freed
    BY <2>4
  <2>6. DOMAIN refs = Cached(c) /\ Cached(d) = Cached(c)
    BY <2>1, <2>5 DEF Cached
  <2>7. ToSet(c.freeable) = {g \in Cached(c) : c.refs[g] = {}}
        /\ IsQueue(c.freeable, Hashes)
    BY DEF GoodCache
  <2>8. h \in Hashes /\ h \notin ToSet(c.freeable)
    BY <1>1, <1>5, <2>7
  <2>9. /\ IsQueue(line, Hashes)
        /\ ToSet(line) = IF c.refs[h] \ {r} = {} THEN ToSet(c.freeable) \union {h}
                         ELSE ToSet(c.freeable)
    <3>1. /\ IsQueue(Append(c.freeable, h), Hashes)
          /\ ToSet(Append(c.freeable, h)) = ToSet(c.freeable) \union {h}
      BY <2>7, <2>8, AppendToQueue
    <3> QED BY <2>3, <2>7, <3>1
  <2>10. refs \in Referred
    BY <1>1, <2>1, <2>6, RefsOf
  <2>11. d \in Caches
    BY <1>1, <2>4, <2>9, <2>10 DEF Caches, IsQueue
  <2>12. \A g \in Cached(c) : d.refs[g] =
           IF g = h THEN c.refs[g] \ {r} ELSE c.refs[g]
    BY <2>1, <2>5
  <2>13. \A g \in Cached(d) : \A q \in d.refs[g] :
           q \in live /\ g \in HashesOf(q, Inputs(q))
    BY <2>6, <2>12 DEF GoodCache
  <2>14. ToSet(line) = {g \in Cached(d) : d.refs[g] = {}}
    BY <1>5, <2>6, <2>7, <2>9, <2>12
  <2>15. FreeSlots(d) >= 0
    BY <2>6 DEF FreeSlots, GoodCache
  <2>16. GoodCache(d, live)
    BY <2>5, <2>9, <2>13, <2>14, <2>15 DEF GoodCache
  <2> QED BY <2>5, <2>6, <2>11, <2>12, <2>16 DEF SameEntries
<1> QED BY <1>2, <1>3, <1>4, <1>5

\* What FreedInputs does at one position.
LetGo(c, r, S, i) == IF i \in S THEN FreedInput(c, r, Hash(r, i)) ELSE c

LetGoSteps(v, n, c, r, S) ==
  v[0] = c /\ \A k \in 1..n : v[k] = LetGo(v[k - 1], r, S, k)

\* FreedInputs goes through the images of the request.
LEMMA FreedByPosition ==
  ASSUME NEW live \in SUBSET Requests, NEW c \in Caches, GoodCache(c, live),
         NEW r \in Requests, NEW S
  PROVE  \E n \in Nat : \E v :
           /\ Inputs(r) = 1..n
           /\ LetGoSteps(v, n, c, r, S)
           /\ FreedInputs(c, r, S) = v[n]
<1>1. PICK n \in Nat : Inputs(r) = 1..n
  <2>1. Features[r] \in Seq([hash : DOMAIN HashLen, start : Nat])
    BY EncoderAssumption
  <2>2. Len(Features[r]) \in Nat /\ DOMAIN Features[r] = 1..Len(Features[r])
    BY <2>1, LenProperties
  <2> QED BY <2>2 DEF Inputs
<1>2. PICK C : C = {d \in Caches : GoodCache(d, live)}
  OBVIOUS
<1>3. PICK g : g = [k \in 1..n |-> [d \in C |-> LetGo(d, r, S, k)]]
  OBVIOUS
<1>4. g \in [1..n -> [C -> C]] /\ c \in C
  <2>1. \A k \in 1..n : \A d \in C : LetGo(d, r, S, k) \in C
    BY <1>2, FreedOne DEF LetGo
  <2> QED BY <1>2, <1>3, <2>1
<1>5. /\ \E it \in [SUBSET (1..n) -> C] : FoldSteps(it, g, c, 1..n)
      /\ \A k \in 1..n : /\ 1..k \in SUBSET (1..n) /\ 1..k # {}
                         /\ Max(1..k) = k /\ (1..k) \ {k} = 1..(k - 1)
      /\ \A s \in SUBSET (1..n) : s # {} => Max(s) \in 1..n
      /\ 1..0 = {} /\ {} \in SUBSET (1..n) /\ 1..n \in SUBSET (1..n)
  BY <1>4, FoldByPosition
<1>6. PICK q : q = [i \in 1..n |-> i]
  OBVIOUS
<1> DEFINE Solves(it) ==
      it = [s \in SUBSET DOMAIN q |->
              IF s = {} THEN c
              ELSE IF q[Max(s)] \in S
                   THEN FreedInput(it[s \ {Max(s)}], r, Hash(r, q[Max(s)]))
                   ELSE it[s \ {Max(s)}]]
<1>7. FreedInputs(c, r, S) = (CHOOSE it : Solves(it))[DOMAIN q]
  <2>1. FreedInputs(c, r, S)
          = FoldLeft(LAMBDA d, i : IF i \in S THEN FreedInput(d, r, Hash(r, i)) ELSE d,
                     c, q)
    BY <1>1, <1>6 DEF FreedInputs
  <2> QED BY <2>1 DEF FoldLeft, MapThenFoldSet
<1>8. \E it : Solves(it)
  <2>1. PICK it \in [SUBSET (1..n) -> C] : FoldSteps(it, g, c, 1..n)
    BY <1>5
  <2>2. it = [s \in SUBSET (1..n) |->
                IF s = {} THEN c ELSE g[Max(s)][it[s \ {Max(s)}]]]
    BY <2>1 DEF FoldSteps
  <2>3. ASSUME NEW s \in SUBSET (1..n), s # {}
        PROVE  g[Max(s)][it[s \ {Max(s)}]]
                 = IF q[Max(s)] \in S
                   THEN FreedInput(it[s \ {Max(s)}], r, Hash(r, q[Max(s)]))
                   ELSE it[s \ {Max(s)}]
    <3>1. PICK m \in 1..n : m = Max(s)
      BY <1>5, <2>3
    <3>2. PICK x \in C : x = it[s \ {m}]
      BY <2>1
    <3>3. g[m][x] = LetGo(x, r, S, m) /\ q[m] = m
      BY <1>3, <1>6
    <3> QED BY <3>1, <3>2, <3>3 DEF LetGo
  <2>4. DOMAIN q = 1..n
    BY <1>6
  <2>5. it = [s \in SUBSET (1..n) |->
                IF s = {} THEN c
                ELSE IF q[Max(s)] \in S
                     THEN FreedInput(it[s \ {Max(s)}], r, Hash(r, q[Max(s)]))
                     ELSE it[s \ {Max(s)}]]
    BY <2>2, <2>3
  <2>6. Solves(it)
    BY <2>4, <2>5, Zenon
  <2> QED BY <2>6
<1>9. PICK sol : sol = (CHOOSE it : Solves(it))
  OBVIOUS
<1>10. Solves(sol)
  BY <1>8, <1>9
<1>11. sol[{}] = c /\ FreedInputs(c, r, S) = sol[1..n]
  <2>1. DOMAIN q = 1..n
    BY <1>6
  <2> QED BY <1>5, <1>7, <1>9, <1>10, <2>1
<1>12. ASSUME NEW k \in 1..n PROVE sol[1..k] = LetGo(sol[1..(k - 1)], r, S, k)
  <2>1. /\ 1..k \in SUBSET (1..n) /\ 1..k # {}
        /\ Max(1..k) = k /\ (1..k) \ {k} = 1..(k - 1)
    BY <1>5
  <2>2. DOMAIN q = 1..n /\ q[k] = k
    BY <1>6
  <2>3. PICK s : s = 1..k
    OBVIOUS
  <2>4. sol[s] = IF q[Max(s)] \in S
                 THEN FreedInput(sol[s \ {Max(s)}], r, Hash(r, q[Max(s)]))
                 ELSE sol[s \ {Max(s)}]
    BY <1>10, <2>1, <2>2, <2>3
  <2> QED BY <2>1, <2>2, <2>3, <2>4 DEF LetGo
<1>13. PICK v : v = [k \in 0..n |-> sol[1..k]]
  OBVIOUS
<1>14. v[0] = c /\ FreedInputs(c, r, S) = v[n]
  BY <1>5, <1>11, <1>13
<1>15. \A k \in 1..n : v[k] = LetGo(v[k - 1], r, S, k)
  <2>1. \A k \in 1..n : k - 1 \in 0..n /\ k \in 0..n
    OBVIOUS
  <2> QED BY <1>12, <1>13, <2>1
<1>16. LetGoSteps(v, n, c, r, S)
  BY <1>14, <1>15 DEF LetGoSteps
<1> QED BY <1>1, <1>14, <1>16

\* FreedInputs: the request lets go of the entries of those images.
LEMMA FreedSome ==
  ASSUME NEW live \in SUBSET Requests, NEW c \in Caches, GoodCache(c, live),
         NEW r \in Requests, NEW S \in SUBSET Inputs(r)
  PROVE  /\ FreedInputs(c, r, S) \in Caches
         /\ GoodCache(FreedInputs(c, r, S), live)
         /\ SameEntries(c, FreedInputs(c, r, S))
         /\ \A h \in Cached(c) : FreedInputs(c, r, S).refs[h] =
              IF h \in HashesOf(r, S) THEN c.refs[h] \ {r} ELSE c.refs[h]
<1>1. PICK n \in Nat : \E v :
           /\ Inputs(r) = 1..n
           /\ LetGoSteps(v, n, c, r, S)
           /\ FreedInputs(c, r, S) = v[n]
  BY FreedByPosition
<1>2. PICK v : /\ Inputs(r) = 1..n
               /\ v[0] = c
               /\ \A k \in 1..n : v[k] = LetGo(v[k - 1], r, S, k)
               /\ FreedInputs(c, r, S) = v[n]
  BY <1>1 DEF LetGoSteps
<1> DEFINE Done(k) ==
      /\ v[k] \in Caches /\ GoodCache(v[k], live) /\ SameEntries(c, v[k])
      /\ \A h \in Cached(c) : v[k].refs[h] =
           IF h \in HashesOf(r, {i \in S : i <= k}) THEN c.refs[h] \ {r} ELSE c.refs[h]
<1> DEFINE P == {k \in 0..n : Done(k)}
<1>3. \A i \in S : i \in Nat /\ i >= 1 /\ i <= n
  BY <1>2
<1>4. Done(0)
  <2>1. HashesOf(r, {i \in S : i <= 0}) = {}
    BY <1>3 DEF HashesOf
  <2> QED BY <1>2, <2>1 DEF SameEntries
<1>5. ASSUME NEW k \in 1..n, Done(k - 1) PROVE Done(k)
  <2>1. PICK d : d = v[k - 1]
    OBVIOUS
  <2>2. /\ d \in Caches /\ GoodCache(d, live) /\ SameEntries(c, d)
        /\ \A h \in Cached(c) : d.refs[h] =
             IF h \in HashesOf(r, {i \in S : i <= k - 1})
             THEN c.refs[h] \ {r} ELSE c.refs[h]
    BY <1>5, <2>1
  <2> HIDE DEF Done
  <2>3. v[k] = LetGo(d, r, S, k)
    BY <1>2, <2>1
  <2>4. CASE k \in S
    <3>1. PICK h : h = Hash(r, k)
      OBVIOUS
    <3>2. /\ v[k] \in Caches /\ GoodCache(v[k], live) /\ SameEntries(d, v[k])
          /\ \A g \in Cached(d) : v[k].refs[g] =
               IF g = h THEN d.refs[g] \ {r} ELSE d.refs[g]
      <4>1. v[k] = FreedInput(d, r, h)
        BY <2>3, <2>4, <3>1 DEF LetGo
      <4>2. /\ FreedInput(d, r, h) \in Caches
            /\ GoodCache(FreedInput(d, r, h), live)
            /\ SameEntries(d, FreedInput(d, r, h))
            /\ \A g \in Cached(d) : FreedInput(d, r, h).refs[g] =
                 IF g = h THEN d.refs[g] \ {r} ELSE d.refs[g]
        BY <2>2, FreedOne
      <4> QED BY <4>1, <4>2
    <3>3. Cached(d) = Cached(c) /\ SameEntries(c, v[k])
      BY <2>2, <3>2 DEF SameEntries
    <3>4. {i \in S : i <= k} = {i \in S : i <= k - 1} \union {k}
      <4>1. \A i \in S : i <= k <=> i <= k - 1 \/ i = k
        BY <1>3
      <4>2. k <= k
        OBVIOUS
      <4> QED BY <2>4, <4>1, <4>2
    <3>5. HashesOf(r, {i \in S : i <= k})
            = HashesOf(r, {i \in S : i <= k - 1}) \union {h}
      BY <3>1, <3>4 DEF HashesOf
    <3>6. \A g \in Cached(c) : v[k].refs[g] =
            IF g \in HashesOf(r, {i \in S : i <= k}) THEN c.refs[g] \ {r} ELSE c.refs[g]
      BY <2>2, <3>2, <3>3, <3>5
    <3> QED BY <3>2, <3>3, <3>6 DEF Done
  <2>5. CASE k \notin S
    <3>1. v[k] = d
      BY <2>3, <2>5 DEF LetGo
    <3>2. {i \in S : i <= k} = {i \in S : i <= k - 1}
      <4>1. \A i \in S : i <= k <=> i <= k - 1 \/ i = k
        BY <1>3
      <4> QED BY <2>5, <4>1
    <3> QED BY <2>2, <3>1, <3>2 DEF Done
  <2> QED BY <2>4, <2>5
<1> HIDE DEF Done
<1>6. \A k \in 0..n : k \in P
  <2>1. 0 \in P
    BY <1>4
  <2>2. \A k \in 1..n : k - 1 \in P => k \in P
    <3>1. \A k \in 1..n : k \in 0..n
      OBVIOUS
    <3> QED BY <1>5, <3>1
  <2> HIDE DEF P
  <2> QED BY <2>1, <2>2, PositionInduction
<1>7. Done(n)
  <2>1. n \in 0..n
    OBVIOUS
  <2> QED BY <1>6, <2>1
<1>8. {i \in S : i <= n} = S
  BY <1>3
<1> QED BY <1>2, <1>7, <1>8 DEF Done

\* free(request): no entry refers to it any more.
LEMMA FreedOnes ==
  ASSUME NEW live \in SUBSET Requests, NEW c \in Caches, GoodCache(c, live),
         NEW r \in Requests
  PROVE  /\ FreedAll(c, r) \in Caches
         /\ GoodCache(FreedAll(c, r), live \ {r})
         /\ SameEntries(c, FreedAll(c, r))
         /\ \A h \in Cached(c) : FreedAll(c, r).refs[h] = c.refs[h] \ {r}
<1>1. PICK d : d = FreedAll(c, r)
  OBVIOUS
<1>2. /\ d \in Caches /\ GoodCache(d, live) /\ SameEntries(c, d)
      /\ \A h \in Cached(c) : d.refs[h] =
           IF h \in HashesOf(r, Inputs(r)) THEN c.refs[h] \ {r} ELSE c.refs[h]
  <2>1. PICK S : S = Inputs(r)
    OBVIOUS
  <2>2. d = FreedInputs(c, r, S) /\ S \in SUBSET Inputs(r)
    BY <1>1, <2>1 DEF FreedAll
  <2>3. /\ FreedInputs(c, r, S) \in Caches
        /\ GoodCache(FreedInputs(c, r, S), live)
        /\ SameEntries(c, FreedInputs(c, r, S))
        /\ \A h \in Cached(c) : FreedInputs(c, r, S).refs[h] =
             IF h \in HashesOf(r, S) THEN c.refs[h] \ {r} ELSE c.refs[h]
    BY <2>2, FreedSome
  <2> QED BY <2>1, <2>2, <2>3
<1>3. \A h \in Cached(c) : d.refs[h] = c.refs[h] \ {r}
  BY <1>2 DEF GoodCache
<1>4. \A h \in Cached(d) : \A q \in d.refs[h] : q \in live \ {r}
  BY <1>2, <1>3 DEF GoodCache, SameEntries
<1>5. GoodCache(d, live \ {r})
  BY <1>2, <1>4 DEF GoodCache
<1> QED BY <1>1, <1>2, <1>3, <1>5

\* What may be evicted.
Idle(c) == {h \in Cached(c) : c.refs[h] = {}}

\* What may be evicted counts as room.
LEMMA IdleSlots ==
  ASSUME NEW live, NEW c \in Caches, GoodCache(c, live)
  PROVE  /\ FreeableSlots(c) = FreeSlots(c) + SlotsOf(Idle(c))
         /\ FreeableSlots(c) \in Int /\ SlotsOf(Idle(c)) \in Nat
<1>1. PICK S : S = Cached(c)
  OBVIOUS
<1>2. PICK U : U = Idle(c)
  OBVIOUS
<1>3. S \in SUBSET Hashes /\ U \in SUBSET S /\ S \ U \in SUBSET Hashes
      /\ U \in SUBSET Hashes
  BY <1>1, <1>2, CacheType DEF Idle
<1>4. {h \in Cached(c) : c.refs[h] # {}} = S \ U
  BY <1>1, <1>2 DEF Idle
<1>5. PICK all, some, none, size \in Nat :
        /\ all = SlotsOf(S) /\ some = SlotsOf(S \ U) /\ none = SlotsOf(U)
        /\ size = CacheSize
  BY <1>3, Sizes
<1>6. all = some + none
  BY <1>3, <1>5, SizeWithout
<1>7. FreeSlots(c) = size - all /\ FreeableSlots(c) = size - some
  BY <1>1, <1>4, <1>5 DEF FreeSlots, FreeableSlots
<1>8. size - some = (size - all) + none /\ size - some \in Int
  BY <1>6
<1> QED BY <1>2, <1>5, <1>7, <1>8

\* can_allocate: what it evicts nobody refers to, and then there is room.
LEMMA EvictedCache ==
  ASSUME NEW live, NEW c \in Caches, GoodCache(c, live),
         NEW needed \in Int, needed <= FreeableSlots(c)
  PROVE  /\ Evicted(c, needed) \in Caches
         /\ GoodCache(Evicted(c, needed), live)
         /\ needed <= FreeSlots(Evicted(c, needed))
         /\ \E out \in SUBSET Idle(c) :
              /\ Cached(Evicted(c, needed)) = Cached(c) \ out
              /\ Evicted(c, needed).freed = c.freed \union out
         /\ \A h \in Cached(Evicted(c, needed)) :
              Evicted(c, needed).refs[h] = c.refs[h]
<1>1. PICK line : line = c.freeable
  OBVIOUS
<1>2. /\ IsQueue(line, Hashes) /\ ToSet(line) = Idle(c)
      /\ line \in Seq(Hashes) /\ DOMAIN line = 1..Len(line) /\ Len(line) \in Nat
  BY <1>1, Members DEF GoodCache, Idle, IsQueue
<1>3. PICK n \in Nat : n = Len(line)
  BY <1>2
<1>4. PICK free \in Int : free = FreeSlots(c)
  BY FreeSlotsType
<1>5. PICK first : first = [k \in 0..n |-> {line[j] : j \in 1..k}]
  OBVIOUS
<1>6. \A k \in 0..n : /\ first[k] \in SUBSET Idle(c)
                      /\ first[k] \in SUBSET Hashes
  <2>1. \A k \in 0..n : \A j \in 1..k : j \in 1..n
    OBVIOUS
  <2>2. \A j \in 1..n : line[j] \in Idle(c)
    BY <1>2, <1>3 DEF ToSet
  <2>3. Idle(c) \in SUBSET Hashes
    BY CacheType DEF Idle
  <2> QED BY <1>5, <2>1, <2>2, <2>3
<1>7. PICK size : size = [k \in 0..n |-> SlotsOf(first[k])]
  OBVIOUS
<1>8. \A k \in 0..n : size[k] \in Nat
  BY <1>6, <1>7, Sizes
<1>9. n \in 0..n /\ needed <= free + size[n]
  <2>1. first[n] = Idle(c)
    BY <1>2, <1>3, <1>5 DEF ToSet
  <2>2. size[n] = SlotsOf(Idle(c))
    BY <1>7, <2>1
  <2> QED BY <1>4, <2>2, IdleSlots
<1> DEFINE Enough(k) == /\ needed <= free + size[k]
                        /\ k > 0 => needed > free + size[k - 1]
<1>10. \E k \in 0..n : Enough(k)
  <2> DEFINE T == {k \in 0..n : needed <= free + size[k]}
  <2>1. T \in SUBSET Nat /\ n \in T
    BY <1>9
  <2>2. PICK k \in T : \A m \in T : k <= m
    <3> HIDE DEF T
    <3> QED BY <2>1, LeastNumber
  <2>3. ASSUME k > 0 PROVE needed > free + size[k - 1]
    <3>1. k - 1 \in 0..n /\ ~(k <= k - 1)
      BY <2>3
    <3>2. ~(needed <= free + size[k - 1])
      BY <2>2, <3>1
    <3>3. size[k - 1] \in Int
      BY <1>8, <3>1
    <3> QED BY <3>2, <3>3
  <2> QED BY <2>2, <2>3
<1>11. PICK k : k = CHOOSE i \in 0..Len(c.freeable) :
             /\ needed <= FreeSlots(c)
                          + SlotsOf({c.freeable[j] : j \in 1..i})
             /\ i > 0 => needed > FreeSlots(c)
                          + SlotsOf({c.freeable[j] : j \in 1..(i - 1)})
  OBVIOUS
<1>12. k \in 0..n /\ needed <= free + size[k]
  <2>1. ASSUME NEW i \in 0..n
        PROVE  Enough(i) <=>
             /\ needed <= FreeSlots(c)
                          + SlotsOf({c.freeable[j] : j \in 1..i})
             /\ i > 0 => needed > FreeSlots(c)
                          + SlotsOf({c.freeable[j] : j \in 1..(i - 1)})
    <3>1. size[i] = SlotsOf({line[j] : j \in 1..i})
      BY <1>5, <1>7
    <3>2. ASSUME i > 0 PROVE size[i - 1] = SlotsOf({line[j] : j \in 1..(i - 1)})
      <4>1. i - 1 \in 0..n
        BY <3>2
      <4> QED BY <1>5, <1>7, <4>1
    <3> QED BY <1>1, <1>4, <3>1, <3>2
  <2> HIDE DEF Enough
  <2>2. k \in 0..n /\ Enough(k)
    BY <1>1, <1>3, <1>10, <1>11, <2>1
  <2> QED BY <2>2 DEF Enough
<1>13. PICK out : out = first[k]
  OBVIOUS
<1>14. PICK d : d = Evicted(c, needed)
  OBVIOUS
<1>15. PICK kept : kept = Cached(c) \ out
  OBVIOUS
<1>16. d = [refs |-> [h \in kept |-> c.refs[h]],
            freeable |-> SubSeq(line, k + 1, n),
            freed |-> c.freed \union out]
  <2>1. out = {c.freeable[j] : j \in 1..k}
    BY <1>1, <1>5, <1>12, <1>13
  <2>2. Evicted(c, needed) =
          [refs |-> Restrict(c.refs, Cached(c) \ {c.freeable[j] : j \in 1..k}),
           freeable |-> SubSeq(c.freeable, k + 1, Len(c.freeable)),
           freed |-> c.freed \union {c.freeable[j] : j \in 1..k}]
    BY <1>11 DEF Evicted
  <2>3. d = [refs |-> Restrict(c.refs, kept),
             freeable |-> SubSeq(line, k + 1, n),
             freed |-> c.freed \union out]
    BY <1>1, <1>3, <1>14, <1>15, <2>1, <2>2
  <2> QED BY <2>3 DEF Restrict
<1>17. /\ d.refs = [h \in kept |-> c.refs[h]] /\ Cached(d) = kept
       /\ d.freeable = SubSeq(line, k + 1, n) /\ d.freed = c.freed \union out
  BY <1>16 DEF Cached
<1>18. out \in SUBSET Idle(c) /\ out \in SUBSET Cached(c) /\ out \in SUBSET Hashes
  BY <1>6, <1>12, <1>13 DEF Idle
<1>19. /\ Cached(c) \in SUBSET Hashes /\ c.freed \in SUBSET Hashes
       /\ \A h \in Cached(c) : c.refs[h] \in SUBSET Requests
  BY CacheType
<1>20. IsQueue(d.freeable, Hashes) /\ ToSet(d.freeable) = Idle(c) \ out
  <2>1. k \in 0..Len(line)
    BY <1>3, <1>12
  <2>2. /\ IsQueue(SubSeq(line, k + 1, Len(line)), Hashes)
        /\ ToSet(SubSeq(line, k + 1, Len(line))) = ToSet(line) \ {line[j] : j \in 1..k}
    BY <1>2, <2>1, RestOfQueue
  <2>3. out = {line[j] : j \in 1..k}
    BY <1>5, <1>12, <1>13
  <2> QED BY <1>2, <1>3, <1>17, <2>2, <2>3
<1>21. d \in Caches
  <2>1. d.refs \in Referred
    BY <1>15, <1>17, <1>19, RefsOf
  <2>2. d.freeable \in Seq(Hashes) /\ d.freed \in SUBSET Hashes
    BY <1>17, <1>18, <1>19, <1>20 DEF IsQueue
  <2> QED BY <1>16, <1>17, <2>1, <2>2 DEF Caches
<1>22. FreeSlots(d) = free + size[k]
  <2>1. SlotsOf(Cached(c)) = SlotsOf(kept) + SlotsOf(out)
    BY <1>15, <1>18, <1>19, SizeWithout
  <2>2. PICK all, some, none, cap \in Nat :
          /\ all = SlotsOf(Cached(c)) /\ some = SlotsOf(kept)
          /\ none = SlotsOf(out) /\ cap = CacheSize
    <3>1. kept \in SUBSET Hashes
      BY <1>15, <1>19
    <3> QED BY <1>18, <1>19, <3>1, Sizes
  <2>3. free = cap - all /\ FreeSlots(d) = cap - some /\ size[k] = none
    BY <1>4, <1>7, <1>12, <1>13, <1>17, <2>2 DEF FreeSlots
  <2>4. all = some + none
    BY <2>1, <2>2
  <2>5. cap - some = (cap - all) + none
    BY <2>4
  <2> QED BY <2>3, <2>5
<1>23. FreeSlots(d) >= 0
  <2>1. free >= 0
    BY <1>4 DEF GoodCache
  <2>2. size[k] \in Nat
    BY <1>8, <1>12
  <2>3. free + size[k] >= 0
    BY <2>1, <2>2
  <2> QED BY <1>22, <2>3
<1>24. GoodCache(d, live)
  <2>1. \A h \in Cached(d) : h \in Cached(c) /\ d.refs[h] = c.refs[h]
    BY <1>15, <1>17
  <2>2. \A h \in Cached(d) : \A r \in d.refs[h] :
          r \in live /\ h \in HashesOf(r, Inputs(r))
    BY <2>1 DEF GoodCache
  <2>3. ToSet(d.freeable) = {h \in Cached(d) : d.refs[h] = {}}
    BY <1>15, <1>17, <1>20, <2>1 DEF Idle
  <2> QED BY <1>20, <1>23, <2>2, <2>3 DEF GoodCache
<1>25. \A h \in Cached(d) : d.refs[h] = c.refs[h]
  BY <1>17
<1>26. needed <= FreeSlots(d)
  BY <1>12, <1>22
<1> QED BY <1>14, <1>15, <1>17, <1>18, <1>21, <1>24, <1>25, <1>26

\* allocate: new images, for which there is room.
LEMMA AllocatedCache ==
  ASSUME NEW live, NEW c \in Caches, GoodCache(c, live),
         NEW r \in Requests, r \in live, NEW S \in SUBSET Inputs(r),
         NEW new, new = HashesOf(r, S), new \in SUBSET Hashes,
         new \intersect Cached(c) = {}, SlotsOf(new) <= FreeSlots(c)
  PROVE  /\ Allocated(c, r, new) \in Caches
         /\ GoodCache(Allocated(c, r, new), live)
         /\ Cached(Allocated(c, r, new)) = Cached(c) \union new
         /\ Allocated(c, r, new).freed = c.freed
         /\ \A h \in new : Allocated(c, r, new).refs[h] = {r}
         /\ \A h \in Cached(c) : Allocated(c, r, new).refs[h] = c.refs[h]
<1>1. /\ c = [refs |-> c.refs, freeable |-> c.freeable, freed |-> c.freed]
      /\ Cached(c) \in SUBSET Hashes /\ c.freed \in SUBSET Hashes
      /\ c.freeable \in Seq(Hashes)
      /\ \A h \in Cached(c) : c.refs[h] \in SUBSET Requests
  BY CacheType
<1>2. PICK d : d = Allocated(c, r, new)
  OBVIOUS
<1>3. PICK all : all = Cached(c) \union new
  OBVIOUS
<1>4. PICK refs : refs = [h \in all |-> IF h \in new THEN {r} ELSE c.refs[h]]
  OBVIOUS
<1>5. d = [refs |-> refs, freeable |-> c.freeable, freed |-> c.freed]
  <2>1. refs = [h \in Cached(c) \union new |->
                  IF h \in new THEN (IF h \in Cached(c) THEN c.refs[h]
                                     ELSE {}) \union {r}
                  ELSE c.refs[h]]
    BY <1>3, <1>4
  <2>2. Allocated(c, r, new) = [c EXCEPT !.refs = [h \in Cached(c) \union new |->
                  IF h \in new THEN (IF h \in Cached(c) THEN c.refs[h]
                                     ELSE {}) \union {r}
                  ELSE c.refs[h]]]
    BY DEF Allocated
  <2>3. d = [c EXCEPT !.refs = refs]
    BY <1>2, <2>1, <2>2
  <2> QED BY <1>1, <2>3
<1>6. /\ d.refs = refs /\ d.freeable = c.freeable /\ d.freed = c.freed
      /\ Cached(d) = all
  BY <1>4, <1>5 DEF Cached
<1>7. \A h \in new : h \in all /\ d.refs[h] = {r}
  BY <1>3, <1>4, <1>6
<1>8. \A h \in Cached(c) : h \in all /\ d.refs[h] = c.refs[h]
  BY <1>3, <1>4, <1>6
<1>9. all \in SUBSET Hashes
  BY <1>1, <1>3
<1>10. d \in Caches
  <2>1. DOMAIN refs = all /\ \A h \in all : refs[h] \in SUBSET Requests
    BY <1>1, <1>3, <1>4
  <2>2. refs = [h \in DOMAIN refs |-> refs[h]]
    BY <1>4
  <2>3. refs \in Referred
    BY <1>9, <2>1, <2>2, RefsOf
  <2> QED BY <1>1, <1>5, <2>3 DEF Caches
<1>11. \A h \in Cached(d) : \A q \in d.refs[h] :
         q \in live /\ h \in HashesOf(q, Inputs(q))
  <2>1. \A h \in new : h \in HashesOf(r, Inputs(r))
    BY DEF HashesOf
  <2> QED BY <1>3, <1>6, <1>7, <1>8, <2>1 DEF GoodCache
<1>12. ToSet(d.freeable) = {h \in Cached(d) : d.refs[h] = {}}
  <2>1. ToSet(c.freeable) = {h \in Cached(c) : c.refs[h] = {}}
    BY DEF GoodCache
  <2> QED BY <1>3, <1>6, <1>7, <1>8, <2>1
<1>13. FreeSlots(d) >= 0
  <2>1. SlotsOf(all) = SlotsOf(Cached(c)) + SlotsOf(new)
    BY <1>1, <1>3, Sizes
  <2>2. PICK a, b, n \in Nat : /\ a = SlotsOf(Cached(c)) /\ b = SlotsOf(new)
                               /\ n = CacheSize
    BY <1>1, Sizes
  <2>3. b <= n - a
    BY <2>2 DEF FreeSlots
  <2>4. n - (a + b) >= 0
    BY <2>3
  <2> QED BY <1>6, <2>1, <2>2, <2>4 DEF FreeSlots
<1>14. GoodCache(d, live)
  BY <1>6, <1>11, <1>12, <1>13 DEF GoodCache
<1> QED BY <1>2, <1>3, <1>6, <1>7, <1>8, <1>10, <1>14

-----------------------------------------------------------------------------
(* _try_schedule_encoder_inputs                                            *)

Trials ==
  [r : Requests, c : Int, n : Int, budget : Int, cache : Caches, embeds : Int,
   seen : SUBSET Hashes, inputs : SUBSET Int, done : BOOLEAN]

\* Every image it adds is new to the accounts and there is room for all.
GoodTrial(s, r, c, live) ==
  /\ s.r = r /\ s.c = c
  /\ GoodCache(s.cache, live)
  /\ s.inputs \in SUBSET Inputs(r)
  /\ s.seen = HashesOf(r, s.inputs)
  /\ s.embeds = SlotsOf(s.seen)
  /\ s.seen \intersect Cached(s.cache) = {}
  /\ s.embeds <= FreeSlots(s.cache)

\* From the accounts b to d: entries nobody refers to may go, and r may refer
\* to others.
Evolves(b, d, r) ==
  /\ Cached(d) \in SUBSET Cached(b)
  /\ \A h \in Cached(b) : b.refs[h] # {} => h \in Cached(d)
  /\ \A h \in Cached(d) : /\ b.refs[h] \in SUBSET d.refs[h]
                          /\ d.refs[h] \in SUBSET (b.refs[h] \union {r})
  /\ d.freed = b.freed \union (Cached(b) \ Cached(d))

\* Trials change the accounts step by step.
LEMMA EvolvesOn ==
  ASSUME NEW b, NEW d, NEW e, NEW r, Evolves(b, d, r), Evolves(d, e, r)
  PROVE  Evolves(b, e, r)
<1>1. Cached(e) \in SUBSET Cached(b)
  BY DEF Evolves
<1>2. ASSUME NEW h \in Cached(b), b.refs[h] # {} PROVE h \in Cached(e)
  <2>1. h \in Cached(d) /\ d.refs[h] # {}
    BY <1>2 DEF Evolves
  <2> QED BY <2>1 DEF Evolves
<1>3. ASSUME NEW h \in Cached(e)
      PROVE  b.refs[h] \in SUBSET e.refs[h] /\ e.refs[h] \in SUBSET (b.refs[h] \union {r})
  <2>1. h \in Cached(d)
    BY DEF Evolves
  <2> QED BY <2>1 DEF Evolves
<1>4. e.freed = b.freed \union (Cached(b) \ Cached(e))
  BY DEF Evolves
<1> QED BY <1>1, <1>2, <1>3, <1>4 DEF Evolves

LEMMA EvolvesSame == ASSUME NEW b, NEW r PROVE Evolves(b, b, r)
BY DEF Evolves

LEMMA TouchEvolves ==
  ASSUME NEW live \in SUBSET Requests, NEW c \in Caches, GoodCache(c, live),
         NEW r, r \in live, NEW h, h \in Cached(c), h \in HashesOf(r, Inputs(r)),
         NEW d, d = Touched(c, r, h)
  PROVE  /\ d \in Caches /\ GoodCache(d, live)
         /\ Evolves(c, d, r)
         /\ FreeSlots(d) = FreeSlots(c)
         /\ h \in Cached(d) /\ r \in d.refs[h]
<1>1. /\ d \in Caches /\ GoodCache(d, live)
      /\ Cached(d) = Cached(c) /\ d.freed = c.freed
      /\ Refers(c, d, r, h)
  BY TouchedCache
<1>2. Evolves(c, d, r)
  BY <1>1 DEF Evolves, Refers
<1>3. r \in d.refs[h]
  BY <1>1 DEF Refers
<1> QED BY <1>1, <1>2, <1>3 DEF FreeSlots

\* r has the image, or will once what it adds is encoded.
Found(s, r, i) ==
  \/ Hash(r, i) \in s.seen
  \/ Hash(r, i) \in Cached(s.cache) /\ r \in s.cache.refs[Hash(r, i)]

\* The fields of a trial.
LEMMA TrialFields ==
  ASSUME NEW s \in Trials
  PROVE  /\ s = [r |-> s.r, c |-> s.c, n |-> s.n, budget |-> s.budget,
                 cache |-> s.cache, embeds |-> s.embeds, seen |-> s.seen,
                 inputs |-> s.inputs, done |-> s.done]
         /\ s.r \in Requests /\ s.c \in Int /\ s.n \in Int /\ s.budget \in Int
         /\ s.cache \in Caches /\ s.embeds \in Int /\ s.seen \in SUBSET Hashes
         /\ s.inputs \in SUBSET Int /\ s.done \in BOOLEAN
BY DEF Trials

\* The images of a request, in the order of its prompt.
LEMMA ImageTypes ==
  ASSUME NEW r \in Requests
  PROVE  /\ \E n \in Nat : Inputs(r) = 1..n
         /\ \A i \in Inputs(r) : /\ Hash(r, i) \in Hashes
                                 /\ Start(r, i) \in Int /\ End(r, i) \in Int
         /\ \A i, j \in Inputs(r) : i <= j => Start(r, i) <= Start(r, j)
<1>1. /\ Features[r] \in Seq([hash : Hashes, start : Nat])
      /\ \A i, j \in DOMAIN Features[r] :
           i <= j => Features[r][i].start <= Features[r][j].start
  BY EncoderAssumption DEF Hashes
<1>2. Len(Features[r]) \in Nat /\ DOMAIN Features[r] = 1..Len(Features[r])
  BY <1>1, LenProperties
<1>3. \A i \in Inputs(r) : Features[r][i] \in [hash : Hashes, start : Nat]
  BY <1>1, <1>2, ElementOfSeq DEF Inputs
<1>4. ASSUME NEW i \in Inputs(r)
      PROVE  Hash(r, i) \in Hashes /\ Start(r, i) \in Int /\ End(r, i) \in Int
  <2>1. PICK f \in [hash : Hashes, start : Nat] : f = Features[r][i]
    BY <1>3
  <2>2. f.hash \in Hashes /\ f.start \in Nat
    OBVIOUS
  <2>3. Hash(r, i) = f.hash /\ Start(r, i) = f.start
    BY <2>1 DEF Hash, Start
  <2>4. PICK m \in Nat : m = HashLen[Hash(r, i)]
    BY <2>2, <2>3, Sizes
  <2> QED BY <2>2, <2>3, <2>4 DEF End
<1> QED BY <1>1, <1>2, <1>4 DEF Inputs, Start

\* What a turn at image i, from s to t, is about.
Turned(s, t, r, c, i) ==
  /\ t.n = s.n \/ t.n = 0 \/ (0 < t.n /\ t.n < s.n)
  /\ s.seen \in SUBSET t.seen
  /\ Evolves(s.cache, t.cache, r)
  /\ s.done => t = s
  /\ ~s.done /\ t.done => t.n = 0 \/ Start(r, i) >= c + t.n
  /\ ~s.done /\ t.n # 0 /\ Start(r, i) < c + t.n /\ c < End(r, i)
       => Found(t, r, i)

\* The turn stops, one way or another.
LEMMA TurnStops ==
  ASSUME NEW live, NEW r \in Requests, NEW c \in Int, NEW i \in Inputs(r),
         NEW s \in Trials, GoodTrial(s, r, c, live), ~s.done,
         NEW n \in Int, n = s.n \/ n = 0 \/ (0 < n /\ n < s.n),
         n = 0 \/ Start(r, i) >= c + n,
         NEW t, t = [s EXCEPT !.n = n, !.done = TRUE]
  PROVE  t \in Trials /\ GoodTrial(t, r, c, live) /\ Turned(s, t, r, c, i)
<1>1. /\ s = [r |-> s.r, c |-> s.c, n |-> s.n, budget |-> s.budget,
              cache |-> s.cache, embeds |-> s.embeds, seen |-> s.seen,
              inputs |-> s.inputs, done |-> s.done]
      /\ s.r \in Requests /\ s.c \in Int /\ s.budget \in Int
      /\ s.cache \in Caches /\ s.embeds \in Int /\ s.seen \in SUBSET Hashes
      /\ s.inputs \in SUBSET Int
  BY TrialFields
<1>2. t = [r |-> s.r, c |-> s.c, n |-> n, budget |-> s.budget,
           cache |-> s.cache, embeds |-> s.embeds, seen |-> s.seen,
           inputs |-> s.inputs, done |-> TRUE]
  BY <1>1
<1>3. /\ t \in Trials
      /\ t.r = s.r /\ t.c = s.c /\ t.n = n /\ t.cache = s.cache
      /\ t.embeds = s.embeds /\ t.seen = s.seen /\ t.inputs = s.inputs
      /\ t.done = TRUE
  <2>1. t \in Trials
    BY <1>1, <1>2 DEF Trials
  <2> QED BY <1>2, <2>1
<1>4. GoodTrial(t, r, c, live)
  BY <1>3 DEF GoodTrial
<1>5. Evolves(s.cache, t.cache, r)
  BY <1>3, EvolvesSame
<1>6. Start(r, i) \in Int
  BY ImageTypes
<1>7. ~(t.n # 0 /\ Start(r, i) < c + t.n)
  BY <1>3, <1>6
<1> QED BY <1>3, <1>4, <1>5, <1>7 DEF Turned

\* The turn changes the accounts only.
LEMMA TurnLooks ==
  ASSUME NEW live, NEW r \in Requests, NEW c \in Int, NEW i \in Inputs(r),
         NEW s \in Trials, GoodTrial(s, r, c, live), ~s.done,
         NEW d \in Caches, GoodCache(d, live), Evolves(s.cache, d, r),
         s.embeds <= FreeSlots(d),
         NEW t, t = [s EXCEPT !.cache = d],
         s.n # 0 /\ Start(r, i) < c + s.n /\ c < End(r, i) => Found(t, r, i)
  PROVE  t \in Trials /\ GoodTrial(t, r, c, live) /\ Turned(s, t, r, c, i)
<1>3. /\ s = [r |-> s.r, c |-> s.c, n |-> s.n, budget |-> s.budget,
              cache |-> s.cache, embeds |-> s.embeds, seen |-> s.seen,
              inputs |-> s.inputs, done |-> s.done]
      /\ s.r \in Requests /\ s.c \in Int /\ s.n \in Int /\ s.budget \in Int
      /\ s.embeds \in Int /\ s.seen \in SUBSET Hashes
      /\ s.inputs \in SUBSET Int /\ s.done \in BOOLEAN
  BY TrialFields
<1>1. t = [r |-> s.r, c |-> s.c, n |-> s.n, budget |-> s.budget,
           cache |-> d, embeds |-> s.embeds, seen |-> s.seen,
           inputs |-> s.inputs, done |-> s.done]
  BY <1>3
<1>2. /\ t \in Trials
      /\ t.r = s.r /\ t.c = s.c /\ t.n = s.n /\ t.cache = d
      /\ t.embeds = s.embeds /\ t.seen = s.seen /\ t.inputs = s.inputs
      /\ t.done = s.done
  <2>1. t \in Trials
    BY <1>3, <1>1 DEF Trials
  <2> QED BY <1>1, <2>1
<1>4. s.seen \intersect Cached(d) = {}
  BY DEF GoodTrial, Evolves
<1>5. GoodTrial(t, r, c, live)
  BY <1>2, <1>4 DEF GoodTrial
<1> QED BY <1>2, <1>5 DEF Turned

\* The turn adds the image.
LEMMA TurnAdds ==
  ASSUME NEW live, NEW r \in Requests, NEW c \in Int, NEW i \in Inputs(r),
         NEW s \in Trials, GoodTrial(s, r, c, live), ~s.done,
         NEW d \in Caches, GoodCache(d, live), Evolves(s.cache, d, r),
         NEW h \in Hashes, h = Hash(r, i), h \notin Cached(s.cache), h \notin s.seen,
         HashLen[h] + s.embeds <= FreeSlots(d),
         NEW t, t = [s EXCEPT !.cache = d, !.embeds = @ + HashLen[h],
                              !.budget = @ - HashLen[h], !.seen = @ \union {h},
                              !.inputs = @ \union {i}]
  PROVE  t \in Trials /\ GoodTrial(t, r, c, live) /\ Turned(s, t, r, c, i)
<1>1. /\ s = [r |-> s.r, c |-> s.c, n |-> s.n, budget |-> s.budget,
              cache |-> s.cache, embeds |-> s.embeds, seen |-> s.seen,
              inputs |-> s.inputs, done |-> s.done]
      /\ s.r \in Requests /\ s.c \in Int /\ s.n \in Int /\ s.budget \in Int
      /\ s.embeds \in Int /\ s.seen \in SUBSET Hashes
      /\ s.inputs \in SUBSET Int /\ s.done \in BOOLEAN
  BY TrialFields
<1>3. HashLen[h] \in Nat /\ SlotsOf({h}) = HashLen[h]
  BY Sizes
<1>4. PICK left, embeds \in Int : /\ left = s.budget - HashLen[h]
                                  /\ embeds = s.embeds + HashLen[h]
  BY <1>1, <1>3
<1>5. PICK seen, inputs : seen = s.seen \union {h} /\ inputs = s.inputs \union {i}
  OBVIOUS
<1>6. seen \in SUBSET Hashes /\ inputs \in SUBSET Int
  <2>1. PICK n \in Nat : Inputs(r) = 1..n
    BY ImageTypes
  <2>2. i \in Int
    BY <2>1
  <2> QED BY <1>1, <1>5, <2>2
<1>13. t = [s EXCEPT !.cache = d, !.embeds = embeds, !.budget = left,
                     !.seen = seen, !.inputs = inputs]
  BY <1>4, <1>5
<1>14. t = [r |-> s.r, c |-> s.c, n |-> s.n, budget |-> left,
            cache |-> d, embeds |-> embeds, seen |-> seen, inputs |-> inputs,
            done |-> s.done]
  BY <1>1, <1>13
<1>15. /\ t \in Trials
       /\ t.r = s.r /\ t.c = s.c /\ t.n = s.n /\ t.cache = d
       /\ t.embeds = embeds /\ t.seen = seen /\ t.inputs = inputs
       /\ t.done = s.done
  <2>1. t \in Trials
    BY <1>1, <1>6, <1>14 DEF Trials
  <2>2. ASSUME NEW u, u = [r |-> s.r, c |-> s.c, n |-> s.n, budget |-> left,
            cache |-> d, embeds |-> embeds, seen |-> seen, inputs |-> inputs,
            done |-> s.done]
        PROVE /\ u.r = s.r /\ u.c = s.c /\ u.n = s.n /\ u.cache = d
              /\ u.embeds = embeds /\ u.seen = seen /\ u.inputs = inputs
              /\ u.done = s.done
    BY <2>2
  <2> QED BY <1>14, <2>1, <2>2
<1>2. /\ t.r = s.r /\ t.c = s.c /\ t.n = s.n /\ t.cache = d
      /\ t.embeds = s.embeds + HashLen[h] /\ t.seen = s.seen \union {h}
      /\ t.inputs = s.inputs \union {i} /\ t.done = s.done
  BY <1>4, <1>5, <1>15
<1>7. t.seen \intersect Cached(d) = {}
  BY <1>2 DEF GoodTrial, Evolves
<1>8. t.embeds = SlotsOf(t.seen)
  <2>1. s.seen \in SUBSET Hashes /\ {h} \in SUBSET Hashes /\ s.seen \intersect {h} = {}
    BY TrialFields
  <2>2. SlotsOf(s.seen \union {h}) = SlotsOf(s.seen) + SlotsOf({h})
    BY <2>1, Sizes
  <2> QED BY <1>2, <1>3, <2>2 DEF GoodTrial
<1>9. t.seen = HashesOf(r, t.inputs) /\ t.inputs \in SUBSET Inputs(r)
  BY <1>2 DEF GoodTrial, HashesOf
<1>10. t.embeds <= FreeSlots(d)
  <2>1. PICK a, b \in Int : a = s.embeds /\ b = HashLen[h]
    BY <1>3, TrialFields
  <2> QED BY <1>2, <2>1
<1>11. GoodTrial(t, r, c, live)
  BY <1>2, <1>7, <1>8, <1>9, <1>10 DEF GoodTrial
<1>12. Found(t, r, i)
  BY <1>2 DEF Found
<1>16. s.seen \in SUBSET t.seen
  BY <1>2
<1>17. Evolves(s.cache, t.cache, r)
  BY <1>2
<1> QED BY <1>2, <1>11, <1>12, <1>15, <1>16, <1>17 DEF Turned

\* One turn of the loop, whatever it finds.
LEMMA OneTurn ==
  ASSUME NEW live \in SUBSET Requests, NEW r \in Requests, r \in live,
         NEW c \in Int, NEW i \in Inputs(r),
         NEW s \in Trials, GoodTrial(s, r, c, live)
  PROVE  /\ Turn(r, c, s, i) \in Trials
         /\ GoodTrial(Turn(r, c, s, i), r, c, live)
         /\ Turned(s, Turn(r, c, s, i), r, c, i)
<1>1. PICK t : t = Turn(r, c, s, i)
  OBVIOUS
<1>2. PICK h \in Hashes : h = Hash(r, i)
  BY ImageTypes
<1>3. PICK at, end \in Int : at = Start(r, i) /\ end = End(r, i)
  BY ImageTypes
<1>4. PICK room : room = Evicted(s.cache, HashLen[h] + s.embeds)
  OBVIOUS
<1>5. Shift \in {0, 1}
  BY EncoderAssumption
<1>6. /\ s = [r |-> s.r, c |-> s.c, n |-> s.n, budget |-> s.budget,
              cache |-> s.cache, embeds |-> s.embeds, seen |-> s.seen,
              inputs |-> s.inputs, done |-> s.done]
      /\ s.n \in Int /\ s.cache \in Caches /\ s.embeds \in Int
      /\ s.seen \in SUBSET Hashes /\ s.done \in BOOLEAN
  BY TrialFields
<1>7. GoodCache(s.cache, live) /\ s.embeds <= FreeSlots(s.cache)
  BY DEF GoodTrial
<1>8. CASE s.done
  <2>1. t = s
    BY <1>1, <1>8 DEF Turn
  <2>2. Turned(s, s, r, c, i)
    BY <1>8, EvolvesSame DEF Turned
  <2> QED BY <1>1, <2>1, <2>2
<1>9. CASE ~s.done /\ at >= c + s.n + Shift
  <2>1. t = [s EXCEPT !.done = TRUE]
    BY <1>1, <1>3, <1>9 DEF Turn
  <2>2. t = [s EXCEPT !.n = s.n, !.done = TRUE]
    BY <1>6, <2>1
  <2>3. Start(r, i) >= c + s.n
    BY <1>3, <1>5, <1>6, <1>9
  <2>4. t \in Trials /\ GoodTrial(t, r, c, live) /\ Turned(s, t, r, c, i)
    BY <1>6, <1>9, <2>2, <2>3, TurnStops
  <2> QED BY <1>1, <2>4
<1> DEFINE Near == ~s.done /\ ~(at >= c + s.n + Shift)
<1>10. CASE Near /\ (end <= c \/ h \in s.seen)
  <2>1. t = s
    BY <1>1, <1>2, <1>3, <1>10 DEF Turn
  <2>2. t = [s EXCEPT !.cache = s.cache]
    BY <1>6, <2>1
  <2>3. s.n # 0 /\ Start(r, i) < c + s.n /\ c < End(r, i) => Found(t, r, i)
    BY <1>2, <1>3, <1>10, <2>1 DEF Found
  <2>4. Evolves(s.cache, s.cache, r)
    BY EvolvesSame
  <2>5. t \in Trials /\ GoodTrial(t, r, c, live) /\ Turned(s, t, r, c, i)
    BY <1>6, <1>7, <1>10, <2>2, <2>3, <2>4, TurnLooks
  <2> QED BY <1>1, <2>5
<1> DEFINE Fresh == Near /\ ~(end <= c \/ h \in s.seen)
<1>11. CASE Fresh /\ h \in Cached(s.cache)
  <2>1. PICK d : d = Touched(s.cache, r, h)
    OBVIOUS
  <2>2. t = [s EXCEPT !.cache = d]
    BY <1>1, <1>2, <1>3, <1>11, <2>1 DEF Turn
  <2>3. /\ d \in Caches /\ GoodCache(d, live) /\ Evolves(s.cache, d, r)
        /\ FreeSlots(d) = FreeSlots(s.cache)
        /\ h \in Cached(d) /\ r \in d.refs[h]
    <3>1. PICK b \in Caches : b = s.cache
      BY <1>6
    <3>2. GoodCache(b, live) /\ h \in Cached(b) /\ d = Touched(b, r, h)
      BY <1>7, <1>11, <2>1, <3>1
    <3>3. h \in HashesOf(r, Inputs(r))
      BY <1>2 DEF HashesOf
    <3>4. /\ d \in Caches /\ GoodCache(d, live) /\ Evolves(b, d, r)
          /\ FreeSlots(d) = FreeSlots(b)
          /\ h \in Cached(d) /\ r \in d.refs[h]
      BY <3>2, <3>3, TouchEvolves
    <3> QED BY <3>1, <3>4
  <2>5. s.embeds <= FreeSlots(d)
    BY <1>7, <2>3
  <2>6. t.cache = d
    BY <1>6, <2>2
  <2>7. Found(t, r, i)
    BY <1>2, <1>11, <2>3, <2>6 DEF Found
  <2>8. t \in Trials /\ GoodTrial(t, r, c, live) /\ Turned(s, t, r, c, i)
    BY <1>11, <2>2, <2>3, <2>5, <2>7, TurnLooks
  <2> QED BY <1>1, <2>8
<1> DEFINE Missing == Fresh /\ h \notin Cached(s.cache)
           Refused == \/ DisableChunked /\ c < at /\ c + s.n < end
                      \/ ~CanAllocate(s, h)
<1>12. CASE Missing /\ Refused
  <2>1. PICK n : n = Before(c, at)
    OBVIOUS
  <2>2. t = [s EXCEPT !.n = n, !.done = TRUE]
    BY <1>1, <1>2, <1>3, <1>12, <2>1 DEF Turn, Stop
  <2>3. n = IF c + Shift < at THEN at - (c + Shift) ELSE 0
    BY <2>1 DEF Before
  <2>4. at < c + s.n + Shift
    BY <1>3, <1>5, <1>6, <1>12
  <2>5. n \in Int /\ (n = s.n \/ n = 0 \/ (0 < n /\ n < s.n))
    BY <1>3, <1>5, <1>6, <2>3, <2>4
  <2>6. n = 0 \/ at >= c + n
    BY <1>3, <1>5, <1>6, <2>3, <2>4
  <2>7. n = 0 \/ Start(r, i) >= c + n
    BY <1>3, <2>6
  <2>8. ~s.done
    BY <1>12
  <2>9. t \in Trials /\ GoodTrial(t, r, c, live) /\ Turned(s, t, r, c, i)
    BY <2>2, <2>5, <2>7, <2>8, TurnStops
  <2> QED BY <1>1, <2>9
<1>13. ASSUME Missing, ~Refused
       PROVE  /\ room \in Caches /\ GoodCache(room, live)
              /\ HashLen[h] + s.embeds <= FreeSlots(room)
              /\ Evolves(s.cache, room, r)
  <2>1. PICK needed : needed = HashLen[h] + s.embeds
    OBVIOUS
  <2>9. HashLen[h] \in Nat
    BY Sizes
  <2>2. needed \in Int
    BY <1>6, <2>1, <2>9
  <2>3. needed <= FreeableSlots(s.cache)
    BY <1>13, <2>1 DEF CanAllocate
  <2>4. room = Evicted(s.cache, needed)
    BY <1>4, <2>1
  <2>5. /\ room \in Caches /\ GoodCache(room, live)
        /\ needed <= FreeSlots(room)
        /\ \E out \in SUBSET Idle(s.cache) :
              /\ Cached(room) = Cached(s.cache) \ out
              /\ room.freed = s.cache.freed \union out
        /\ \A g \in Cached(room) : room.refs[g] = s.cache.refs[g]
    BY <1>6, <1>7, <2>2, <2>3, <2>4, EvictedCache
  <2>6. PICK out \in SUBSET Idle(s.cache) :
              /\ Cached(room) = Cached(s.cache) \ out
              /\ room.freed = s.cache.freed \union out
    BY <2>5
  <2>7. Cached(s.cache) \ Cached(room) = out
    BY <2>6 DEF Idle
  <2>8. Evolves(s.cache, room, r)
    BY <2>5, <2>6, <2>7 DEF Evolves, Idle
  <2> QED BY <2>1, <2>5, <2>8
<1>14. CASE Missing /\ ~Refused /\ at >= c + s.n
  <2>1. t = [s EXCEPT !.cache = room]
    BY <1>1, <1>2, <1>3, <1>4, <1>14 DEF Turn
  <2>2. s.embeds <= FreeSlots(room)
    <3>3. HashLen[h] \in Nat
      BY Sizes
    <3>4. room \in Caches
      BY <1>13, <1>14
    <3>5. FreeSlots(room) \in Int
      BY <3>4, FreeSlotsType
    <3>1. PICK a \in Nat, b, f \in Int :
            a = HashLen[h] /\ b = s.embeds /\ f = FreeSlots(room)
      BY <1>6, <3>3, <3>5
    <3>2. a + b <= f
      BY <1>13, <1>14, <3>1
    <3> QED BY <3>1, <3>2
  <2>3. ~(Start(r, i) < c + s.n)
    BY <1>3, <1>6, <1>14
  <2>4. ~s.done
    BY <1>14
  <2>5. t \in Trials /\ GoodTrial(t, r, c, live) /\ Turned(s, t, r, c, i)
    BY <1>13, <1>14, <2>1, <2>2, <2>3, <2>4, TurnLooks
  <2> QED BY <1>1, <2>5
<1>15. CASE Missing /\ ~Refused /\ ~(at >= c + s.n)
  <2>1. t = [s EXCEPT !.cache = room, !.embeds = @ + HashLen[h],
                      !.budget = @ - HashLen[h], !.seen = @ \union {h},
                      !.inputs = @ \union {i}]
    BY <1>1, <1>2, <1>3, <1>4, <1>15 DEF Turn
  <2>2. ~s.done /\ h \notin Cached(s.cache) /\ h \notin s.seen
    BY <1>15
  <2>3. /\ room \in Caches /\ GoodCache(room, live)
        /\ HashLen[h] + s.embeds <= FreeSlots(room)
        /\ Evolves(s.cache, room, r)
    BY <1>13, <1>15
  <2>4. t \in Trials /\ GoodTrial(t, r, c, live) /\ Turned(s, t, r, c, i)
    BY <1>2, <2>1, <2>2, <2>3, TurnAdds
  <2> QED BY <1>1, <2>4
<1> QED BY <1>8, <1>9, <1>10, <1>11, <1>12, <1>14, <1>15

\* The turns at all images of r, from start on.
Turns(r, c, start) ==
  FoldLeft(LAMBDA s, i : Turn(r, c, s, i), start, [i \in Inputs(r) |-> i])

TurnSteps(v, n, start, r, c) ==
  v[0] = start /\ \A k \in 1..n : v[k] = Turn(r, c, v[k - 1], k)

\* The loop goes from image to image.
LEMMA TurnsByPosition ==
  ASSUME NEW live \in SUBSET Requests, NEW r \in Requests, r \in live,
         NEW c \in Int, NEW start \in Trials, GoodTrial(start, r, c, live)
  PROVE  \E n \in Nat : \E v :
           /\ Inputs(r) = 1..n
           /\ TurnSteps(v, n, start, r, c)
           /\ Turns(r, c, start) = v[n]
<1>1. PICK n \in Nat : Inputs(r) = 1..n
  BY ImageTypes
<1>2. PICK C : C = {s \in Trials : GoodTrial(s, r, c, live)}
  OBVIOUS
<1>3. PICK g : g = [k \in 1..n |-> [s \in C |-> Turn(r, c, s, k)]]
  OBVIOUS
<1>4. g \in [1..n -> [C -> C]] /\ start \in C
  <2>1. \A k \in 1..n : \A s \in C : Turn(r, c, s, k) \in C
    BY <1>1, <1>2, OneTurn
  <2> QED BY <1>2, <1>3, <2>1
<1>5. /\ \E it \in [SUBSET (1..n) -> C] : FoldSteps(it, g, start, 1..n)
      /\ \A k \in 1..n : /\ 1..k \in SUBSET (1..n) /\ 1..k # {}
                         /\ Max(1..k) = k /\ (1..k) \ {k} = 1..(k - 1)
      /\ \A s \in SUBSET (1..n) : s # {} => Max(s) \in 1..n
      /\ 1..0 = {} /\ {} \in SUBSET (1..n) /\ 1..n \in SUBSET (1..n)
  BY <1>4, FoldByPosition
<1>6. PICK q : q = [i \in 1..n |-> i]
  OBVIOUS
<1> DEFINE Solves(it) ==
      it = [s \in SUBSET DOMAIN q |->
              IF s = {} THEN start
              ELSE Turn(r, c, it[s \ {Max(s)}], q[Max(s)])]
<1>7. Turns(r, c, start) = (CHOOSE it : Solves(it))[DOMAIN q]
  <2>1. Turns(r, c, start) = FoldLeft(LAMBDA s, i : Turn(r, c, s, i), start, q)
    BY <1>1, <1>6 DEF Turns
  <2> QED BY <2>1 DEF FoldLeft, MapThenFoldSet
<1>8. \E it : Solves(it)
  <2>1. PICK it \in [SUBSET (1..n) -> C] : FoldSteps(it, g, start, 1..n)
    BY <1>5
  <2>2. it = [s \in SUBSET (1..n) |->
                IF s = {} THEN start ELSE g[Max(s)][it[s \ {Max(s)}]]]
    BY <2>1 DEF FoldSteps
  <2>3. ASSUME NEW s \in SUBSET (1..n), s # {}
        PROVE  g[Max(s)][it[s \ {Max(s)}]]
                 = Turn(r, c, it[s \ {Max(s)}], q[Max(s)])
    <3>1. PICK m \in 1..n : m = Max(s)
      BY <1>5, <2>3
    <3>2. PICK x \in C : x = it[s \ {m}]
      BY <2>1
    <3>3. g[m][x] = Turn(r, c, x, m) /\ q[m] = m
      BY <1>3, <1>6
    <3> QED BY <3>1, <3>2, <3>3
  <2>4. DOMAIN q = 1..n
    BY <1>6
  <2>5. it = [s \in SUBSET (1..n) |->
                IF s = {} THEN start
                ELSE Turn(r, c, it[s \ {Max(s)}], q[Max(s)])]
    BY <2>2, <2>3
  <2>6. Solves(it)
    BY <2>4, <2>5, Zenon
  <2> QED BY <2>6
<1>9. PICK sol : sol = (CHOOSE it : Solves(it))
  OBVIOUS
<1>10. Solves(sol)
  BY <1>8, <1>9
<1>11. sol[{}] = start /\ Turns(r, c, start) = sol[1..n]
  <2>1. DOMAIN q = 1..n
    BY <1>6
  <2> QED BY <1>5, <1>7, <1>9, <1>10, <2>1
<1>12. ASSUME NEW k \in 1..n PROVE sol[1..k] = Turn(r, c, sol[1..(k - 1)], k)
  <2>1. /\ 1..k \in SUBSET (1..n) /\ 1..k # {}
        /\ Max(1..k) = k /\ (1..k) \ {k} = 1..(k - 1)
    BY <1>5
  <2>2. DOMAIN q = 1..n /\ q[k] = k
    BY <1>6
  <2>3. PICK s : s = 1..k
    OBVIOUS
  <2>4. sol[s] = Turn(r, c, sol[s \ {Max(s)}], q[Max(s)])
    BY <1>10, <2>1, <2>2, <2>3
  <2> QED BY <2>1, <2>2, <2>3, <2>4
<1>13. PICK v : v = [k \in 0..n |-> sol[1..k]]
  OBVIOUS
<1>14. v[0] = start /\ Turns(r, c, start) = v[n]
  BY <1>5, <1>11, <1>13
<1>15. \A k \in 1..n : v[k] = Turn(r, c, v[k - 1], k)
  <2>1. \A k \in 1..n : k - 1 \in 0..n /\ k \in 0..n
    OBVIOUS
  <2> QED BY <1>12, <1>13, <2>1
<1>16. TurnSteps(v, n, start, r, c)
  BY <1>14, <1>15 DEF TurnSteps
<1> QED BY <1>1, <1>14, <1>16

\* r has image i within the n positions after c.
Needed(r, i, c, n) == Start(r, i) < c + n /\ c < End(r, i)

\* An image that was found stays found.
LEMMA FoundKept ==
  ASSUME NEW r, NEW i, NEW s, NEW t, Found(s, r, i), s.seen \in SUBSET t.seen,
         Evolves(s.cache, t.cache, r)
  PROVE  Found(t, r, i)
<1>1. CASE Hash(r, i) \in s.seen
  BY <1>1 DEF Found
<1>2. CASE Hash(r, i) \in Cached(s.cache) /\ r \in s.cache.refs[Hash(r, i)]
  BY <1>2 DEF Found, Evolves
<1> QED BY <1>1, <1>2 DEF Found

\* After the turns at the first k images: what is needed of them is found; a
\* trial that is done needs none of those that follow.
AfterTurns(b, s, r, c, k, live) ==
  /\ s \in Trials /\ GoodTrial(s, r, c, live) /\ Evolves(b, s.cache, r)
  /\ \A i \in Inputs(r) :
       i <= k /\ s.n # 0 /\ Needed(r, i, c, s.n) => Found(s, r, i)
  /\ s.done => s.n = 0 \/ \A i \in Inputs(r) : k <= i => Start(r, i) >= c + s.n

\* The next image.
LEMMA NextTurn ==
  ASSUME NEW live \in SUBSET Requests, NEW r \in Requests, r \in live,
         NEW c \in Int, NEW b, NEW k \in Inputs(r), k - 1 \in Nat,
         NEW s, AfterTurns(b, s, r, c, k - 1, live),
         NEW t, t = Turn(r, c, s, k)
  PROVE  AfterTurns(b, t, r, c, k, live)
<1>1. s \in Trials /\ GoodTrial(s, r, c, live) /\ Evolves(b, s.cache, r)
  BY DEF AfterTurns
<1>2. t \in Trials /\ GoodTrial(t, r, c, live) /\ Turned(s, t, r, c, k)
  BY <1>1, OneTurn
<1>3. s.n \in Int /\ t.n \in Int /\ s.done \in BOOLEAN
  BY <1>1, <1>2, TrialFields
<1>4. Evolves(b, t.cache, r)
  BY <1>1, <1>2, EvolvesOn DEF Turned
<1>5. /\ \A i \in Inputs(r) : i \in Int /\ Start(r, i) \in Int /\ End(r, i) \in Int
      /\ \A i, j \in Inputs(r) : i <= j => Start(r, i) <= Start(r, j)
  BY ImageTypes
<1>6. CASE s.done
  <2>1. t = s
    BY <1>2, <1>6 DEF Turned
  <2>2. ASSUME s.n # 0, NEW i \in Inputs(r), k - 1 <= i
        PROVE  Start(r, i) >= c + s.n
    BY <1>6, <2>2 DEF AfterTurns
  <2>3. ASSUME NEW i \in Inputs(r), i <= k, s.n # 0, Needed(r, i, c, s.n)
        PROVE  Found(s, r, i)
    <3>1. CASE i <= k - 1
      BY <2>3, <3>1 DEF AfterTurns
    <3>2. CASE ~(i <= k - 1)
      <4>1. k - 1 <= i
        BY <1>5, <3>2
      <4>2. Start(r, i) >= c + s.n
        BY <2>2, <2>3, <4>1
      <4>3. Start(r, i) < c + s.n
        BY <2>3 DEF Needed
      <4> QED BY <1>3, <1>5, <4>2, <4>3
    <3> QED BY <3>1, <3>2
  <2>4. ASSUME s.n # 0, NEW i \in Inputs(r), k <= i PROVE Start(r, i) >= c + s.n
    <3>1. k - 1 <= i
      BY <1>5, <2>4
    <3> QED BY <2>2, <2>4, <3>1
  <2> QED BY <1>1, <2>1, <2>3, <2>4 DEF AfterTurns
<1>7. CASE ~s.done
  <2>1. /\ t.n = s.n \/ t.n = 0 \/ (0 < t.n /\ t.n < s.n)
        /\ s.seen \in SUBSET t.seen
        /\ Evolves(s.cache, t.cache, r)
        /\ t.done => t.n = 0 \/ Start(r, k) >= c + t.n
        /\ t.n # 0 /\ Needed(r, k, c, t.n) => Found(t, r, k)
    BY <1>2, <1>7 DEF Turned, Needed
  <2>2. ASSUME NEW i \in Inputs(r), i <= k, t.n # 0, Needed(r, i, c, t.n)
        PROVE  Found(t, r, i)
    <3>1. CASE i = k
      BY <2>1, <2>2, <3>1
    <3>2. CASE i # k
      <4>1. i <= k - 1
        BY <1>5, <2>2, <3>2
      <4>2. s.n # 0 /\ Needed(r, i, c, s.n)
        BY <1>3, <1>5, <2>1, <2>2 DEF Needed
      <4>3. Found(s, r, i)
        BY <4>1, <4>2 DEF AfterTurns
      <4> QED BY <2>1, <4>3, FoundKept
    <3> QED BY <3>1, <3>2
  <2>3. ASSUME t.done, t.n # 0, NEW i \in Inputs(r), k <= i
        PROVE  Start(r, i) >= c + t.n
    <3>1. Start(r, k) >= c + t.n /\ Start(r, k) <= Start(r, i)
      BY <1>5, <2>1, <2>3
    <3> QED BY <1>3, <1>5, <3>1
  <2> QED BY <1>2, <1>4, <2>2, <2>3 DEF AfterTurns
<1> QED BY <1>3, <1>6, <1>7

\* What _try_schedule_encoder_inputs returns.
LEMMA Tried ==
  ASSUME NEW live \in SUBSET Requests, NEW r \in Requests, r \in live,
         NEW c \in Int, NEW n \in Int, budget \in Int, cache \in Caches,
         GoodCache(cache, live), NEW t, t = Try(r, c, n)
  PROVE  /\ t \in Trials /\ GoodTrial(t, r, c, live)
         /\ Evolves(cache, t.cache, r)
         /\ \A i \in Inputs(r) :
              t.n # 0 /\ Needed(r, i, c, t.n) => Found(t, r, i)
<1>1. PICK start : start = [r |-> r, c |-> c, n |-> n, budget |-> budget,
                            cache |-> cache, embeds |-> 0, seen |-> {},
                            inputs |-> {}, done |-> FALSE]
  OBVIOUS
<1>2. start \in Trials
  BY <1>1 DEF Trials
<1>3. /\ start.r = r /\ start.c = c /\ start.n = n /\ start.cache = cache
      /\ start.embeds = 0 /\ start.seen = {} /\ start.inputs = {}
      /\ start.done = FALSE
  BY <1>1
<1>4. GoodTrial(start, r, c, live)
  <2>1. HashesOf(r, {}) = {} /\ SlotsOf({}) = 0
    BY Sizes DEF HashesOf
  <2>2. 0 <= FreeSlots(cache)
    BY FreeSlotsType DEF GoodCache
  <2> QED BY <1>3, <2>1, <2>2 DEF GoodTrial
<1>5. PICK m \in Nat : \E v : /\ Inputs(r) = 1..m
                              /\ TurnSteps(v, m, start, r, c)
                              /\ Turns(r, c, start) = v[m]
  BY <1>2, <1>4, TurnsByPosition
<1>6. PICK v : /\ Inputs(r) = 1..m
               /\ v[0] = start
               /\ \A k \in 1..m : v[k] = Turn(r, c, v[k - 1], k)
               /\ Turns(r, c, start) = v[m]
  BY <1>5 DEF TurnSteps
<1>7. AfterTurns(cache, v[0], r, c, 0, live)
  <2>1. Evolves(cache, start.cache, r)
    BY <1>3, EvolvesSame
  <2>2. \A i \in Inputs(r) : ~(i <= 0)
    BY <1>6
  <2>3. AfterTurns(cache, start, r, c, 0, live)
    BY <1>2, <1>3, <1>4, <2>1, <2>2 DEF AfterTurns
  <2> QED BY <1>6, <2>3
<1>8. ASSUME NEW k \in 1..m, AfterTurns(cache, v[k - 1], r, c, k - 1, live)
      PROVE  AfterTurns(cache, v[k], r, c, k, live)
  <2>1. k - 1 \in Nat /\ k \in Inputs(r)
    BY <1>6
  <2>2. v[k] = Turn(r, c, v[k - 1], k)
    BY <1>6
  <2> QED BY <1>8, <2>1, <2>2, NextTurn
<1> DEFINE P == {k \in 0..m : AfterTurns(cache, v[k], r, c, k, live)}
<1>9. \A k \in 0..m : k \in P
  <2>1. 0 \in P
    BY <1>7
  <2>2. \A k \in 1..m : k - 1 \in P => k \in P
    <3>1. \A k \in 1..m : k \in 0..m
      OBVIOUS
    <3> QED BY <1>8, <3>1
  <2> HIDE DEF P
  <2> QED BY <2>1, <2>2, PositionInduction
<1>10. AfterTurns(cache, v[m], r, c, m, live)
  <2>1. m \in 0..m
    OBVIOUS
  <2> QED BY <1>9, <2>1
<1>11. \A i \in Inputs(r) : i <= m
  BY <1>6
<1>12. Try(r, c, n) = IF n = 0 THEN start ELSE v[m]
  BY <1>1, <1>6 DEF Try, Turns
<1>13. CASE n = 0
  <2>1. t = start
    BY <1>12, <1>13
  <2>2. Evolves(cache, start.cache, r)
    BY <1>3, EvolvesSame
  <2> QED BY <1>2, <1>3, <1>4, <1>13, <2>1, <2>2
<1>14. CASE n # 0
  <2>1. t = v[m]
    BY <1>12, <1>14
  <2> QED BY <1>10, <1>11, <2>1 DEF AfterTurns
<1> QED BY <1>13, <1>14

-----------------------------------------------------------------------------
(* The inductive invariant.                                                *)

Live == {r \in Requests : status[r] \in {"WAITING", "RUNNING"}}

Queued ==
  /\ status \in [Requests -> {"NEW", "WAITING", "RUNNING", "FINISHED"}]
  /\ IsQueue(running, Requests) /\ IsQueue(waiting, Requests)
  /\ ToSet(running) = {r \in Requests : status[r] = "RUNNING"}
  /\ ToSet(waiting) = {r \in Requests : status[r] = "WAITING"}

Counted ==
  /\ computed \in [Requests -> Int]
  /\ tokens \in Int /\ budget \in Int /\ cursor \in Nat /\ cursor > 0

Accounted ==
  /\ cache \in Caches
  /\ GoodCache(cache, Live)
  /\ phase = "idle" => cache.freed = {} /\ step = EmptyStep /\ trial = None

Rows == {s \in Seq(Requests) : IsQueue(s, Requests)}
Counts == UNION {[D -> Int] : D \in SUBSET Requests}
Images == UNION {[D -> SUBSET Int] : D \in SUBSET Requests}
Steps == [n : Counts, rows : Rows, inputs : Images, preempted : BOOLEAN]

\* The image of hash h is in the accounts, and r refers to it.
Holds(c, r, h) == h \in Cached(c) /\ r \in c.refs[h]

\* What the rows of a step encode and gather is in the accounts for them.
RowsStand(s, c, from) ==
  /\ s \in Steps
  /\ DOMAIN s.inputs = DOMAIN s.n
  /\ ToSet(s.rows) = DOMAIN s.n
  /\ \A r \in DOMAIN s.n :
       /\ s.inputs[r] \in SUBSET Inputs(r)
       /\ \A i \in Inputs(r) :
            i \in s.inputs[r] \/ Needed(r, i, from[r], s.n[r])
              => Holds(c, r, Hash(r, i))

\* The rows of the step are running, and have had their turn.
StepStands ==
  /\ RowsStand(step, cache, computed)
  /\ DOMAIN step.n \in SUBSET ToSet(running)
  /\ phase = "running" =>
       \A k \in 1..Len(running) : cursor <= k => running[k] \notin DOMAIN step.n

\* What a trial at position c of r would add is new to the accounts d, and
\* there is room for it; what it needs besides is there.
GoodFor(t, r, c, d) ==
  /\ t \in Trials /\ t.n # 0 /\ t.r = r /\ t.c = c
  /\ t.inputs \in SUBSET Inputs(r)
  /\ t.seen = HashesOf(r, t.inputs)
  /\ t.embeds = SlotsOf(t.seen)
  /\ t.seen \intersect Cached(d) = {}
  /\ t.embeds <= FreeSlots(d)
  /\ \A i \in Inputs(r) :
       Needed(r, i, c, t.n) => Hash(r, i) \in t.seen \/ Holds(d, r, Hash(r, i))

TrialStands ==
  trial # None =>
    /\ phase = "running"
    /\ cursor <= Len(running)
    /\ GoodFor(trial, running[cursor], computed[running[cursor]], cache)

FrameSet ==
  [n : Counts, rows : Rows, inputs : Images, freed : SUBSET Hashes,
   computed : [Requests -> Int]]

\* What the worker will hold after each frame under way: what the frame
\* gathers and, in the end and once this step is executed, what is counted.
Follows(w, fs, h, c, s) ==
  /\ w[0] = h
  /\ \A k \in 1..Len(fs) : /\ w[k] = HeldAfter(fs[k], w[k - 1])
                           /\ Gathered(fs[k]) \in SUBSET w[k]
  /\ (w[Len(fs)] \ c.freed) \union EncodedBy(s) = Cached(c)

UnderWay ==
  /\ frames \in Seq(FrameSet) /\ results \in Seq(FrameSet)
  /\ \E w \in [0..Len(frames) -> SUBSET Hashes] :
       Follows(w, frames, held, cache, step)
  /\ ~missed

EncoderInv ==
  Queued /\ Counted /\ Accounted /\ StepStands /\ TrialStands /\ UnderWay

-----------------------------------------------------------------------------
(* How its parts are kept.                                                 *)

\* Accounts that are good for some are good for more.
LEMMA GoodInMore ==
  ASSUME NEW c, NEW live, NEW more, GoodCache(c, live), live \in SUBSET more
  PROVE  GoodCache(c, more)
BY DEF GoodCache

\* A partial function, on some of the requests.
LEMMA Partial ==
  ASSUME NEW V, NEW f
  PROVE  f \in UNION {[D -> V] : D \in SUBSET Requests} <=>
           /\ f = [r \in DOMAIN f |-> f[r]]
           /\ DOMAIN f \in SUBSET Requests
           /\ \A r \in DOMAIN f : f[r] \in V
<1>1. ASSUME f \in UNION {[D -> V] : D \in SUBSET Requests}
      PROVE  /\ f = [r \in DOMAIN f |-> f[r]]
             /\ DOMAIN f \in SUBSET Requests
             /\ \A r \in DOMAIN f : f[r] \in V
  <2>1. PICK D \in SUBSET Requests : f \in [D -> V]
    BY <1>1
  <2> QED BY <2>1
<1>2. ASSUME /\ f = [r \in DOMAIN f |-> f[r]]
             /\ DOMAIN f \in SUBSET Requests
             /\ \A r \in DOMAIN f : f[r] \in V
      PROVE  f \in UNION {[D -> V] : D \in SUBSET Requests}
  <2>1. f \in [DOMAIN f -> V]
    BY <1>2
  <2> QED BY <1>2, <2>1
<1> QED BY <1>1, <1>2

\* A step without rows.
LEMMA EmptyStepStands ==
  ASSUME NEW c, NEW from
  PROVE  /\ RowsStand(EmptyStep, c, from)
         /\ EncodedBy(EmptyStep) = {}
         /\ DOMAIN EmptyStep.n = {}
<1>1. /\ EmptyStep.n = <<>> /\ EmptyStep.rows = <<>> /\ EmptyStep.inputs = <<>>
      /\ EmptyStep.preempted = FALSE
      /\ EmptyStep = [n |-> <<>>, rows |-> <<>>, inputs |-> <<>>, preempted |-> FALSE]
  BY DEF EmptyStep
<1>2. DOMAIN <<>> = {} /\ <<>> = [r \in DOMAIN <<>> |-> <<>>[r]]
  OBVIOUS
<1>3. <<>> \in Counts /\ <<>> \in Images
  <2>1. PICK f : f = <<>>
    OBVIOUS
  <2>2. f = [r \in DOMAIN f |-> f[r]] /\ DOMAIN f = {}
    BY <1>2, <2>1
  <2>3. f \in UNION {[D -> Int] : D \in SUBSET Requests}
    BY <2>2, Partial
  <2>4. f \in UNION {[D -> SUBSET Int] : D \in SUBSET Requests}
    BY <2>2, Partial
  <2> QED BY <2>1, <2>3, <2>4 DEF Counts, Images
<1>4. IsQueue(<<>>, Requests) /\ ToSet(<<>>) = {} /\ <<>> \in Seq(Requests)
  BY EmptyQueue DEF IsQueue
<1>5. EmptyStep \in Steps
  BY <1>1, <1>3, <1>4 DEF Steps, Rows
<1>6. DOMAIN EmptyStep.n = {} /\ DOMAIN EmptyStep.inputs = {} /\ ToSet(EmptyStep.rows) = {}
  BY <1>1, <1>2, <1>4
<1> QED BY <1>5, <1>6 DEF RowsStand, EncodedBy

\* Requests that a step has rows for keep what they refer to.
KeepsFor(c, d, S) ==
  \A r \in S : \A h \in Hashes : Holds(c, r, h) => Holds(d, r, h)

\* The rows stand while what they refer to is kept.
LEMMA RowsStandOn ==
  ASSUME NEW s, NEW c, NEW from, RowsStand(s, c, from),
         NEW d, KeepsFor(c, d, DOMAIN s.n),
         NEW to, \A r \in DOMAIN s.n : to[r] = from[r]
  PROVE  RowsStand(s, d, to)
<1>1. DOMAIN s.n \in SUBSET Requests
  BY Partial DEF RowsStand, Steps, Counts
<1>2. ASSUME NEW r \in DOMAIN s.n, NEW i \in Inputs(r),
             i \in s.inputs[r] \/ Needed(r, i, to[r], s.n[r])
      PROVE  Holds(d, r, Hash(r, i))
  <2>1. to[r] = from[r]
    OBVIOUS
  <2>2. Holds(c, r, Hash(r, i))
    BY <1>2, <2>1 DEF RowsStand
  <2>3. Hash(r, i) \in Hashes
    BY <1>1, ImageTypes
  <2> QED BY <2>2, <2>3 DEF KeepsFor
<1> QED BY <1>2 DEF RowsStand

\* What a step encodes is counted.
LEMMA EncodedCounted ==
  ASSUME NEW s, NEW c, NEW from, RowsStand(s, c, from)
  PROVE  \A h \in EncodedBy(s) :
           \E r \in DOMAIN s.n : Holds(c, r, h)
<1>1. ASSUME NEW h \in EncodedBy(s) PROVE \E r \in DOMAIN s.n : Holds(c, r, h)
  <2>1. PICK r \in DOMAIN s.n : h \in HashesOf(r, s.inputs[r])
    BY DEF EncodedBy
  <2>2. PICK i \in s.inputs[r] : h = Hash(r, i)
    BY <2>1 DEF HashesOf
  <2>3. Holds(c, r, h)
    BY <2>2 DEF RowsStand
  <2> QED BY <2>3
<1> QED BY <1>1

\* Entries go, and are told to go.
LEMMA FollowsOn ==
  ASSUME NEW w, NEW fs, NEW h, NEW c, NEW s, Follows(w, fs, h, c, s),
         NEW from, RowsStand(s, c, from), NEW d, KeepsFor(c, d, DOMAIN s.n),
         Cached(c) \in SUBSET Hashes,
         Cached(d) \in SUBSET Cached(c),
         d.freed = c.freed \union (Cached(c) \ Cached(d))
  PROVE  Follows(w, fs, h, d, s)
<1>1. EncodedBy(s) \in SUBSET Cached(d)
  BY EncodedCounted DEF KeepsFor, Holds
<1>2. PICK last, enc : last = w[Len(fs)] /\ enc = EncodedBy(s)
  OBVIOUS
<1>3. (last \ c.freed) \union enc = Cached(c)
  BY <1>2 DEF Follows
<1>4. (last \ d.freed) \union enc = Cached(d)
  BY <1>1, <1>2, <1>3
<1> QED BY <1>2, <1>4 DEF Follows

-----------------------------------------------------------------------------
(* The invariant holds initially, and the steps outside schedule() keep it. *)

LEMMA StartsWell == EncoderInit => EncoderInv
<1> SUFFICES ASSUME EncoderInit PROVE EncoderInv
  OBVIOUS
<1>1. Live = {}
  BY DEF EncoderInit, Live
<1>2. Queued
  <2>1. IsQueue(<<>>, Requests) /\ ToSet(<<>>) = {}
    BY EmptyQueue
  <2> QED BY <2>1 DEF EncoderInit, Queued
<1>3. Counted
  BY DEF EncoderInit, Counted
<1>4. PICK c : c = [refs |-> <<>>, freeable |-> <<>>, freed |-> {}]
  OBVIOUS
<1>5. c.refs = <<>> /\ c.freeable = <<>> /\ c.freed = {}
  BY <1>4
<1>6. Cached(c) = {}
  BY <1>5 DEF Cached
<1>7. c \in Caches
  <2>1. PICK f : f = <<>>
    OBVIOUS
  <2>2. f = [h \in DOMAIN f |-> f[h]] /\ DOMAIN f = {}
    BY <2>1
  <2>3. f \in Referred
    BY <2>2, RefsOf
  <2>4. <<>> \in Seq(Hashes)
    BY EmptyQueue DEF IsQueue
  <2> QED BY <1>4, <2>1, <2>3, <2>4 DEF Caches
<1>8. GoodCache(c, {})
  <2>1. IsQueue(<<>>, Hashes) /\ ToSet(<<>>) = {}
    BY EmptyQueue
  <2>2. FreeSlots(c) >= 0
    <3>1. SlotsOf({}) = 0 /\ CacheSize \in Nat
      BY Sizes
    <3> QED BY <1>6, <3>1 DEF FreeSlots
  <2> QED BY <1>5, <1>6, <2>1, <2>2 DEF GoodCache
<1>9. Accounted
  BY <1>1, <1>4, <1>5, <1>7, <1>8 DEF EncoderInit, Accounted
<1>10. StepStands
  BY EmptyStepStands DEF EncoderInit, StepStands
<1>11. TrialStands
  BY DEF EncoderInit, TrialStands
<1>12. UnderWay
  <2>1. frames = <<>> /\ results = <<>> /\ held = {} /\ missed = FALSE
        /\ cache = c /\ step = EmptyStep
    BY <1>4 DEF EncoderInit
  <2>2. <<>> \in Seq(FrameSet) /\ Len(<<>>) = 0
    OBVIOUS
  <2>3. PICK w : w = [k \in 0..0 |-> {}]
    OBVIOUS
  <2>4. w \in [0..0 -> SUBSET Hashes] /\ w[0] = {}
    BY <2>3
  <2>5. \A k \in 1..0 : FALSE
    OBVIOUS
  <2>6. Follows(w, <<>>, {}, c, EmptyStep)
    BY <1>5, <1>6, <2>2, <2>4, <2>5, EmptyStepStands DEF Follows
  <2> QED BY <2>1, <2>2, <2>4, <2>6 DEF UnderWay
<1> QED BY <1>2, <1>3, <1>9, <1>10, <1>11, <1>12 DEF EncoderInv

\* Between two calls of schedule() the accounts change in their references.
LEMMA IdleKeeps ==
  ASSUME EncoderInv, phase = "idle", UNCHANGED loopVars, computed' = computed,
         Queued', cache' \in Caches, GoodCache(cache', Live'),
         SameEntries(cache, cache'),
         frames' = frames, held' = held, missed' = missed,
         results' \in Seq(FrameSet)
  PROVE  EncoderInv'
<1>1. /\ cache.freed = {} /\ step = EmptyStep /\ trial = None
      /\ cache'.freed = {} /\ step' = EmptyStep /\ trial' = None
      /\ phase' = "idle" /\ Cached(cache') = Cached(cache)
  BY DEF EncoderInv, Accounted, loopVars, SameEntries
<1>2. Counted'
  BY DEF EncoderInv, Counted, loopVars
<1>3. Accounted'
  BY <1>1 DEF Accounted
<1>4. StepStands'
  BY <1>1, EmptyStepStands DEF StepStands
<1>5. TrialStands'
  BY <1>1 DEF TrialStands
<1>6. UnderWay'
  <2>1. PICK w \in [0..Len(frames) -> SUBSET Hashes] :
               Follows(w, frames, held, cache, step)
    BY DEF EncoderInv, UnderWay
  <2>2. Follows(w, frames, held, cache', step')
    BY <1>1, <2>1 DEF Follows
  <2> QED BY <2>1, <2>2 DEF EncoderInv, UnderWay
<1> QED BY <1>2, <1>3, <1>4, <1>5, <1>6 DEF EncoderInv

\* A request arrives.
LEMMA ArriveKeeps ==
  ASSUME EncoderInv, NEW r \in Requests, Arrive(r)
  PROVE  EncoderInv'
<1>1. /\ phase = "idle" /\ status[r] = "NEW"
      /\ status' = [status EXCEPT ![r] = "WAITING"]
      /\ waiting' = Append(waiting, r)
      /\ running' = running /\ cache' = cache /\ computed' = computed
      /\ UNCHANGED loopVars /\ frames' = frames /\ held' = held
      /\ missed' = missed /\ results' = results
  BY DEF Arrive, pipeVars
<1>2. /\ status \in [Requests -> {"NEW", "WAITING", "RUNNING", "FINISHED"}]
      /\ IsQueue(running, Requests) /\ IsQueue(waiting, Requests)
      /\ ToSet(running) = {q \in Requests : status[q] = "RUNNING"}
      /\ ToSet(waiting) = {q \in Requests : status[q] = "WAITING"}
  BY DEF EncoderInv, Queued
<1>3. IsQueue(waiting', Requests) /\ ToSet(waiting') = ToSet(waiting) \union {r}
  BY <1>1, <1>2, AppendToQueue
<1>4. \A q \in Requests : status'[q] = IF q = r THEN "WAITING" ELSE status[q]
  BY <1>1, <1>2
<1>5. Queued'
  <2>1. status' \in [Requests -> {"NEW", "WAITING", "RUNNING", "FINISHED"}]
    BY <1>1, <1>2
  <2>2. ToSet(waiting') = {q \in Requests : status'[q] = "WAITING"}
    BY <1>2, <1>3, <1>4
  <2>3. ToSet(running') = {q \in Requests : status'[q] = "RUNNING"}
    BY <1>1, <1>2, <1>4
  <2> QED BY <1>1, <1>2, <1>3, <2>1, <2>2, <2>3 DEF Queued
<1>6. Live \in SUBSET Live'
  BY <1>4 DEF Live
<1>7. cache \in Caches /\ GoodCache(cache, Live)
  BY DEF EncoderInv, Accounted
<1>8. GoodCache(cache', Live')
  BY <1>1, <1>6, <1>7, GoodInMore
<1>9. results \in Seq(FrameSet)
  BY DEF EncoderInv, UnderWay
<1> QED BY <1>1, <1>5, <1>7, <1>8, <1>9, IdleKeeps DEF SameEntries

\* A request is aborted.
LEMMA WithdrawKeeps ==
  ASSUME EncoderInv, NEW r \in Requests, Withdraw(r)
  PROVE  EncoderInv'
<1>1. /\ phase = "idle"
      /\ status' = [status EXCEPT ![r] = "FINISHED"]
      /\ waiting' = Without(waiting, {r}) /\ running' = Without(running, {r})
      /\ cache' = FreedAll(cache, r) /\ computed' = computed
      /\ UNCHANGED loopVars /\ frames' = frames /\ held' = held
      /\ missed' = missed /\ results' = results
  BY DEF Withdraw, pipeVars
<1>2. /\ status \in [Requests -> {"NEW", "WAITING", "RUNNING", "FINISHED"}]
      /\ IsQueue(running, Requests) /\ IsQueue(waiting, Requests)
      /\ ToSet(running) = {q \in Requests : status[q] = "RUNNING"}
      /\ ToSet(waiting) = {q \in Requests : status[q] = "WAITING"}
  BY DEF EncoderInv, Queued
<1>3. IsQueue(waiting', Requests) /\ ToSet(waiting') = ToSet(waiting) \ {r}
  BY <1>1, <1>2, WithoutQueue
<1>4. IsQueue(running', Requests) /\ ToSet(running') = ToSet(running) \ {r}
  BY <1>1, <1>2, WithoutQueue
<1>5. \A q \in Requests : status'[q] = IF q = r THEN "FINISHED" ELSE status[q]
  BY <1>1, <1>2
<1>6. Queued'
  <2>1. status' \in [Requests -> {"NEW", "WAITING", "RUNNING", "FINISHED"}]
    BY <1>1, <1>2
  <2>2. ToSet(waiting') = {q \in Requests : status'[q] = "WAITING"}
    BY <1>2, <1>3, <1>5
  <2>3. ToSet(running') = {q \in Requests : status'[q] = "RUNNING"}
    BY <1>2, <1>4, <1>5
  <2> QED BY <1>3, <1>4, <2>1, <2>2, <2>3 DEF Queued
<1>7. Live' = Live \ {r} /\ Live \in SUBSET Requests
  BY <1>5 DEF Live
<1>8. cache \in Caches /\ GoodCache(cache, Live)
  BY DEF EncoderInv, Accounted
<1>9. /\ cache' \in Caches /\ GoodCache(cache', Live')
      /\ SameEntries(cache, cache')
  <2>1. PICK c \in Caches, live \in SUBSET Requests : c = cache /\ live = Live
    BY <1>7, <1>8
  <2>2. /\ FreedAll(c, r) \in Caches /\ GoodCache(FreedAll(c, r), live \ {r})
        /\ SameEntries(c, FreedAll(c, r))
    BY <1>8, <2>1, FreedOnes
  <2> QED BY <1>1, <1>7, <2>1, <2>2
<1>10. results \in Seq(FrameSet)
  BY DEF EncoderInv, UnderWay
<1> QED BY <1>1, <1>6, <1>9, <1>10, IdleKeeps

-----------------------------------------------------------------------------
(* The steps of schedule() keep the invariant: how its parts are kept.     *)

\* A trial disturbs no row.
LEMMA EvolvesStands ==
  ASSUME EncoderInv, NEW d, NEW r, Evolves(cache, d, r)
  PROVE  /\ RowsStand(step, d, computed)
         /\ \A w : Follows(w, frames, held, cache, step)
                     => Follows(w, frames, held, d, step)
<1>1. KeepsFor(cache, d, DOMAIN step.n)
  <2>1. ASSUME NEW q, NEW h, Holds(cache, q, h) PROVE Holds(d, q, h)
    <3>1. h \in Cached(cache) /\ cache.refs[h] # {} /\ q \in cache.refs[h]
      BY <2>1 DEF Holds
    <3>2. h \in Cached(d)
      BY <3>1 DEF Evolves
    <3> QED BY <3>1, <3>2 DEF Evolves, Holds
  <2> QED BY <2>1 DEF KeepsFor
<1>2. RowsStand(step, cache, computed)
  BY DEF EncoderInv, StepStands
<1>3. RowsStand(step, d, computed)
  BY <1>1, <1>2, RowsStandOn
<1>4. /\ Cached(cache) \in SUBSET Hashes
      /\ Cached(d) \in SUBSET Cached(cache)
      /\ d.freed = cache.freed \union (Cached(cache) \ Cached(d))
  BY CacheType DEF EncoderInv, Accounted, Evolves
<1>5. ASSUME NEW w, Follows(w, frames, held, cache, step)
      PROVE  Follows(w, frames, held, d, step)
  BY <1>1, <1>2, <1>4, <1>5, FollowsOn
<1> QED BY <1>3, <1>5

\* The step with one more row.
Joined(s, r, n, inputs) ==
  [s EXCEPT !.n = WithEntry(@, r, n), !.rows = Append(@, r),
            !.inputs = WithEntry(@, r, inputs)]

\* The fields of a step that a row joins.
LEMMA JoinedFields ==
  ASSUME NEW s \in Steps, NEW r, NEW n, NEW inputs, NEW u, u = Joined(s, r, n, inputs)
  PROVE  /\ u = [n |-> u.n, rows |-> u.rows, inputs |-> u.inputs,
                 preempted |-> s.preempted]
         /\ u.rows = Append(s.rows, r)
         /\ DOMAIN u.n = DOMAIN s.n \union {r}
         /\ DOMAIN u.inputs = DOMAIN s.inputs \union {r}
         /\ u.n = [q \in DOMAIN u.n |-> u.n[q]]
         /\ u.inputs = [q \in DOMAIN u.inputs |-> u.inputs[q]]
         /\ u.n[r] = n /\ \A q \in DOMAIN s.n : q # r => u.n[q] = s.n[q]
         /\ u.inputs[r] = inputs
         /\ \A q \in DOMAIN s.inputs : q # r => u.inputs[q] = s.inputs[q]
<1>1. s = [n |-> s.n, rows |-> s.rows, inputs |-> s.inputs, preempted |-> s.preempted]
  BY DEF Steps
<1>2. PICK m, rows, images : /\ m = WithEntry(s.n, r, n)
                             /\ rows = Append(s.rows, r)
                             /\ images = WithEntry(s.inputs, r, inputs)
  OBVIOUS
<1>3. u = [n |-> m, rows |-> rows, inputs |-> images, preempted |-> s.preempted]
  <2>1. u = [s EXCEPT !.n = m, !.rows = rows, !.inputs = images]
    BY <1>2 DEF Joined
  <2> QED BY <1>1, <2>1
<1>4. u.n = m /\ u.rows = rows /\ u.inputs = images
  BY <1>3
<1>5. /\ DOMAIN m = DOMAIN s.n \union {r} /\ m = [q \in DOMAIN m |-> m[q]]
      /\ m[r] = n /\ \A q \in DOMAIN s.n : q # r => m[q] = s.n[q]
  <2>1. PICK f : f = s.n
    OBVIOUS
  <2>2. m = [q \in DOMAIN f \union {r} |-> IF q = r THEN n ELSE f[q]]
    BY <1>2, <2>1 DEF WithEntry
  <2>3. DOMAIN m = DOMAIN f \union {r} /\ m = [q \in DOMAIN m |-> m[q]]
    BY <2>2
  <2>4. m[r] = n /\ \A q \in DOMAIN f : q # r => m[q] = f[q]
    BY <2>2
  <2> QED BY <2>1, <2>3, <2>4
<1>6. /\ DOMAIN images = DOMAIN s.inputs \union {r}
      /\ images = [q \in DOMAIN images |-> images[q]]
      /\ images[r] = inputs
      /\ \A q \in DOMAIN s.inputs : q # r => images[q] = s.inputs[q]
  <2>1. PICK f : f = s.inputs
    OBVIOUS
  <2>2. images = [q \in DOMAIN f \union {r} |-> IF q = r THEN inputs ELSE f[q]]
    BY <1>2, <2>1 DEF WithEntry
  <2>3. DOMAIN images = DOMAIN f \union {r} /\ images = [q \in DOMAIN images |-> images[q]]
    BY <2>2
  <2>4. images[r] = inputs /\ \A q \in DOMAIN f : q # r => images[q] = f[q]
    BY <2>2
  <2> QED BY <2>1, <2>3, <2>4
<1> QED BY <1>2, <1>3, <1>4, <1>5, <1>6

\* The rows of u are those of s and r.
RowAdded(s, u, r) == DOMAIN u.n = DOMAIN s.n \union {r}

\* What leads to the accounts c and the step s leads to d and u as well.
LeadsToo(c, s, d, u) == \A w, fs, h : Follows(w, fs, h, c, s) => Follows(w, fs, h, d, u)

\* The row of a trial joins the step, and what it adds the accounts.
LEMMA RowJoins ==
  ASSUME NEW s, NEW c \in Caches, NEW live, GoodCache(c, live),
         NEW from, RowsStand(s, c, from),
         NEW r \in Requests, r \in live, r \notin DOMAIN s.n,
         NEW t, GoodFor(t, r, from[r], c),
         NEW d, d = Allocated(c, r, HashesOf(r, t.inputs)),
         NEW u, u = Joined(s, r, t.n, t.inputs)
  PROVE  /\ d \in Caches /\ GoodCache(d, live)
         /\ RowsStand(u, d, from)
         /\ RowAdded(s, u, r)
         /\ LeadsToo(c, s, d, u)
<1>1. /\ t \in Trials /\ t.n # 0 /\ t.inputs \in SUBSET Inputs(r)
      /\ t.seen = HashesOf(r, t.inputs) /\ t.embeds = SlotsOf(t.seen)
      /\ t.seen \intersect Cached(c) = {} /\ t.embeds <= FreeSlots(c)
      /\ \A i \in Inputs(r) : Needed(r, i, from[r], t.n) =>
           Hash(r, i) \in t.seen \/ Holds(c, r, Hash(r, i))
  BY DEF GoodFor
<1>2. PICK new : new = HashesOf(r, t.inputs)
  OBVIOUS
<1>3. t.n \in Int /\ t.inputs \in SUBSET Int /\ new \in SUBSET Hashes
  BY <1>1, <1>2, TrialFields
<1>4. /\ d \in Caches /\ GoodCache(d, live)
      /\ Cached(d) = Cached(c) \union new /\ d.freed = c.freed
      /\ \A h \in new : d.refs[h] = {r}
      /\ \A h \in Cached(c) : d.refs[h] = c.refs[h]
  <2>1. d = Allocated(c, r, new)
    BY <1>2
  <2>2. new \intersect Cached(c) = {} /\ SlotsOf(new) <= FreeSlots(c)
    BY <1>1, <1>2
  <2>3. PICK S \in SUBSET Inputs(r) : S = t.inputs
    BY <1>1
  <2>4. new = HashesOf(r, S)
    BY <1>2, <2>3
  <2> QED BY <1>3, <2>1, <2>2, <2>4, AllocatedCache
<1>5. /\ s \in Steps /\ DOMAIN s.inputs = DOMAIN s.n /\ ToSet(s.rows) = DOMAIN s.n
      /\ s = [n |-> s.n, rows |-> s.rows, inputs |-> s.inputs,
              preempted |-> s.preempted]
      /\ s.n \in Counts /\ s.rows \in Rows /\ s.inputs \in Images
      /\ s.preempted \in BOOLEAN
  BY DEF RowsStand, Steps
<1>6. PICK n, rows, inputs : n = u.n /\ rows = u.rows /\ inputs = u.inputs
  OBVIOUS
<1>7. /\ u = [n |-> n, rows |-> rows, inputs |-> inputs, preempted |-> s.preempted]
      /\ rows = Append(s.rows, r)
      /\ DOMAIN n = DOMAIN s.n \union {r} /\ n = [q \in DOMAIN n |-> n[q]]
      /\ n[r] = t.n /\ \A q \in DOMAIN s.n : q # r => n[q] = s.n[q]
      /\ DOMAIN inputs = DOMAIN s.inputs \union {r}
      /\ inputs = [q \in DOMAIN inputs |-> inputs[q]]
      /\ inputs[r] = t.inputs
      /\ \A q \in DOMAIN s.inputs : q # r => inputs[q] = s.inputs[q]
  <2>1. s \in Steps /\ u = Joined(s, r, t.n, t.inputs)
    BY <1>5
  <2> QED BY <1>6, <2>1, JoinedFields
<1>8. u.n = n /\ u.rows = rows /\ u.inputs = inputs
  BY <1>6
<1>9. /\ DOMAIN n = DOMAIN s.n \union {r} /\ n = [q \in DOMAIN n |-> n[q]]
      /\ n[r] = t.n /\ \A q \in DOMAIN s.n : n[q] = s.n[q]
  BY <1>7
<1>10. /\ DOMAIN inputs = DOMAIN s.n \union {r}
       /\ inputs = [q \in DOMAIN inputs |-> inputs[q]]
       /\ inputs[r] = t.inputs /\ \A q \in DOMAIN s.n : inputs[q] = s.inputs[q]
  BY <1>5, <1>7
<1>11. n \in Counts
  <2>1. /\ s.n = [q \in DOMAIN s.n |-> s.n[q]] /\ DOMAIN s.n \in SUBSET Requests
        /\ \A q \in DOMAIN s.n : s.n[q] \in Int
    BY <1>5, Partial DEF Counts
  <2>2. /\ DOMAIN n \in SUBSET Requests
        /\ \A q \in DOMAIN n : n[q] \in Int
    BY <1>3, <1>9, <2>1
  <2> QED BY <1>9, <2>2, Partial DEF Counts
<1>12. inputs \in Images
  <2>1. DOMAIN s.inputs \in SUBSET Requests /\ \A q \in DOMAIN s.inputs : s.inputs[q] \in SUBSET Int
    BY <1>5, Partial DEF Images
  <2>2. DOMAIN inputs \in SUBSET Requests
    BY <1>5, <1>10, <2>1
  <2>3. \A q \in DOMAIN inputs : inputs[q] \in SUBSET Int
    BY <1>3, <1>5, <1>10, <2>1, Zenon
  <2>4. inputs = [q \in DOMAIN inputs |-> inputs[q]]
    BY <1>10
  <2>5. inputs \in UNION {[D -> SUBSET Int] : D \in SUBSET Requests}
    BY <2>2, <2>3, <2>4, Partial
  <2> QED BY <2>5 DEF Images
<1>13. rows \in Rows /\ ToSet(rows) = ToSet(s.rows) \union {r}
  <2>1. IsQueue(s.rows, Requests) /\ r \notin ToSet(s.rows)
    BY <1>5 DEF Rows
  <2>2. IsQueue(rows, Requests) /\ ToSet(rows) = ToSet(s.rows) \union {r}
    BY <1>7, <2>1, AppendToQueue
  <2> QED BY <2>2 DEF Rows, IsQueue
<1>14. u \in Steps
  BY <1>5, <1>7, <1>11, <1>12, <1>13 DEF Steps
<1>15. \A q, h : Holds(c, q, h) => Holds(d, q, h)
  BY <1>4 DEF Holds
<1>16. \A h \in new : Holds(d, r, h)
  BY <1>4 DEF Holds
<1>17. ASSUME NEW q \in DOMAIN u.n
       PROVE  /\ u.inputs[q] \in SUBSET Inputs(q)
              /\ \A i \in Inputs(q) :
                   i \in u.inputs[q] \/ Needed(q, i, from[q], u.n[q])
                     => Holds(d, q, Hash(q, i))
  <2>1. CASE q = r
    <3>1. u.inputs[q] = t.inputs /\ u.n[q] = t.n
      BY <1>8, <1>9, <1>10, <2>1
    <3>2. ASSUME NEW i \in Inputs(r), i \in t.inputs PROVE Holds(d, r, Hash(r, i))
      <4>1. Hash(r, i) \in new
        BY <1>2, <3>2 DEF HashesOf
      <4> QED BY <1>16, <4>1
    <3>3. ASSUME NEW i \in Inputs(r), Needed(r, i, from[r], t.n)
          PROVE  Holds(d, r, Hash(r, i))
      <4>1. Hash(r, i) \in t.seen \/ Holds(c, r, Hash(r, i))
        BY <1>1, <3>3
      <4>2. t.seen = new
        BY <1>1, <1>2
      <4> QED BY <1>15, <1>16, <4>1, <4>2
    <3> QED BY <1>1, <2>1, <3>1, <3>2, <3>3
  <2>2. CASE q # r
    <3>1. q \in DOMAIN s.n /\ u.inputs[q] = s.inputs[q] /\ u.n[q] = s.n[q]
      BY <1>8, <1>9, <1>10, <2>2
    <3>2. /\ s.inputs[q] \in SUBSET Inputs(q)
          /\ \A i \in Inputs(q) :
               i \in s.inputs[q] \/ Needed(q, i, from[q], s.n[q])
                 => Holds(c, q, Hash(q, i))
      BY <3>1 DEF RowsStand
    <3> QED BY <1>15, <3>1, <3>2
  <2> QED BY <2>1, <2>2
<1>18. DOMAIN u.inputs = DOMAIN u.n /\ ToSet(u.rows) = DOMAIN u.n
  BY <1>5, <1>8, <1>9, <1>10, <1>13
<1>19. RowsStand(u, d, from)
  BY <1>14, <1>17, <1>18 DEF RowsStand
<1>20. EncodedBy(u) = EncodedBy(s) \union new
  <2>1. \A q \in DOMAIN s.n : u.inputs[q] = s.inputs[q] /\ q \in DOMAIN u.n
    BY <1>8, <1>9, <1>10
  <2>2. u.inputs[r] = t.inputs /\ DOMAIN u.n = DOMAIN s.n \union {r}
    BY <1>8, <1>9, <1>10
  <2>3. HashesOf(r, u.inputs[r]) = new
    BY <1>2, <2>2
  <2>4. ASSUME NEW h \in EncodedBy(u) PROVE h \in EncodedBy(s) \union new
    <3>1. PICK q \in DOMAIN u.n : h \in HashesOf(q, u.inputs[q])
      BY DEF EncodedBy
    <3> QED BY <2>1, <2>2, <2>3, <3>1 DEF EncodedBy
  <2>5. ASSUME NEW h \in EncodedBy(s) PROVE h \in EncodedBy(u)
    <3>1. PICK q \in DOMAIN s.n : h \in HashesOf(q, s.inputs[q])
      BY DEF EncodedBy
    <3> QED BY <2>1, <3>1 DEF EncodedBy
  <2>6. ASSUME NEW h \in new PROVE h \in EncodedBy(u)
    BY <2>2, <2>3 DEF EncodedBy
  <2> QED BY <2>4, <2>5, <2>6
<1>21. ASSUME NEW w, NEW fs, NEW h, Follows(w, fs, h, c, s)
       PROVE  Follows(w, fs, h, d, u)
  <2>1. PICK last, enc : last = w[Len(fs)] /\ enc = EncodedBy(s)
    OBVIOUS
  <2>2. (last \ c.freed) \union enc = Cached(c)
    BY <1>21, <2>1 DEF Follows
  <2>3. (last \ d.freed) \union (enc \union new) = Cached(d)
    BY <1>4, <2>2
  <2> QED BY <1>20, <1>21, <2>1, <2>3 DEF Follows
<1>22. LeadsToo(c, s, d, u)
  BY <1>21 DEF LeadsToo
<1>23. RowAdded(s, u, r)
  BY <1>8, <1>9 DEF RowAdded
<1> QED BY <1>4, <1>19, <1>22, <1>23

\* What the invariant says of the state, for citation.
LEMMA Holding ==
  ASSUME EncoderInv
  PROVE  /\ status \in [Requests -> {"NEW", "WAITING", "RUNNING", "FINISHED"}]
         /\ IsQueue(running, Requests) /\ IsQueue(waiting, Requests)
         /\ ToSet(running) = {q \in Requests : status[q] = "RUNNING"}
         /\ ToSet(waiting) = {q \in Requests : status[q] = "WAITING"}
         /\ computed \in [Requests -> Int]
         /\ tokens \in Int /\ budget \in Int /\ cursor \in Nat /\ cursor > 0
         /\ cache \in Caches /\ GoodCache(cache, Live) /\ Live \in SUBSET Requests
         /\ ToSet(running) \in SUBSET Live /\ ToSet(waiting) \in SUBSET Live
         /\ RowsStand(step, cache, computed)
         /\ DOMAIN step.n \in SUBSET ToSet(running)
         /\ frames \in Seq(FrameSet) /\ results \in Seq(FrameSet)
         /\ ~missed
         /\ phase # "running" => trial = None
BY DEF EncoderInv, Queued, Counted, Accounted, StepStands, TrialStands,
       UnderWay, Live

\* The request at the cursor.
LEMMA AtCursor ==
  ASSUME EncoderInv, cursor <= Len(running)
  PROVE  /\ cursor \in 1..Len(running) /\ running # <<>> /\ Len(running) \in Nat
         /\ running[cursor] \in ToSet(running) /\ running[cursor] \in Requests
         /\ running[cursor] \in Live
<1>1. IsQueue(running, Requests) /\ cursor \in Nat /\ cursor > 0
  BY Holding
<1>2. running \in Seq(Requests)
  BY <1>1 DEF IsQueue
<1>3. /\ Len(running) \in Nat /\ Len(<<>>) = 0
      /\ \A i \in 1..Len(running) : running[i] \in Requests
      /\ \A i \in 1..Len(running) : running[i] \in ToSet(running)
  BY <1>2, Members
<1>4. cursor \in 1..Len(running)
  BY <1>1, <1>3
<1>5. running # <<>>
  BY <1>3, <1>4
<1>6. ToSet(running) \in SUBSET Live
  BY Holding
<1> QED BY <1>3, <1>4, <1>5, <1>6

\* Frames and history stay, and the accounts follow.
LEMMA StillUnderWay ==
  ASSUME EncoderInv, frames' = frames, results' = results, held' = held,
         missed' = missed,
         \A w : Follows(w, frames, held, cache, step)
                  => Follows(w, frames, held, cache', step')
  PROVE  UnderWay'
<1>1. PICK w \in [0..Len(frames) -> SUBSET Hashes] :
             Follows(w, frames, held, cache, step)
  BY DEF EncoderInv, UnderWay
<1>2. Follows(w, frames, held, cache', step')
  BY <1>1
<1>3. w \in [0..Len(frames') -> SUBSET Hashes] /\ Follows(w, frames', held', cache', step')
  BY <1>2
<1>4. frames' \in Seq(FrameSet) /\ results' \in Seq(FrameSet) /\ ~missed'
  BY Holding
<1> QED BY <1>3, <1>4 DEF UnderWay

\* schedule() begins.
LEMMA BeginStepKeeps ==
  ASSUME EncoderInv, BeginStep
  PROVE  EncoderInv'
<1>1. /\ phase = "idle" /\ phase' = "running" /\ cursor' = 1
      /\ tokens' = MaxBatchedTokens /\ budget' = ComputeBudget
      /\ step' = EmptyStep /\ trial' = trial
      /\ status' = status /\ computed' = computed /\ waiting' = waiting
      /\ running' = running /\ cache' = cache
      /\ frames' = frames /\ results' = results /\ held' = held /\ missed' = missed
  BY DEF BeginStep, pipeVars
<1>2. step = EmptyStep /\ trial = None
  BY <1>1 DEF EncoderInv, Accounted
<1>3. MaxBatchedTokens \in Nat /\ ComputeBudget \in Nat
  BY EncoderAssumption
<1>4. Queued' /\ Live' = Live
  BY <1>1 DEF EncoderInv, Queued, Live
<1>5. Counted'
  BY <1>1, <1>3, Holding DEF Counted
<1>6. Accounted'
  BY <1>1, <1>4, Holding DEF Accounted
<1>7. StepStands'
  BY <1>1, EmptyStepStands DEF StepStands
<1>8. TrialStands'
  BY <1>1, <1>2 DEF TrialStands
<1>9. UnderWay'
  BY <1>1, <1>2, StillUnderWay
<1> QED BY <1>4, <1>5, <1>6, <1>7, <1>8, <1>9 DEF EncoderInv

\* The loop over the running requests ends.
LEMMA EndRunningKeeps ==
  ASSUME EncoderInv, EndRunning
  PROVE  EncoderInv'
<1>1. /\ phase' \in {"end", "waiting"} /\ trial = None /\ trial' = None
      /\ cursor' = cursor /\ tokens' = tokens /\ budget' = budget /\ step' = step
      /\ status' = status /\ computed' = computed /\ waiting' = waiting
      /\ running' = running /\ cache' = cache
      /\ frames' = frames /\ results' = results /\ held' = held /\ missed' = missed
  BY DEF EndRunning, pipeVars
<1>2. Queued' /\ Live' = Live
  BY <1>1 DEF EncoderInv, Queued, Live
<1>3. Counted'
  BY <1>1 DEF EncoderInv, Counted
<1>4. Accounted'
  BY <1>1, <1>2, Holding DEF Accounted
<1>5. StepStands'
  BY <1>1, Holding DEF StepStands
<1>6. TrialStands'
  BY <1>1 DEF TrialStands
<1>7. UnderWay'
  BY <1>1, StillUnderWay
<1> QED BY <1>2, <1>3, <1>4, <1>5, <1>6, <1>7 DEF EncoderInv

\* What a trial that is not refused stands for.
LEMMA TriedWell ==
  ASSUME NEW live \in SUBSET Requests, NEW r \in Requests, r \in live,
         NEW c \in Int, NEW n \in Int, budget \in Int, cache \in Caches,
         GoodCache(cache, live), NEW t, t = Try(r, c, n)
  PROVE  /\ t \in Trials /\ t.r = r /\ t.cache \in Caches /\ GoodCache(t.cache, live)
         /\ Evolves(cache, t.cache, r)
         /\ t.n # 0 => GoodFor(t, r, c, t.cache)
<1>1. /\ t \in Trials /\ GoodTrial(t, r, c, live)
      /\ Evolves(cache, t.cache, r)
      /\ \A i \in Inputs(r) :
           t.n # 0 /\ Needed(r, i, c, t.n) => Found(t, r, i)
  BY Tried
<1>2. t.cache \in Caches
  BY <1>1, TrialFields
<1> QED BY <1>1, <1>2 DEF GoodTrial, GoodFor, Found, Holds

\* The images of the request at the cursor are tried.
LEMMA TryRunningKeeps ==
  ASSUME EncoderInv, TryRunning
  PROVE  EncoderInv'
<1>1. PICK r, t : r = running[cursor]
               /\ t = Try(r, computed[r],
                          Min({NumPromptTokens[r] - computed[r], tokens}))
  OBVIOUS
<1>2. /\ phase = "running" /\ trial = None /\ cursor <= Len(running)
      /\ cache' = t.cache
      /\ IF t.n = 0 THEN cursor' = cursor + 1 /\ trial' = trial
         ELSE trial' = t /\ cursor' = cursor
      /\ phase' = phase /\ tokens' = tokens /\ budget' = budget /\ step' = step
      /\ status' = status /\ computed' = computed /\ waiting' = waiting
      /\ running' = running
      /\ frames' = frames /\ results' = results /\ held' = held /\ missed' = missed
  BY <1>1 DEF TryRunning, pipeVars
<1>3. r \in Requests /\ r \in Live
  BY <1>1, <1>2, AtCursor
<1>4. PICK n : n = Min({NumPromptTokens[r] - computed[r], tokens})
  OBVIOUS
<1>5. n \in Int /\ computed[r] \in Int
  <2>1. NumPromptTokens \in [Requests -> Nat]
    BY EncoderAssumption
  <2>2. computed \in [Requests -> Int] /\ tokens \in Int
    BY Holding
  <2>3. PICK x, y \in Int : x = NumPromptTokens[r] - computed[r] /\ y = tokens
    BY <1>3, <2>1, <2>2
  <2>4. Min({x, y}) \in Int
    BY LessOfTwo
  <2> QED BY <1>3, <1>4, <2>2, <2>3, <2>4
<1>6. /\ t.cache \in Caches /\ GoodCache(t.cache, Live)
      /\ Evolves(cache, t.cache, r)
      /\ t.n # 0 => GoodFor(t, r, computed[r], t.cache)
  <2>1. PICK live \in SUBSET Requests : live = Live
    BY Holding
  <2>2. GoodCache(cache, live) /\ cache \in Caches /\ budget \in Int /\ r \in live
    BY <1>3, <2>1, Holding
  <2>3. PICK c \in Int : c = computed[r]
    BY <1>5
  <2>4. t = Try(r, c, n)
    BY <1>1, <1>4, <2>3
  <2>5. /\ t.cache \in Caches /\ GoodCache(t.cache, live)
        /\ Evolves(cache, t.cache, r)
        /\ t.n # 0 => GoodFor(t, r, c, t.cache)
    BY <1>3, <1>5, <2>2, <2>4, TriedWell
  <2> QED BY <2>1, <2>3, <2>5
<1>7. /\ RowsStand(step, t.cache, computed)
      /\ \A w : Follows(w, frames, held, cache, step)
                  => Follows(w, frames, held, t.cache, step)
  BY <1>6, EvolvesStands
<1>8. Queued' /\ Live' = Live
  BY <1>2 DEF EncoderInv, Queued, Live
<1>9. cursor \in Nat /\ cursor > 0 /\ (cursor' = cursor \/ cursor' = cursor + 1)
  BY <1>2, Holding
<1>10. Counted'
  BY <1>2, <1>9, Holding DEF Counted
<1>11. Accounted'
  BY <1>2, <1>6, <1>8 DEF Accounted
<1>12. StepStands'
  <2>1. RowsStand(step', cache', computed')
    BY <1>2, <1>7
  <2>2. DOMAIN step'.n \in SUBSET ToSet(running')
    BY <1>2, Holding
  <2>3. ASSUME NEW k \in 1..Len(running), cursor' <= k
        PROVE  running[k] \notin DOMAIN step.n
    <3>1. cursor <= k
      BY <1>9, <2>3
    <3> QED BY <1>2, <3>1 DEF EncoderInv, StepStands
  <2> QED BY <1>2, <2>1, <2>2, <2>3 DEF StepStands
<1>13. TrialStands'
  <2>1. CASE t.n = 0
    BY <1>2, <2>1 DEF TrialStands
  <2>2. CASE t.n # 0
    <3>1. trial' = t /\ cursor' = cursor
      BY <1>2, <2>2
    <3>2. GoodFor(trial', running'[cursor'], computed'[running'[cursor']], cache')
      BY <1>1, <1>2, <1>6, <2>2, <3>1
    <3> QED BY <1>2, <3>1, <3>2 DEF TrialStands
  <2> QED BY <2>1, <2>2
<1>14. UnderWay'
  BY <1>2, <1>7, StillUnderWay
<1> QED BY <1>8, <1>10, <1>11, <1>12, <1>13, <1>14 DEF EncoderInv

\* A trial is one of the request at the cursor.
LEMMA OnTrial ==
  ASSUME EncoderInv, trial # None
  PROVE  /\ phase = "running" /\ cursor <= Len(running)
         /\ trial.r = running[cursor]
         /\ GoodFor(trial, trial.r, computed[trial.r], cache)
         /\ cursor \in 1..Len(running) /\ running # <<>> /\ Len(running) \in Nat
         /\ trial.r \in Requests /\ trial.r \in Live /\ trial.r \in ToSet(running)
         /\ trial.r \notin DOMAIN step.n
         /\ trial.n \in Int /\ trial.budget \in Int
<1>1. /\ phase = "running" /\ cursor <= Len(running)
      /\ GoodFor(trial, running[cursor], computed[running[cursor]], cache)
  BY DEF EncoderInv, TrialStands
<1>2. trial.r = running[cursor] /\ trial \in Trials
  BY <1>1 DEF GoodFor
<1>3. /\ cursor \in 1..Len(running) /\ running # <<>> /\ Len(running) \in Nat
      /\ running[cursor] \in ToSet(running) /\ running[cursor] \in Requests
      /\ running[cursor] \in Live
  BY <1>1, AtCursor
<1>4. running[cursor] \notin DOMAIN step.n
  <2>1. cursor <= cursor
    BY <1>3
  <2> QED BY <1>1, <1>3, <2>1 DEF EncoderInv, StepStands
<1>5. trial.n \in Int /\ trial.budget \in Int
  BY <1>2, TrialFields
<1> QED BY <1>1, <1>2, <1>3, <1>4, <1>5

\* The KV cache has room for the trial.
LEMMA ScheduleRunningKeeps ==
  ASSUME EncoderInv, ScheduleRunning
  PROVE  EncoderInv'
<1>1. PICK r, t : r = trial.r /\ t = trial
  OBVIOUS
<1>2. /\ phase = "running" /\ trial # None
      /\ step' = Joined(step, r, t.n, t.inputs)
      /\ tokens' = tokens - t.n
      /\ budget' = IF t.inputs = {} THEN budget ELSE t.budget
      /\ trial' = None
      /\ cache' = Allocated(cache, r, HashesOf(r, t.inputs))
      /\ cursor' = cursor + 1 /\ phase' = phase
      /\ status' = status /\ computed' = computed /\ waiting' = waiting
      /\ running' = running
      /\ frames' = frames /\ results' = results /\ held' = held /\ missed' = missed
  BY <1>1 DEF ScheduleRunning, Scheduled, Joined, pipeVars
<1>3. /\ r = running[cursor] /\ GoodFor(t, r, computed[r], cache)
      /\ cursor \in 1..Len(running) /\ Len(running) \in Nat
      /\ r \in Requests /\ r \in Live /\ r \in ToSet(running)
      /\ r \notin DOMAIN step.n /\ t.n \in Int /\ t.budget \in Int
  BY <1>1, <1>2, OnTrial
<1>4. /\ cache' \in Caches /\ GoodCache(cache', Live)
      /\ RowsStand(step', cache', computed)
      /\ DOMAIN step'.n = DOMAIN step.n \union {r}
      /\ LeadsToo(cache, step, cache', step')
  <2>5. PICK c \in Caches : c = cache
    BY Holding
  <2>1. PICK s, from, live, d, u :
            /\ s = step /\ from = computed /\ live = Live
            /\ d = Allocated(cache, r, HashesOf(r, t.inputs))
            /\ u = Joined(step, r, t.n, t.inputs)
    OBVIOUS
  <2>2. /\ GoodCache(c, live) /\ RowsStand(s, c, from)
        /\ r \in live /\ r \notin DOMAIN s.n /\ GoodFor(t, r, from[r], c)
        /\ d = Allocated(c, r, HashesOf(r, t.inputs))
        /\ u = Joined(s, r, t.n, t.inputs)
    BY <1>3, <2>1, <2>5, Holding
  <2>3. /\ d \in Caches /\ GoodCache(d, live)
        /\ RowsStand(u, d, from)
        /\ DOMAIN u.n = DOMAIN s.n \union {r}
        /\ LeadsToo(c, s, d, u)
    <3>1. r \in Requests
      BY <1>3
    <3>2. GoodFor(t, r, from[r], c)
      BY <2>2
    <3>3. d \in Caches /\ GoodCache(d, live)
      BY <2>2, <3>1, <3>2, RowJoins
    <3>4. RowsStand(u, d, from)
      BY <2>2, <3>1, <3>2, RowJoins
    <3>5. RowAdded(s, u, r)
      BY <2>2, <3>1, <3>2, RowJoins
    <3>6. LeadsToo(c, s, d, u)
      BY <2>2, <3>1, <3>2, RowJoins
    <3> QED BY <3>3, <3>4, <3>5, <3>6 DEF RowAdded
  <2>4. d = cache' /\ u = step'
    BY <1>2, <2>1
  <2> QED BY <2>1, <2>3, <2>4, <2>5
<1>5. Queued' /\ Live' = Live
  BY <1>2 DEF EncoderInv, Queued, Live
<1>6. Counted'
  <2>1. tokens \in Int /\ budget \in Int /\ cursor \in Nat
    BY Holding
  <2>2. tokens' \in Int
    BY <1>2, <1>3, <2>1
  <2>3. budget' \in Int
    BY <1>2, <1>3, <2>1
  <2>4. cursor' \in Nat /\ cursor' > 0
    BY <1>2, <2>1
  <2> QED BY <1>2, <2>2, <2>3, <2>4, Holding DEF Counted
<1>7. Accounted'
  BY <1>2, <1>4, <1>5 DEF Accounted
<1>8. StepStands'
  <2>1. RowsStand(step', cache', computed')
    BY <1>2, <1>4
  <2>2. DOMAIN step'.n \in SUBSET ToSet(running')
    BY <1>2, <1>3, <1>4, Holding
  <2>3. ASSUME NEW k \in 1..Len(running), cursor' <= k
        PROVE  running[k] \notin DOMAIN step'.n
    <3>1. cursor <= k /\ k # cursor
      BY <1>2, <1>3, <2>3
    <3>2. running[k] \notin DOMAIN step.n
      BY <1>2, <3>1 DEF EncoderInv, StepStands
    <3>3. \A i, j \in 1..Len(running) : running[i] = running[j] => i = j
      BY Holding, Members DEF IsQueue
    <3>4. running[k] # r
      BY <1>3, <3>1, <3>3
    <3> QED BY <1>4, <3>2, <3>4
  <2> QED BY <1>2, <2>1, <2>2, <2>3 DEF StepStands
<1>9. TrialStands'
  BY <1>2 DEF TrialStands
<1>10. UnderWay'
  BY <1>2, <1>4, StillUnderWay DEF LeadsToo
<1> QED BY <1>5, <1>6, <1>7, <1>8, <1>9, <1>10 DEF EncoderInv

\* A preemption marks the step and leaves its rows.
LEMMA MarkedStands ==
  ASSUME NEW s, NEW c, NEW from, RowsStand(s, c, from),
         NEW u, u = [s EXCEPT !.preempted = TRUE]
  PROVE  /\ RowsStand(u, c, from) /\ u.n = s.n
         /\ \A d : LeadsToo(d, s, d, u)
<1>1. s \in Steps
  BY DEF RowsStand
<1>2. /\ s = [n |-> s.n, rows |-> s.rows, inputs |-> s.inputs,
              preempted |-> s.preempted]
      /\ s.n \in Counts /\ s.rows \in Rows /\ s.inputs \in Images
  BY <1>1 DEF Steps
<1>3. u = [n |-> s.n, rows |-> s.rows, inputs |-> s.inputs, preempted |-> TRUE]
  BY <1>2
<1>4. u.n = s.n /\ u.rows = s.rows /\ u.inputs = s.inputs
  BY <1>3
<1>5. u \in Steps
  BY <1>2, <1>3 DEF Steps
<1>6. RowsStand(u, c, from)
  BY <1>4, <1>5 DEF RowsStand
<1>7. EncodedBy(u) = EncodedBy(s)
  BY <1>4 DEF EncodedBy
<1> QED BY <1>4, <1>6, <1>7 DEF Follows, LeadsToo

\* All but v keep what they refer to.
KeepsOthers(c, d, v) == \A r, h : r # v /\ Holds(c, r, h) => Holds(d, r, h)

\* A request without a row lets go of its images.
LEMMA FreedStands ==
  ASSUME NEW live \in SUBSET Requests, NEW c \in Caches, GoodCache(c, live),
         NEW s, NEW from, RowsStand(s, c, from),
         NEW v \in Requests, v \notin DOMAIN s.n,
         NEW d, d = FreedAll(c, v)
  PROVE  /\ d \in Caches /\ GoodCache(d, live)
         /\ RowsStand(s, d, from)
         /\ SameEntries(c, d) /\ KeepsOthers(c, d, v)
         /\ LeadsToo(c, s, d, s)
<1>1. /\ FreedAll(c, v) \in Caches /\ GoodCache(FreedAll(c, v), live \ {v})
      /\ SameEntries(c, FreedAll(c, v))
      /\ \A h \in Cached(c) : FreedAll(c, v).refs[h] = c.refs[h] \ {v}
  BY FreedOnes
<1>2. GoodCache(d, live)
  <2>1. live \ {v} \in SUBSET live
    OBVIOUS
  <2>2. GoodCache(d, live \ {v})
    BY <1>1
  <2> QED BY <2>1, <2>2, GoodInMore
<1>3. Cached(d) = Cached(c) /\ d.freed = c.freed
  BY <1>1 DEF SameEntries
<1>4. KeepsOthers(c, d, v)
  BY <1>1, <1>3 DEF Holds, KeepsOthers
<1>5. KeepsFor(c, d, DOMAIN s.n)
  BY <1>4 DEF KeepsFor, KeepsOthers
<1>6. RowsStand(s, d, from)
  BY <1>5, RowsStandOn
<1>7. ASSUME NEW w, NEW fs, NEW h, Follows(w, fs, h, c, s)
      PROVE  Follows(w, fs, h, d, s)
  BY <1>3, <1>7 DEF Follows
<1> QED BY <1>1, <1>2, <1>4, <1>6, <1>7 DEF LeadsToo

\* First come, first served: the last to run is preempted.
LEMMA PreemptKeeps ==
  ASSUME Policy = "fcfs", EncoderInv, Preempt
  PROVE  EncoderInv'
<1>1. PICK v : v = Last(running)
  OBVIOUS
<1>2. Victim = v /\ Policy # "priority"
  BY <1>1 DEF Victim
<1>3. /\ phase = "running" /\ trial # None
      /\ step' = [step EXCEPT !.preempted = TRUE]
      /\ tokens' = tokens /\ budget' = budget /\ cursor' = cursor
      /\ running' = Without(running, {v}) /\ waiting' = <<v>> \o waiting
      /\ status' = [status EXCEPT ![v] = "WAITING"]
      /\ computed' = [computed EXCEPT ![v] = 0]
      /\ cache' = FreedAll(cache, v)
      /\ IF v = trial.r THEN phase' = "end" /\ trial' = None
         ELSE phase' = phase /\ trial' = trial
      /\ frames' = frames /\ results' = results /\ held' = held /\ missed' = missed
  BY <1>2 DEF Preempt, Unscheduled, pipeVars
<1>4. /\ cursor \in 1..Len(running) /\ running # <<>> /\ Len(running) \in Nat
      /\ trial.r = running[cursor]
      /\ GoodFor(trial, trial.r, computed[trial.r], cache)
  BY <1>3, OnTrial
<1>5. /\ status \in [Requests -> {"NEW", "WAITING", "RUNNING", "FINISHED"}]
      /\ IsQueue(running, Requests) /\ IsQueue(waiting, Requests)
      /\ ToSet(running) = {q \in Requests : status[q] = "RUNNING"}
      /\ ToSet(waiting) = {q \in Requests : status[q] = "WAITING"}
      /\ computed \in [Requests -> Int]
      /\ Live \in SUBSET Requests
  BY Holding
<1>6. /\ v \in Requests /\ v \in ToSet(running) /\ v = running[Len(running)]
      /\ running' = Front(running)
      /\ IsQueue(running', Requests) /\ Len(running') = Len(running) - 1
      /\ \A i \in 1..(Len(running) - 1) : running'[i] = running[i]
      /\ ToSet(running') = ToSet(running) \ {v}
  <2>1. PICK line, left : line = running /\ left = running'
    OBVIOUS
  <2>2. IsQueue(line, Requests) /\ line # <<>> /\ v = Last(line)
    BY <1>1, <1>4, <1>5, <2>1
  <2>3. left = Front(line)
    BY <1>1, <1>3, <2>1, <2>2, WithoutLast
  <2>4. /\ v \in Requests /\ v \in ToSet(line) /\ v = line[Len(line)]
        /\ IsQueue(Front(line), Requests) /\ Len(Front(line)) = Len(line) - 1
        /\ \A i \in 1..(Len(line) - 1) : Front(line)[i] = line[i]
        /\ ToSet(Front(line)) = ToSet(line) \ {v}
    BY <2>2, FrontOfQueue
  <2> QED BY <2>1, <2>3, <2>4
<1>7. \A q \in Requests : status'[q] = IF q = v THEN "WAITING" ELSE status[q]
  BY <1>3, <1>5
<1>8. Queued'
  <2>1. status' \in [Requests -> {"NEW", "WAITING", "RUNNING", "FINISHED"}]
    BY <1>3, <1>5
  <2>2. v \notin ToSet(waiting)
    BY <1>5, <1>6
  <2>3. IsQueue(<<v>>, Requests) /\ ToSet(<<v>>) = {v}
    BY <1>6, SingletonQueue
  <2>4. IsQueue(waiting', Requests) /\ ToSet(waiting') = {v} \union ToSet(waiting)
    <3>1. ToSet(<<v>>) \intersect ToSet(waiting) = {}
      BY <2>2, <2>3
    <3>2. /\ IsQueue(<<v>> \o waiting, Requests)
          /\ ToSet(<<v>> \o waiting) = ToSet(<<v>>) \union ToSet(waiting)
      BY <1>5, <2>3, <3>1, ConcatQueues
    <3> QED BY <1>3, <2>3, <3>2
  <2>5. ToSet(waiting') = {q \in Requests : status'[q] = "WAITING"}
    BY <1>5, <1>6, <1>7, <2>4
  <2>6. ToSet(running') = {q \in Requests : status'[q] = "RUNNING"}
    BY <1>5, <1>6, <1>7
  <2> QED BY <1>6, <2>1, <2>4, <2>5, <2>6 DEF Queued
<1>9. Live' = Live
  BY <1>5, <1>6, <1>7 DEF Live
<1>10. Counted'
  <2>2. computed' = [computed EXCEPT ![v] = 0] /\ computed \in [Requests -> Int]
    BY <1>3, <1>5
  <2>3. PICK from, to : from = computed /\ to = computed'
    OBVIOUS
  <2>4. to = [from EXCEPT ![v] = 0] /\ from \in [Requests -> Int] /\ 0 \in Int
    BY <2>2, <2>3
  <2>5. to \in [Requests -> Int]
    BY <2>4
  <2>1. computed' \in [Requests -> Int]
    BY <2>3, <2>5
  <2> QED BY <1>3, <2>1, Holding DEF Counted
<1>11. v \notin DOMAIN step.n
  BY SMTT(30), <1>3, <1>4, <1>6 DEF EncoderInv, StepStands
<1>12. /\ cache' \in Caches /\ GoodCache(cache', Live)
       /\ RowsStand(step, cache', computed)
       /\ SameEntries(cache, cache') /\ KeepsOthers(cache, cache', v)
       /\ LeadsToo(cache, step, cache', step)
  <2>1. PICK c \in Caches : c = cache
    BY Holding
  <2>2. PICK live \in SUBSET Requests : live = Live
    BY <1>5
  <2>3. PICK s, from, d : s = step /\ from = computed /\ d = FreedAll(c, v)
    OBVIOUS
  <2>4. /\ GoodCache(c, live) /\ RowsStand(s, c, from) /\ v \notin DOMAIN s.n
    BY <1>11, <2>1, <2>2, <2>3, Holding
  <2>5. d \in Caches /\ GoodCache(d, live) /\ RowsStand(s, d, from)
    BY <1>6, <2>3, <2>4, FreedStands
  <2>6. SameEntries(c, d)
    BY <1>6, <2>3, <2>4, FreedStands
  <2>7. KeepsOthers(c, d, v)
    BY <1>6, <2>3, <2>4, FreedStands
  <2>8. LeadsToo(c, s, d, s)
    BY <1>6, <2>3, <2>4, FreedStands
  <2>9. cache' = d
    BY <1>3, <2>1, <2>3
  <2> QED BY <2>1, <2>2, <2>3, <2>5, <2>6, <2>7, <2>8, <2>9
<1>13. /\ RowsStand(step', cache', computed) /\ step'.n = step.n
       /\ LeadsToo(cache', step, cache', step')
  <2>1. PICK s, u, c, from : s = step /\ u = step' /\ c = cache' /\ from = computed
    OBVIOUS
  <2>2. u = [s EXCEPT !.preempted = TRUE] /\ RowsStand(s, c, from)
    BY <1>3, <1>12, <2>1
  <2>3. RowsStand(u, c, from) /\ u.n = s.n /\ \A d : LeadsToo(d, s, d, u)
    BY <2>2, MarkedStands
  <2> QED BY <2>1, <2>3
<1>14. Accounted'
  BY <1>3, <1>9, <1>12 DEF Accounted
<1>15. StepStands'
  <2>1. RowsStand(step', cache', computed')
    <3>1. \A r \in DOMAIN step'.n : computed'[r] = computed[r]
      <4>1. DOMAIN step'.n \in SUBSET Requests
        BY <1>5, <1>13, Holding
      <4> QED BY <1>3, <1>5, <1>11, <1>13, <4>1
    <3>2. KeepsFor(cache', cache', DOMAIN step'.n)
      BY DEF KeepsFor
    <3>3. PICK s, c, from, to : s = step' /\ c = cache' /\ from = computed /\ to = computed'
      OBVIOUS
    <3>4. RowsStand(s, c, from) /\ KeepsFor(c, c, DOMAIN s.n)
          /\ \A r \in DOMAIN s.n : to[r] = from[r]
      BY <1>13, <3>1, <3>2, <3>3
    <3>5. RowsStand(s, c, to)
      BY <3>4, RowsStandOn
    <3> QED BY <3>3, <3>5
  <2>2. DOMAIN step'.n \in SUBSET ToSet(running')
    BY <1>6, <1>11, <1>13, Holding
  <2>3. ASSUME NEW k \in 1..Len(running'), cursor' <= k
        PROVE  running'[k] \notin DOMAIN step'.n
    <3>1. k \in 1..(Len(running) - 1) /\ k \in 1..Len(running) /\ cursor <= k
      <4>0. Len(running) \in Nat /\ Len(running') \in Nat
        <5>1. running \in Seq(Requests) /\ running' \in Seq(Requests)
          BY <1>5, <1>6 DEF IsQueue
        <5> QED BY <5>1, LenProperties
      <4>1. PICK m, l \in Nat : m = Len(running) /\ l = Len(running')
        BY <4>0
      <4>2. l = m - 1 /\ k \in 1..l /\ cursor <= k
        BY <1>3, <1>6, <2>3, <4>1
      <4>3. k \in 1..(m - 1) /\ k \in 1..m
        BY <4>2
      <4> QED BY <4>1, <4>2, <4>3
    <3>2. running[k] \notin DOMAIN step.n
      BY <1>3, <3>1 DEF EncoderInv, StepStands
    <3> QED BY <1>6, <1>13, <3>1, <3>2
  <2> QED BY <2>1, <2>2, <2>3 DEF StepStands
<1>16. TrialStands'
  <2>1. CASE v = trial.r
    BY <1>3, <2>1 DEF TrialStands
  <2>2. CASE v # trial.r
    <3>1. PICK r, t, c, d, from : /\ r = trial.r /\ t = trial /\ c = cache /\ d = cache'
                                  /\ from = computed[r]
      OBVIOUS
    <3>2. phase' = phase /\ trial' = t /\ r # v /\ cursor' = cursor
      BY <1>3, <2>2, <3>1
    <3>3. cursor # Len(running)
      BY <1>4, <1>6, <2>2
    <3>4. cursor \in 1..(Len(running) - 1)
      BY <1>4, <3>3
    <3>5. cursor' <= Len(running') /\ running'[cursor'] = r
      BY <1>4, <1>6, <3>1, <3>2, <3>4
    <3>6. r \in Requests
      BY <1>3, <3>1, OnTrial
    <3>7. computed'[r] = from
      BY <1>3, <1>5, <3>1, <3>2, <3>6
    <3>8. GoodFor(t, r, from, d)
      <4>1. GoodFor(t, r, from, c)
        BY <1>4, <3>1
      <4>2. Cached(d) = Cached(c) /\ \A h : Holds(c, r, h) => Holds(d, r, h)
        BY <1>12, <3>1, <3>2 DEF SameEntries, KeepsOthers
      <4>3. FreeSlots(d) = FreeSlots(c)
        BY <4>2 DEF FreeSlots
      <4> QED BY <4>1, <4>2, <4>3 DEF GoodFor
    <3>9. GoodFor(trial', running'[cursor'], computed'[running'[cursor']], cache')
      BY <3>1, <3>2, <3>5, <3>7, <3>8
    <3> QED BY <1>3, <3>2, <3>5, <3>9 DEF TrialStands
  <2> QED BY <2>1, <2>2
<1>17. UnderWay'
  <2>1. \A w : Follows(w, frames, held, cache, step)
                 => Follows(w, frames, held, cache', step')
    BY <1>12, <1>13 DEF LeadsToo
  <2> QED BY <1>3, <2>1, StillUnderWay
<1> QED BY <1>8, <1>10, <1>14, <1>15, <1>16, <1>17 DEF EncoderInv

\* The request at the head of the queue has no row.
LEMMA Waits ==
  ASSUME Policy = "fcfs", EncoderInv, waiting # <<>>, NEW r, r = Peek
  PROVE  /\ r \in Requests /\ r \in ToSet(waiting) /\ r \in Live
         /\ status[r] = "WAITING" /\ r \notin ToSet(running)
         /\ r \notin DOMAIN step.n
<1>1. r = Head(waiting)
  BY DEF Peek
<1>2. IsQueue(waiting, Requests)
  BY Holding
<1>3. r \in Requests /\ r \in ToSet(waiting)
  BY <1>1, <1>2, TailOfQueue
<1>4. status[r] = "WAITING" /\ r \in Live
  BY <1>3, Holding
<1>5. r \notin ToSet(running)
  BY <1>4, Holding
<1> QED BY <1>3, <1>4, <1>5, Holding

\* Its trial, once `hit' positions of it are found in the prefix cache.
TrialAt(r, hit) == Try(r, hit, Min({NumPromptTokens[r] - hit, tokens}))

\* There is room for it.
Runs(r, hit, t) ==
  /\ t.n > 0
  /\ Scheduled(t)
  /\ cache' = Allocated(t.cache, r, HashesOf(r, t.inputs))
  /\ waiting' = Without(waiting, {r})
  /\ running' = Append(running, r)
  /\ status' = [status EXCEPT ![r] = "RUNNING"]
  /\ computed' = [computed EXCEPT ![r] = hit]
  /\ UNCHANGED <<phase, noRoom>>

\* The accounts of the trial of a waiting request.
LEMMA WaitingTried ==
  ASSUME Policy = "fcfs", EncoderInv, waiting # <<>>, NEW r, r = Peek,
         NEW hit \in PrefixHits,
         NEW t, t = TrialAt(r, hit)
  PROVE  /\ t \in Trials /\ t.r = r /\ t.cache \in Caches /\ GoodCache(t.cache, Live)
         /\ t.n # 0 => GoodFor(t, r, hit, t.cache)
         /\ RowsStand(step, t.cache, computed)
         /\ \A w : Follows(w, frames, held, cache, step)
                     => Follows(w, frames, held, t.cache, step)
         /\ hit \in Int
<1>1. r \in Requests /\ r \in Live
  BY Waits
<1>2. PICK n : n = Min({NumPromptTokens[r] - hit, tokens})
  OBVIOUS
<1>3. hit \in Nat
  BY EncoderAssumption
<1>4. n \in Int
  <2>1. NumPromptTokens \in [Requests -> Nat]
    BY EncoderAssumption
  <2>2. tokens \in Int
    BY Holding
  <2>3. PICK x, y \in Int : x = NumPromptTokens[r] - hit /\ y = tokens
    BY <1>1, <1>3, <2>1, <2>2
  <2>4. Min({x, y}) \in Int
    BY LessOfTwo
  <2> QED BY <1>2, <2>3, <2>4
<1>5. /\ t \in Trials /\ t.r = r /\ t.cache \in Caches /\ GoodCache(t.cache, Live)
      /\ Evolves(cache, t.cache, r)
      /\ t.n # 0 => GoodFor(t, r, hit, t.cache)
  <2>1. PICK live \in SUBSET Requests : live = Live
    BY Holding
  <2>2. GoodCache(cache, live) /\ cache \in Caches /\ budget \in Int /\ r \in live
    BY <1>1, <2>1, Holding
  <2>3. PICK c \in Int : c = hit
    BY <1>3
  <2>4. t = Try(r, c, n)
    BY <1>2, <2>3 DEF TrialAt
  <2>5. /\ t \in Trials /\ t.r = r /\ t.cache \in Caches /\ GoodCache(t.cache, live)
        /\ Evolves(cache, t.cache, r)
        /\ t.n # 0 => GoodFor(t, r, c, t.cache)
    BY <1>1, <1>4, <2>2, <2>4, TriedWell
  <2> QED BY <2>1, <2>3, <2>5
<1>6. /\ RowsStand(step, t.cache, computed)
      /\ \A w : Follows(w, frames, held, cache, step)
                  => Follows(w, frames, held, t.cache, step)
  BY <1>5, EvolvesStands
<1>7. hit \in Int
  BY <1>3
<1> QED BY <1>5, <1>6, <1>7

\* The step ends without the request.
LEMMA WaitingEnds ==
  ASSUME Policy = "fcfs", EncoderInv, waiting # <<>>, NEW r, r = Peek,
         NEW hit \in PrefixHits,
         NEW t, t = TrialAt(r, hit),
         phase = "waiting", phase' = "end",
         cache' = t.cache \/ cache' = FreedAll(t.cache, r),
         status' = status, computed' = computed, waiting' = waiting,
         running' = running, tokens' = tokens, budget' = budget,
         trial' = trial, step' = step, cursor' = cursor, UNCHANGED pipeVars
  PROVE  EncoderInv'
<1>1. /\ t \in Trials /\ t.r = r /\ t.cache \in Caches /\ GoodCache(t.cache, Live)
      /\ RowsStand(step, t.cache, computed)
      /\ \A w : Follows(w, frames, held, cache, step)
                  => Follows(w, frames, held, t.cache, step)
  BY WaitingTried
<1>2. r \in Requests /\ r \notin DOMAIN step.n
  BY Waits
<1>3. /\ cache' \in Caches /\ GoodCache(cache', Live)
      /\ RowsStand(step, cache', computed)
      /\ \A w : Follows(w, frames, held, cache, step)
                  => Follows(w, frames, held, cache', step)
  <2>1. CASE cache' = t.cache
    BY <1>1, <2>1
  <2>2. CASE cache' = FreedAll(t.cache, r)
    <3>1. PICK c \in Caches : c = t.cache
      BY <1>1
    <3>2. PICK live \in SUBSET Requests : live = Live
      BY Holding
    <3>3. PICK s, from, d : s = step /\ from = computed /\ d = FreedAll(c, r)
      OBVIOUS
    <3>4. GoodCache(c, live) /\ RowsStand(s, c, from) /\ r \notin DOMAIN s.n
      BY <1>1, <1>2, <3>1, <3>2, <3>3
    <3>5. d \in Caches /\ GoodCache(d, live) /\ RowsStand(s, d, from)
      BY <1>2, <3>3, <3>4, FreedStands
    <3>6. LeadsToo(c, s, d, s)
      BY <1>2, <3>3, <3>4, FreedStands
    <3>7. \A w : Follows(w, frames, held, cache, step)
                   => Follows(w, frames, held, d, step)
      BY <1>1, <3>1, <3>3, <3>6 DEF LeadsToo
    <3> QED BY <2>2, <3>1, <3>2, <3>3, <3>5, <3>7
  <2> QED BY <2>1, <2>2
<1>4. Queued' /\ Live' = Live
  BY DEF EncoderInv, Queued, Live
<1>5. Counted'
  BY DEF EncoderInv, Counted
<1>6. Accounted'
  BY <1>3, <1>4 DEF Accounted
<1>7. StepStands'
  BY <1>3, Holding DEF StepStands
<1>8. TrialStands'
  <2>1. trial = None
    BY Holding
  <2> QED BY <2>1 DEF TrialStands
<1>9. UnderWay'
  BY <1>3, StillUnderWay DEF pipeVars
<1> QED BY <1>4, <1>5, <1>6, <1>7, <1>8, <1>9 DEF EncoderInv

\* The request runs.
LEMMA WaitingRuns ==
  ASSUME Policy = "fcfs", EncoderInv, waiting # <<>>, NEW r, r = Peek,
         NEW hit \in PrefixHits, NEW t, t = TrialAt(r, hit),
         phase = "waiting", Runs(r, hit, t), cursor' = cursor, UNCHANGED pipeVars
  PROVE  EncoderInv'
<1>0. /\ phase' = "waiting" /\ t.n > 0 /\ Scheduled(t)
      /\ cache' = Allocated(t.cache, r, HashesOf(r, t.inputs))
      /\ waiting' = Without(waiting, {r}) /\ running' = Append(running, r)
      /\ status' = [status EXCEPT ![r] = "RUNNING"]
      /\ computed' = [computed EXCEPT ![r] = hit]
  BY DEF Runs
<1>1. /\ t \in Trials /\ t.r = r /\ t.cache \in Caches /\ GoodCache(t.cache, Live)
      /\ t.n # 0 => GoodFor(t, r, hit, t.cache)
      /\ RowsStand(step, t.cache, computed)
      /\ \A w : Follows(w, frames, held, cache, step)
                  => Follows(w, frames, held, t.cache, step)
      /\ hit \in Int
  BY WaitingTried
<1>2. t.n \in Int /\ t.budget \in Int /\ t.n # 0
  <2>1. t.n \in Int /\ t.budget \in Int
    BY <1>1, TrialFields
  <2>2. t.n > 0
    BY <1>0
  <2> QED BY <2>1, <2>2
<1>3. /\ r \in Requests /\ r \in ToSet(waiting) /\ r \in Live
      /\ status[r] = "WAITING" /\ r \notin ToSet(running)
      /\ r \notin DOMAIN step.n
  BY Waits
<1>4. /\ step' = Joined(step, r, t.n, t.inputs) /\ trial' = None
      /\ tokens' = tokens - t.n
      /\ budget' = IF t.inputs = {} THEN budget ELSE t.budget
  BY <1>0, <1>1 DEF Scheduled, Joined
<1>5. /\ status \in [Requests -> {"NEW", "WAITING", "RUNNING", "FINISHED"}]
      /\ IsQueue(running, Requests) /\ IsQueue(waiting, Requests)
      /\ ToSet(running) = {q \in Requests : status[q] = "RUNNING"}
      /\ ToSet(waiting) = {q \in Requests : status[q] = "WAITING"}
      /\ computed \in [Requests -> Int] /\ Live \in SUBSET Requests
  BY Holding
<1>6. \A q \in Requests : status'[q] = IF q = r THEN "RUNNING" ELSE status[q]
  <2>1. status' = [status EXCEPT ![r] = "RUNNING"]
    BY <1>0
  <2> QED BY <1>5, <2>1
<1>7. IsQueue(waiting', Requests) /\ ToSet(waiting') = ToSet(waiting) \ {r}
  BY <1>0, <1>5, WithoutQueue
<1>8. IsQueue(running', Requests) /\ ToSet(running') = ToSet(running) \union {r}
  BY <1>0, <1>3, <1>5, AppendToQueue
<1>9. Queued'
  <2>1. status' \in [Requests -> {"NEW", "WAITING", "RUNNING", "FINISHED"}]
    <3>1. status' = [status EXCEPT ![r] = "RUNNING"]
      BY <1>0
    <3>2. PICK f, g : f = status /\ g = status'
      OBVIOUS
    <3>3. g = [f EXCEPT ![r] = "RUNNING"]
          /\ f \in [Requests -> {"NEW", "WAITING", "RUNNING", "FINISHED"}]
      BY <1>5, <3>1, <3>2
    <3>4. g \in [Requests -> {"NEW", "WAITING", "RUNNING", "FINISHED"}]
      BY <3>3
    <3> QED BY <3>2, <3>4
  <2>2. ToSet(waiting') = {q \in Requests : status'[q] = "WAITING"}
    BY <1>5, <1>6, <1>7
  <2>3. ToSet(running') = {q \in Requests : status'[q] = "RUNNING"}
    BY <1>3, <1>5, <1>6, <1>8
  <2> QED BY <1>7, <1>8, <2>1, <2>2, <2>3 DEF Queued
<1>10. Live' = Live
  BY <1>3, <1>5, <1>6 DEF Live
<1>11. /\ computed' \in [Requests -> Int]
       /\ computed'[r] = hit /\ \A q \in Requests : q # r => computed'[q] = computed[q]
  <2>1. PICK f, g : f = computed /\ g = computed'
    OBVIOUS
  <2>2. g = [f EXCEPT ![r] = hit] /\ f \in [Requests -> Int]
    BY <1>0, <1>5, <2>1
  <2>3. /\ g \in [Requests -> Int]
        /\ g[r] = hit /\ \A q \in Requests : q # r => g[q] = f[q]
    BY <1>1, <1>3, <2>2
  <2> QED BY <2>1, <2>3
<1>12. Counted'
  <2>1. tokens \in Int /\ budget \in Int
    BY Holding
  <2>2. tokens' \in Int
    BY <1>2, <1>4, <2>1
  <2>3. budget' \in Int
    BY <1>2, <1>4, <2>1
  <2> QED BY <1>11, <2>2, <2>3, Holding DEF Counted
<1>13. /\ cache' \in Caches /\ GoodCache(cache', Live)
       /\ RowsStand(step', cache', computed')
       /\ DOMAIN step'.n = DOMAIN step.n \union {r}
       /\ \A w : Follows(w, frames, held, cache, step)
                   => Follows(w, frames, held, cache', step')
  <2>1. PICK c \in Caches : c = t.cache
    BY <1>1
  <2>2. PICK s, from, to, live, d, u :
            /\ s = step /\ from = computed /\ to = computed' /\ live = Live
            /\ d = Allocated(c, r, HashesOf(r, t.inputs))
            /\ u = Joined(s, r, t.n, t.inputs)
    OBVIOUS
  <2>3. RowsStand(s, c, from)
    BY <1>1, <2>1, <2>2
  <2>4. RowsStand(s, c, to)
    <3>1. KeepsFor(c, c, DOMAIN s.n)
      BY DEF KeepsFor
    <3>2. \A q \in DOMAIN s.n : to[q] = from[q]
      <4>1. DOMAIN s.n \in SUBSET Requests
        BY <1>5, <2>2, Holding
      <4> QED BY <1>3, <1>11, <2>2, <4>1
    <3> QED BY <2>3, <3>1, <3>2, RowsStandOn
  <2>5. GoodFor(t, r, to[r], c)
    BY <1>1, <1>2, <1>11, <2>1, <2>2
  <2>6. r \in Requests /\ r \in live /\ r \notin DOMAIN s.n /\ GoodCache(c, live)
    BY <1>1, <1>3, <2>1, <2>2
  <2>7. d \in Caches /\ GoodCache(d, live)
    BY <2>2, <2>4, <2>5, <2>6, RowJoins
  <2>8. RowsStand(u, d, to)
    BY <2>2, <2>4, <2>5, <2>6, RowJoins
  <2>9. RowAdded(s, u, r)
    BY <2>2, <2>4, <2>5, <2>6, RowJoins
  <2>10. LeadsToo(c, s, d, u)
    BY <2>2, <2>4, <2>5, <2>6, RowJoins
  <2>11. \A w : Follows(w, frames, held, cache, step) => Follows(w, frames, held, d, u)
    BY <1>1, <2>1, <2>2, <2>10 DEF LeadsToo
  <2>12. cache' = d /\ step' = u
    BY <1>0, <1>4, <2>1, <2>2
  <2> QED BY <2>2, <2>7, <2>8, <2>9, <2>11, <2>12 DEF RowAdded
<1>14. Accounted'
  BY <1>0, <1>10, <1>13 DEF Accounted
<1>15. StepStands'
  <2>1. DOMAIN step'.n \in SUBSET ToSet(running')
    BY <1>8, <1>13, Holding
  <2> QED BY <1>0, <1>13, <2>1 DEF StepStands
<1>16. TrialStands'
  BY <1>4 DEF TrialStands
<1>17. UnderWay'
  BY <1>13, StillUnderWay DEF pipeVars
<1> QED BY <1>9, <1>12, <1>14, <1>15, <1>16, <1>17 DEF EncoderInv

\* The head of the waiting queue is tried, and runs or ends the loop.
LEMMA TryWaitingKeeps ==
  ASSUME Policy = "fcfs", EncoderInv, TryWaiting
  PROVE  EncoderInv'
<1>1. /\ phase = "waiting" /\ waiting # <<>> /\ cursor' = cursor /\ UNCHANGED pipeVars
  BY DEF TryWaiting, MayAdmit
<1>2. PICK r : r = Peek
  OBVIOUS
<1>3. PICK hit \in PrefixHits :
        LET t == TrialAt(r, hit)
        IN  \/ /\ cache' = t.cache \/ cache' = FreedAll(t.cache, r)
               /\ phase' = "end"
               /\ UNCHANGED <<status, computed, waiting, running, tokens, budget,
                              trial, step>>
            \/ Runs(r, hit, t)
  BY <1>2 DEF TryWaiting, TrialAt, Runs
<1>4. PICK t : t = TrialAt(r, hit)
  OBVIOUS
<1>5. CASE /\ cache' = t.cache \/ cache' = FreedAll(t.cache, r)
           /\ phase' = "end"
           /\ UNCHANGED <<status, computed, waiting, running, tokens, budget,
                          trial, step>>
  BY <1>1, <1>2, <1>4, <1>5, WaitingEnds
<1>6. CASE Runs(r, hit, t)
  BY <1>1, <1>2, <1>4, <1>6, WaitingRuns
<1> QED BY <1>3, <1>4, <1>5, <1>6

-----------------------------------------------------------------------------
(* The end of schedule(), and the worker.                                  *)

\* The SchedulerOutput of a step.
FrameOf(s, c, from) ==
  [n |-> s.n, rows |-> s.rows, inputs |-> s.inputs, freed |-> c.freed,
   computed |-> from]

\* It gathers what is counted, and encodes what its step does.
LEMMA FrameStands ==
  ASSUME NEW s, NEW c \in Caches, NEW from \in [Requests -> Int],
         RowsStand(s, c, from)
  PROVE  /\ FrameOf(s, c, from) \in FrameSet
         /\ FrameOf(s, c, from).freed = c.freed
         /\ EncodedBy(FrameOf(s, c, from)) = EncodedBy(s)
         /\ Gathered(FrameOf(s, c, from)) \in SUBSET Cached(c)
<1>1. PICK f : f = FrameOf(s, c, from)
  OBVIOUS
<1>2. /\ f.n = s.n /\ f.rows = s.rows /\ f.inputs = s.inputs
      /\ f.freed = c.freed /\ f.computed = from
  BY <1>1 DEF FrameOf
<1>3. s \in Steps /\ c.freed \in SUBSET Hashes
  BY CacheType DEF RowsStand
<1>4. f \in FrameSet
  BY <1>1, <1>3 DEF FrameOf, FrameSet, Steps
<1>5. EncodedBy(f) = EncodedBy(s)
  BY <1>2 DEF EncodedBy
<1>6. ASSUME NEW h \in Gathered(f) PROVE h \in Cached(c)
  <2>1. PICK r \in DOMAIN s.n : h \in {Hash(r, i) : i \in {j \in Inputs(r) :
                                   /\ Start(r, j) < from[r] + s.n[r]
                                   /\ from[r] < End(r, j)}}
    BY <1>2, <1>6 DEF Gathered
  <2>2. PICK i \in Inputs(r) : h = Hash(r, i) /\ Needed(r, i, from[r], s.n[r])
    BY <2>1 DEF Needed
  <2>3. Holds(c, r, h)
    BY <2>2 DEF RowsStand
  <2> QED BY <2>3 DEF Holds
<1> QED BY <1>1, <1>2, <1>4, <1>5, <1>6

\* The frame goes out behind those under way.
LEMMA FollowedByFrame ==
  ASSUME NEW fs \in Seq(FrameSet), NEW w \in [0..Len(fs) -> SUBSET Hashes],
         NEW h, NEW c \in Caches, NEW s, Follows(w, fs, h, c, s),
         NEW from \in [Requests -> Int], RowsStand(s, c, from),
         NEW d, Cached(d) = Cached(c), d.freed = {}
  PROVE  \E u \in [0..Len(Append(fs, FrameOf(s, c, from))) -> SUBSET Hashes] :
           Follows(u, Append(fs, FrameOf(s, c, from)), h, d, EmptyStep)
<1>1. PICK f \in FrameSet : f = FrameOf(s, c, from)
  BY FrameStands
<1>2. /\ f.freed = c.freed /\ EncodedBy(f) = EncodedBy(s)
      /\ Gathered(f) \in SUBSET Cached(c)
  BY <1>1, FrameStands
<1>3. PICK n \in Nat : n = Len(fs)
  OBVIOUS
<1>4. PICK gs : gs = Append(fs, f)
  OBVIOUS
<1>5. /\ gs \in Seq(FrameSet) /\ Len(gs) = n + 1 /\ gs[n + 1] = f
      /\ \A k \in 1..n : gs[k] = fs[k]
  BY <1>3, <1>4
<1>6. PICK all : all = Cached(c) /\ all \in SUBSET Hashes
  BY CacheType
<1>7. PICK u : u = [k \in 0..(n + 1) |-> IF k <= n THEN w[k] ELSE all]
  OBVIOUS
<1>8. /\ u \in [0..(n + 1) -> SUBSET Hashes]
      /\ \A k \in 0..n : u[k] = w[k]
      /\ u[n + 1] = all
  <2>1. \A k \in 0..(n + 1) : k <= n => k \in 0..n
    OBVIOUS
  <2>2. \A k \in 0..n : k \in 0..(n + 1) /\ k <= n
    OBVIOUS
  <2>3. n + 1 \in 0..(n + 1) /\ ~(n + 1 <= n)
    OBVIOUS
  <2> QED BY <1>3, <1>6, <1>7, <2>1, <2>2, <2>3
<1>9. u[0] = h
  <2>1. 0 \in 0..n
    OBVIOUS
  <2> QED BY <1>8, <2>1 DEF Follows
<1>10. ASSUME NEW k \in 1..(n + 1)
       PROVE  u[k] = HeldAfter(gs[k], u[k - 1]) /\ Gathered(gs[k]) \in SUBSET u[k]
  <2>1. CASE k \in 1..n
    <3>1. k \in 0..n /\ k - 1 \in 0..n
      BY <2>1
    <3>2. w[k] = HeldAfter(fs[k], w[k - 1]) /\ Gathered(fs[k]) \in SUBSET w[k]
      BY <1>3, <2>1 DEF Follows
    <3>3. u[k] = w[k] /\ u[k - 1] = w[k - 1] /\ gs[k] = fs[k]
      BY <1>5, <1>8, <2>1, <3>1
    <3> QED BY <3>2, <3>3
  <2>2. CASE k = n + 1
    <3>1. k - 1 = n /\ n \in 0..n
      BY <2>2
    <3>2. (w[n] \ c.freed) \union EncodedBy(s) = all
      BY <1>3, <1>6 DEF Follows
    <3>3. u[k - 1] = w[n] /\ u[k] = all /\ gs[k] = f
      BY <1>5, <1>8, <2>2, <3>1
    <3> QED BY <1>2, <1>6, <3>2, <3>3 DEF HeldAfter
  <2>3. k \in 1..n \/ k = n + 1
    OBVIOUS
  <2> QED BY <2>1, <2>2, <2>3
<1>11. (u[n + 1] \ d.freed) \union EncodedBy(EmptyStep) = Cached(d)
  BY <1>6, <1>8, EmptyStepStands
<1>12. Follows(u, gs, h, d, EmptyStep)
  BY <1>5, <1>9, <1>10, <1>11 DEF Follows
<1> QED BY <1>1, <1>4, <1>5, <1>8, <1>12

\* The step goes out.
LEMMA EndStepKeeps ==
  ASSUME EncoderInv, EndStep
  PROVE  EncoderInv'
<1>1. /\ phase' = "idle" /\ step' = EmptyStep
      /\ cursor' = 1 /\ tokens' = 0 /\ budget' = 0 /\ trial' = trial
      /\ status' = status /\ waiting' = waiting /\ running' = running
      /\ frames' = Append(frames, FrameOf(step, cache, computed))
      /\ cache' = [cache EXCEPT !.freed = {}]
      /\ computed' = [r \in Requests |->
                        computed[r] + IF r \in DOMAIN step.n THEN step.n[r] ELSE 0]
      /\ results' = results /\ held' = held /\ missed' = missed
      /\ phase # "running"
  BY DEF EndStep, FrameOf
<1>2. Queued' /\ Live' = Live
  BY <1>1 DEF EncoderInv, Queued, Live
<1>3. computed' \in [Requests -> Int]
  <2>1. PICK s, f : s = step.n /\ f = computed
    OBVIOUS
  <2>2. \A r \in DOMAIN s : s[r] \in Int
    BY <2>1, Holding, Partial DEF RowsStand, Steps, Counts
  <2>3. f \in [Requests -> Int]
    BY <2>1, Holding
  <2>4. \A r \in Requests : f[r] + (IF r \in DOMAIN s THEN s[r] ELSE 0) \in Int
    BY <2>2, <2>3
  <2> QED BY <1>1, <2>1, <2>4
<1>4. Counted'
  BY <1>1, <1>3 DEF Counted
<1>5. trial = None /\ trial' = None
  BY <1>1, Holding
<1>60. PICK c \in Caches : c = cache /\ GoodCache(c, Live)
  BY Holding
<1>6. PICK d : c = cache /\ d = [c EXCEPT !.freed = {}] /\ GoodCache(c, Live)
  BY <1>60
<1>7. /\ d \in Caches /\ d.freed = {} /\ d.refs = c.refs /\ d.freeable = c.freeable
      /\ Cached(d) = Cached(c)
  BY <1>6 DEF Caches, Cached
<1>8. GoodCache(d, Live)
  BY <1>6, <1>7 DEF GoodCache, FreeSlots
<1>9. cache' = d
  BY <1>1, <1>6
<1>10. Accounted'
  BY <1>1, <1>2, <1>5, <1>7, <1>8, <1>9 DEF Accounted
<1>11. StepStands'
  BY <1>1, EmptyStepStands DEF StepStands
<1>12. TrialStands'
  BY <1>5 DEF TrialStands
<1>13. UnderWay'
  <2>1. PICK fs \in Seq(FrameSet) : fs = frames
    BY Holding
  <2>2. PICK w \in [0..Len(fs) -> SUBSET Hashes] : Follows(w, fs, held, c, step)
    BY <1>6, <2>1 DEF EncoderInv, UnderWay
  <2>3. PICK from \in [Requests -> Int] : from = computed
    BY Holding
  <2>4. RowsStand(step, c, from)
    BY <1>6, <2>3, Holding
  <2>5. \E u \in [0..Len(Append(fs, FrameOf(step, c, from))) -> SUBSET Hashes] :
           Follows(u, Append(fs, FrameOf(step, c, from)), held, d, EmptyStep)
    BY <1>7, <2>2, <2>4, FollowedByFrame
  <2>6. FrameOf(step, c, from) \in FrameSet
    BY <2>4, FrameStands
  <2>7. PICK f \in FrameSet : f = FrameOf(step, c, from)
    BY <2>6
  <2>8. Append(fs, f) \in Seq(FrameSet)
    OBVIOUS
  <2>9. frames' = Append(fs, f)
    BY <1>1, <1>6, <2>1, <2>3, <2>7
  <2>10. \E u \in [0..Len(frames') -> SUBSET Hashes] :
            Follows(u, frames', held', cache', step')
    BY <1>1, <1>9, <2>5, <2>7, <2>9
  <2>11. frames' \in Seq(FrameSet) /\ results' \in Seq(FrameSet) /\ ~missed'
    BY <1>1, <2>8, <2>9, Holding
  <2> QED BY <2>10, <2>11 DEF UnderWay
<1> QED BY <1>2, <1>4, <1>10, <1>11, <1>12, <1>13 DEF EncoderInv

\* The oldest frame is executed: its gathering finds what it looks up.
LEMMA FollowedFromNext ==
  ASSUME NEW fs \in Seq(FrameSet), fs # <<>>,
         NEW w \in [0..Len(fs) -> SUBSET Hashes],
         NEW h, NEW c, NEW s, Follows(w, fs, h, c, s)
  PROVE  /\ Head(fs) \in FrameSet /\ Tail(fs) \in Seq(FrameSet)
         /\ Gathered(Head(fs)) \in SUBSET HeldAfter(Head(fs), h)
         /\ \E u \in [0..Len(Tail(fs)) -> SUBSET Hashes] :
              Follows(u, Tail(fs), HeldAfter(Head(fs), h), c, s)
<1>1. PICK n \in Nat : n = Len(fs) /\ n > 0
  OBVIOUS
<1>2. PICK gs, f : gs = Tail(fs) /\ f = Head(fs)
  OBVIOUS
<1>3. /\ gs \in Seq(FrameSet) /\ f \in FrameSet /\ Len(gs) = n - 1 /\ f = fs[1]
      /\ \A k \in 1..(n - 1) : gs[k] = fs[k + 1]
  BY <1>1, <1>2
<1>4. PICK u : u = [k \in 0..(n - 1) |-> w[k + 1]]
  OBVIOUS
<1>5. \A k \in 0..(n - 1) : k + 1 \in 0..n
  BY <1>1
<1>6. u \in [0..(n - 1) -> SUBSET Hashes] /\ \A k \in 0..(n - 1) : u[k] = w[k + 1]
  BY <1>1, <1>4, <1>5
<1>7. /\ w[1] = HeldAfter(f, h) /\ Gathered(f) \in SUBSET w[1]
  <2>1. 1 \in 1..n /\ 1 - 1 = 0
    BY <1>1
  <2> QED BY <1>1, <1>3, <2>1 DEF Follows
<1>8. u[0] = w[1]
  <2>1. 0 \in 0..(n - 1) /\ 0 + 1 = 1
    BY <1>1
  <2> QED BY <1>6, <2>1
<1>9. ASSUME NEW k \in 1..(n - 1)
      PROVE  u[k] = HeldAfter(gs[k], u[k - 1]) /\ Gathered(gs[k]) \in SUBSET u[k]
  <2>1. k + 1 \in 1..n /\ k \in 0..(n - 1) /\ k - 1 \in 0..(n - 1)
        /\ (k - 1) + 1 = k /\ (k + 1) - 1 = k
    BY <1>1
  <2>2. w[k + 1] = HeldAfter(fs[k + 1], w[(k + 1) - 1])
        /\ Gathered(fs[k + 1]) \in SUBSET w[k + 1]
    BY <1>1, <2>1 DEF Follows
  <2>3. u[k] = w[k + 1] /\ u[k - 1] = w[k] /\ gs[k] = fs[k + 1]
    BY <1>3, <1>6, <2>1
  <2> QED BY <2>1, <2>2, <2>3
<1>10. (u[n - 1] \ c.freed) \union EncodedBy(s) = Cached(c)
  <2>1. n - 1 \in 0..(n - 1) /\ (n - 1) + 1 = n
    BY <1>1
  <2>2. u[n - 1] = w[n]
    BY <1>6, <2>1
  <2> QED BY <1>1, <2>2 DEF Follows
<1>11. Follows(u, gs, w[1], c, s)
  BY <1>3, <1>8, <1>9, <1>10 DEF Follows
<1> QED BY <1>2, <1>3, <1>6, <1>7, <1>11

\* The worker executes a step.
LEMMA ExecuteKeeps ==
  ASSUME EncoderInv, Execute
  PROVE  EncoderInv'
<1>1. /\ frames # <<>> /\ held' = HeldAfter(Head(frames), held)
      /\ missed' = (missed \/ ~(Gathered(Head(frames)) \subseteq held'))
      /\ frames' = Tail(frames) /\ results' = Append(results, Head(frames))
      /\ status' = status /\ computed' = computed /\ waiting' = waiting
      /\ running' = running /\ cache' = cache
      /\ phase' = phase /\ cursor' = cursor /\ tokens' = tokens
      /\ budget' = budget /\ trial' = trial /\ step' = step
  BY DEF Execute, loopVars
<1>2. Queued' /\ Live' = Live /\ Counted'
  BY <1>1 DEF EncoderInv, Queued, Live, Counted
<1>3. Accounted'
  BY <1>1, <1>2 DEF EncoderInv, Accounted
<1>4. StepStands'
  BY <1>1 DEF EncoderInv, StepStands
<1>5. TrialStands'
  BY <1>1 DEF EncoderInv, TrialStands
<1>6. UnderWay'
  <2>1. PICK fs \in Seq(FrameSet) : fs = frames /\ fs # <<>>
    BY <1>1, Holding
  <2>2. PICK w \in [0..Len(fs) -> SUBSET Hashes] : Follows(w, fs, held, cache, step)
    BY <2>1 DEF EncoderInv, UnderWay
  <2>3. /\ Head(fs) \in FrameSet /\ Tail(fs) \in Seq(FrameSet)
        /\ Gathered(Head(fs)) \in SUBSET HeldAfter(Head(fs), held)
        /\ \E u \in [0..Len(Tail(fs)) -> SUBSET Hashes] :
             Follows(u, Tail(fs), HeldAfter(Head(fs), held), cache, step)
    BY <2>1, <2>2, FollowedFromNext
  <2>4. PICK rs \in Seq(FrameSet), f \in FrameSet : rs = results /\ f = Head(fs)
    BY <2>3, Holding
  <2>5. Append(rs, f) \in Seq(FrameSet)
    OBVIOUS
  <2>6. results' \in Seq(FrameSet) /\ frames' \in Seq(FrameSet)
    BY <1>1, <2>1, <2>3, <2>4, <2>5
  <2>7. ~missed'
    BY <1>1, <2>1, <2>3, Holding
  <2>8. \E u \in [0..Len(frames') -> SUBSET Hashes] :
          Follows(u, frames', held', cache', step')
    BY <1>1, <2>1, <2>3
  <2> QED BY <2>6, <2>7, <2>8 DEF UnderWay
<1> QED BY <1>2, <1>3, <1>4, <1>5, <1>6 DEF EncoderInv

-----------------------------------------------------------------------------
(* update_from_output.                                                     *)

\* A row of the step: a request that stopped lets go of every image, the
\* others of those that are computed.
LetGoRow(c, r, stopped) ==
  IF r \in stopped THEN FreedAll(c, r)
  ELSE FreedInputs(c, r, {i \in Inputs(r) : End(r, i) <= computed[r]})

\* References go, those of a request that stopped all of them.
Fewer(c, d) == \A h \in Cached(c) : d.refs[h] \in SUBSET c.refs[h]
Forgotten(d, r) == \A h \in Cached(d) : r \notin d.refs[h]

\* One row lets go.
LEMMA RowLetsGo ==
  ASSUME NEW live \in SUBSET Requests, NEW c \in Caches, GoodCache(c, live),
         NEW r \in Requests, NEW stopped
  PROVE  /\ LetGoRow(c, r, stopped) \in Caches
         /\ GoodCache(LetGoRow(c, r, stopped), live)
         /\ SameEntries(c, LetGoRow(c, r, stopped))
         /\ Fewer(c, LetGoRow(c, r, stopped))
         /\ r \in stopped => Forgotten(LetGoRow(c, r, stopped), r)
<1>1. CASE r \in stopped
  <2>1. PICK d : d = FreedAll(c, r)
    OBVIOUS
  <2>2. /\ d \in Caches /\ GoodCache(d, live \ {r}) /\ SameEntries(c, d)
        /\ \A h \in Cached(c) : d.refs[h] = c.refs[h] \ {r}
    BY ZenonT(30), <2>1, FreedOnes
  <2>3. GoodCache(d, live)
    BY <2>2, GoodInMore
  <2>4. Fewer(c, d) /\ Forgotten(d, r)
    BY <2>2 DEF Fewer, Forgotten, SameEntries
  <2> QED BY <1>1, <2>1, <2>2, <2>3, <2>4 DEF LetGoRow
<1>2. CASE r \notin stopped
  <2>1. PICK S \in SUBSET Inputs(r) :
               S = {i \in Inputs(r) : End(r, i) <= computed[r]}
    OBVIOUS
  <2>2. PICK d : d = FreedInputs(c, r, S)
    OBVIOUS
  <2>3. /\ d \in Caches /\ GoodCache(d, live) /\ SameEntries(c, d)
        /\ \A h \in Cached(c) : d.refs[h] =
             IF h \in HashesOf(r, S) THEN c.refs[h] \ {r} ELSE c.refs[h]
    BY SMTT(30), <2>2, FreedSome
  <2>4. Fewer(c, d)
    BY <2>3 DEF Fewer
  <2> QED BY <1>2, <2>1, <2>2, <2>3, <2>4 DEF LetGoRow
<1> QED BY <1>1, <1>2

RowSteps(v, n, c, q, stopped) ==
  v[0] = c /\ \A k \in 1..n : v[k] = LetGoRow(v[k - 1], q[k], stopped)

RowsLetGo(c, q, stopped) ==
  FoldLeft(LAMBDA d, r : IF r \in stopped THEN FreedAll(d, r)
                         ELSE FreedInputs(d, r, {i \in Inputs(r) :
                                                   End(r, i) <= computed[r]}),
           c, q)

\* update_from_output goes from row to row.
LEMMA RowsByPosition ==
  ASSUME NEW live \in SUBSET Requests, NEW c \in Caches, GoodCache(c, live),
         NEW q \in Seq(Requests), NEW stopped
  PROVE  \E v : /\ RowSteps(v, Len(q), c, q, stopped)
                /\ RowsLetGo(c, q, stopped) = v[Len(q)]
<1>1. PICK n \in Nat : n = Len(q) /\ DOMAIN q = 1..n
  BY LenProperties
<1>2. PICK C : C = {d \in Caches : GoodCache(d, live)}
  OBVIOUS
<1>3. PICK g : g = [k \in 1..n |-> [d \in C |-> LetGoRow(d, q[k], stopped)]]
  OBVIOUS
<1>4. g \in [1..n -> [C -> C]] /\ c \in C
  <2>1. ASSUME NEW k \in 1..n, NEW d \in C PROVE LetGoRow(d, q[k], stopped) \in C
    <3>1. PICK r \in Requests : r = q[k]
      BY <1>1
    <3>2. d \in Caches /\ GoodCache(d, live)
      BY <1>2
    <3>3. LetGoRow(d, r, stopped) \in Caches /\ GoodCache(LetGoRow(d, r, stopped), live)
      BY <3>2, RowLetsGo
    <3> QED BY <1>2, <3>1, <3>3
  <2> QED BY <1>2, <1>3, <2>1
<1>5. /\ \E it \in [SUBSET (1..n) -> C] : FoldSteps(it, g, c, 1..n)
      /\ \A k \in 1..n : /\ 1..k \in SUBSET (1..n) /\ 1..k # {}
                         /\ Max(1..k) = k /\ (1..k) \ {k} = 1..(k - 1)
      /\ \A s \in SUBSET (1..n) : s # {} => Max(s) \in 1..n
      /\ 1..0 = {} /\ {} \in SUBSET (1..n) /\ 1..n \in SUBSET (1..n)
  BY <1>4, FoldByPosition
<1> DEFINE Solves(it) ==
      it = [s \in SUBSET DOMAIN q |->
              IF s = {} THEN c
              ELSE IF q[Max(s)] \in stopped
                   THEN FreedAll(it[s \ {Max(s)}], q[Max(s)])
                   ELSE FreedInputs(it[s \ {Max(s)}], q[Max(s)],
                                    {i \in Inputs(q[Max(s)]) :
                                       End(q[Max(s)], i) <= computed[q[Max(s)]]})]
<1>7. RowsLetGo(c, q, stopped) = (CHOOSE it : Solves(it))[DOMAIN q]
  BY DEF RowsLetGo, FoldLeft, MapThenFoldSet
<1>8. \E it : Solves(it)
  <2>1. PICK it \in [SUBSET (1..n) -> C] : FoldSteps(it, g, c, 1..n)
    BY <1>5
  <2>2. it = [s \in SUBSET (1..n) |->
                IF s = {} THEN c ELSE g[Max(s)][it[s \ {Max(s)}]]]
    BY <2>1 DEF FoldSteps
  <2>3. ASSUME NEW s \in SUBSET (1..n), s # {}
        PROVE  g[Max(s)][it[s \ {Max(s)}]]
                 = IF q[Max(s)] \in stopped
                   THEN FreedAll(it[s \ {Max(s)}], q[Max(s)])
                   ELSE FreedInputs(it[s \ {Max(s)}], q[Max(s)],
                                    {i \in Inputs(q[Max(s)]) :
                                       End(q[Max(s)], i) <= computed[q[Max(s)]]})
    <3>1. PICK m \in 1..n : m = Max(s)
      BY <1>5, <2>3
    <3>2. PICK x \in C : x = it[s \ {m}]
      BY <2>1
    <3>3. g[m][x] = LetGoRow(x, q[m], stopped)
      BY <1>3
    <3> QED BY <3>1, <3>2, <3>3 DEF LetGoRow
  <2>5. it = [s \in SUBSET (1..n) |->
                IF s = {} THEN c
                ELSE IF q[Max(s)] \in stopped
                     THEN FreedAll(it[s \ {Max(s)}], q[Max(s)])
                     ELSE FreedInputs(it[s \ {Max(s)}], q[Max(s)],
                                      {i \in Inputs(q[Max(s)]) :
                                         End(q[Max(s)], i) <= computed[q[Max(s)]]})]
    BY <2>2, <2>3
  <2>6. Solves(it)
    BY <1>1, <2>5, Zenon
  <2> QED BY <2>6
<1>9. PICK sol : sol = (CHOOSE it : Solves(it))
  OBVIOUS
<1>10. Solves(sol)
  BY <1>8, <1>9
<1>11. sol[{}] = c /\ RowsLetGo(c, q, stopped) = sol[1..n]
  BY <1>1, <1>5, <1>7, <1>9, <1>10
<1>12. ASSUME NEW k \in 1..n PROVE sol[1..k] = LetGoRow(sol[1..(k - 1)], q[k], stopped)
  <2>1. /\ 1..k \in SUBSET (1..n) /\ 1..k # {}
        /\ Max(1..k) = k /\ (1..k) \ {k} = 1..(k - 1)
    BY <1>5
  <2>3. PICK s : s = 1..k
    OBVIOUS
  <2>4. sol[s] = IF q[Max(s)] \in stopped
                 THEN FreedAll(sol[s \ {Max(s)}], q[Max(s)])
                 ELSE FreedInputs(sol[s \ {Max(s)}], q[Max(s)],
                                  {i \in Inputs(q[Max(s)]) :
                                     End(q[Max(s)], i) <= computed[q[Max(s)]]})
    BY ZenonT(30), <1>1, <1>10, <2>1, <2>3
  <2> QED BY <2>1, <2>3, <2>4 DEF LetGoRow
<1> HIDE DEF Solves
<1>13. PICK v : v = [k \in 0..n |-> sol[1..k]]
  OBVIOUS
<1>14. v[0] = c /\ RowsLetGo(c, q, stopped) = v[n]
  BY <1>5, <1>11, <1>13
<1>15. \A k \in 1..n : v[k] = LetGoRow(v[k - 1], q[k], stopped)
  <2>1. \A k \in 1..n : k - 1 \in 0..n /\ k \in 0..n
    OBVIOUS
  <2> QED BY <1>12, <1>13, <2>1
<1>16. RowSteps(v, n, c, q, stopped)
  BY <1>14, <1>15 DEF RowSteps
<1> QED BY <1>1, <1>14, <1>16

\* The accounts once all rows are seen.
LEMMA RowsLeave ==
  ASSUME NEW live \in SUBSET Requests, NEW c \in Caches, GoodCache(c, live),
         NEW q \in Seq(Requests), NEW stopped, stopped \in SUBSET ToSet(q)
  PROVE  /\ RowsLetGo(c, q, stopped) \in Caches
         /\ GoodCache(RowsLetGo(c, q, stopped), live \ stopped)
         /\ SameEntries(c, RowsLetGo(c, q, stopped))
<1>1. PICK n \in Nat : n = Len(q) /\ DOMAIN q = 1..n
  BY LenProperties
<1>2. PICK v : RowSteps(v, n, c, q, stopped) /\ RowsLetGo(c, q, stopped) = v[n]
  BY <1>1, RowsByPosition
<1> DEFINE Done(k) ==
      /\ v[k] \in Caches /\ GoodCache(v[k], live) /\ SameEntries(c, v[k])
      /\ \A j \in 1..k : q[j] \in stopped => Forgotten(v[k], q[j])
<1> DEFINE P == {k \in 0..n : Done(k)}
<1>4. Done(0)
  <2>1. v[0] = c
    BY <1>2 DEF RowSteps
  <2>2. \A j \in 1..0 : FALSE
    OBVIOUS
  <2> QED BY <2>1, <2>2 DEF SameEntries
<1>5. ASSUME NEW k \in 1..n, Done(k - 1) PROVE Done(k)
  <2>1. PICK d \in Caches : d = v[k - 1]
    BY <1>5
  <2>2. /\ GoodCache(d, live) /\ SameEntries(c, d)
        /\ \A j \in 1..(k - 1) : q[j] \in stopped => Forgotten(d, q[j])
    BY <1>5, <2>1
  <2>3. PICK r \in Requests : r = q[k]
    BY <1>1
  <2>4. PICK e : e = LetGoRow(d, r, stopped) /\ e = v[k]
    BY <1>2, <2>1, <2>3 DEF RowSteps
  <2>5. /\ e \in Caches /\ GoodCache(e, live) /\ SameEntries(d, e) /\ Fewer(d, e)
        /\ r \in stopped => Forgotten(e, r)
    <3>1. /\ LetGoRow(d, r, stopped) \in Caches
          /\ GoodCache(LetGoRow(d, r, stopped), live)
          /\ SameEntries(d, LetGoRow(d, r, stopped))
          /\ Fewer(d, LetGoRow(d, r, stopped))
          /\ r \in stopped => Forgotten(LetGoRow(d, r, stopped), r)
      BY <2>2, RowLetsGo
    <3> QED BY <2>4, <3>1
  <2>6. ASSUME NEW j \in 1..k, q[j] \in stopped PROVE Forgotten(e, q[j])
    <3>1. CASE j = k
      BY <2>3, <2>5, <2>6, <3>1
    <3>2. CASE j \in 1..(k - 1)
      <4>1. Forgotten(d, q[j])
        BY <2>2, <2>6, <3>2
      <4> QED BY <2>5, <4>1 DEF Forgotten, Fewer, SameEntries
    <3> QED BY <3>1, <3>2
  <2>7. SameEntries(c, e)
    BY <2>2, <2>5 DEF SameEntries
  <2> QED BY <2>4, <2>5, <2>6, <2>7
<1> HIDE DEF Done
<1>6. \A k \in 0..n : k \in P
  <2>1. 0 \in P
    BY <1>4
  <2>2. \A k \in 1..n : k - 1 \in P => k \in P
    <3>1. \A k \in 1..n : k \in 0..n
      OBVIOUS
    <3> QED BY <1>5, <3>1
  <2> HIDE DEF P
  <2> QED BY <2>1, <2>2, PositionInduction
<1>7. Done(n)
  <2>1. n \in 0..n
    OBVIOUS
  <2> QED BY <1>6, <2>1
<1>8. PICK d \in Caches : d = v[n]
  BY <1>7 DEF Done
<1>9. /\ GoodCache(d, live) /\ SameEntries(c, d)
      /\ \A j \in 1..n : q[j] \in stopped => Forgotten(d, q[j])
  BY <1>7, <1>8 DEF Done
<1>10. \A r \in stopped : Forgotten(d, r)
  <2>1. ASSUME NEW r \in stopped PROVE Forgotten(d, r)
    <3>1. PICK j \in 1..n : q[j] = r
      BY <1>1 DEF ToSet
    <3> QED BY <1>9, <3>1
  <2> QED BY <2>1
<1>11. GoodCache(d, live \ stopped)
  <2>1. \A h \in Cached(d) : \A r \in d.refs[h] : r \in live \ stopped
    BY <1>9, <1>10 DEF GoodCache, Forgotten
  <2> QED BY <1>9, <2>1 DEF GoodCache
<1> QED BY <1>2, <1>8, <1>9, <1>11

\* The rows that are looked at, and those whose request stops.
RowsIn(f) == Without(f.rows, {r \in Requests : status[r] = "FINISHED"})
StoppedIn(f) ==
  {r \in ToSet(RowsIn(f)) : f.computed[r] + f.n[r] = NumPromptTokens[r]}

\* What Update does, in these terms.
LEMMA UpdateSteps ==
  ASSUME Update
  PROVE  /\ phase = "idle" /\ results # <<>> /\ results' = Tail(results)
         /\ cache' = RowsLetGo(cache, RowsIn(Head(results)), StoppedIn(Head(results)))
         /\ status' = [r \in Requests |->
                         IF r \in StoppedIn(Head(results)) THEN "FINISHED"
                         ELSE status[r]]
         /\ running' = Without(running, StoppedIn(Head(results)))
         /\ waiting' = Without(waiting, StoppedIn(Head(results)))
         /\ UNCHANGED loopVars /\ computed' = computed /\ frames' = frames
         /\ held' = held /\ missed' = missed
<1>1. cache' = RowsLetGo(cache, RowsIn(Head(results)), StoppedIn(Head(results)))
  BY DEF Update, RowsLetGo, RowsIn, StoppedIn, FoldLeft, MapThenFoldSet
<1>2. /\ phase = "idle" /\ results # <<>> /\ results' = Tail(results)
      /\ status' = [r \in Requests |->
                      IF r \in StoppedIn(Head(results)) THEN "FINISHED"
                      ELSE status[r]]
      /\ running' = Without(running, StoppedIn(Head(results)))
      /\ waiting' = Without(waiting, StoppedIn(Head(results)))
      /\ UNCHANGED loopVars /\ computed' = computed /\ frames' = frames
      /\ held' = held /\ missed' = missed
  BY DEF Update, RowsIn, StoppedIn
<1> QED BY <1>1, <1>2

\* update_from_output.
LEMMA UpdateKeeps ==
  ASSUME EncoderInv, Update
  PROVE  EncoderInv'
<1>1. PICK f, q, stopped : /\ f = Head(results)
                           /\ q = RowsIn(f)
                           /\ stopped = StoppedIn(f)
  OBVIOUS
<1>2. /\ phase = "idle" /\ results # <<>> /\ results' = Tail(results)
      /\ cache' = RowsLetGo(cache, q, stopped)
      /\ status' = [r \in Requests |->
                      IF r \in stopped THEN "FINISHED" ELSE status[r]]
      /\ running' = Without(running, stopped)
      /\ waiting' = Without(waiting, stopped)
      /\ UNCHANGED loopVars /\ computed' = computed /\ frames' = frames
      /\ held' = held /\ missed' = missed
  BY <1>1, UpdateSteps
<1>3. PICK rs \in Seq(FrameSet) : rs = results /\ rs # <<>>
  BY <1>2, Holding
<1>4. f \in FrameSet /\ results' \in Seq(FrameSet)
  <2>1. Head(rs) \in FrameSet /\ Tail(rs) \in Seq(FrameSet)
    BY <1>3
  <2> QED BY <1>1, <1>2, <1>3, <2>1
<1>5. q \in Seq(Requests) /\ stopped \in SUBSET ToSet(q) /\ stopped \in SUBSET Requests
  <2>1. IsQueue(f.rows, Requests)
    BY <1>4 DEF FrameSet, Rows
  <2>2. PICK all, gone : all = f.rows
                         /\ gone = {r \in Requests : status[r] = "FINISHED"}
    OBVIOUS
  <2>3. IsQueue(Without(all, gone), Requests)
    BY <2>1, <2>2, WithoutQueue
  <2>4. q \in Seq(Requests)
    BY <1>1, <2>2, <2>3 DEF IsQueue, RowsIn
  <2>5. ToSet(q) \in SUBSET Requests
    BY <2>4, Members DEF ToSet
  <2> QED BY <1>1, <2>4, <2>5 DEF StoppedIn
<1>6. /\ status \in [Requests -> {"NEW", "WAITING", "RUNNING", "FINISHED"}]
      /\ IsQueue(running, Requests) /\ IsQueue(waiting, Requests)
      /\ ToSet(running) = {r \in Requests : status[r] = "RUNNING"}
      /\ ToSet(waiting) = {r \in Requests : status[r] = "WAITING"}
      /\ Live \in SUBSET Requests
  BY Holding
<1>7. \A r \in Requests :
        status'[r] = IF r \in stopped THEN "FINISHED" ELSE status[r]
  BY <1>2
<1>8. Queued'
  <2>1. status' \in [Requests -> {"NEW", "WAITING", "RUNNING", "FINISHED"}]
    BY <1>2, <1>6
  <2>2. IsQueue(running', Requests) /\ ToSet(running') = ToSet(running) \ stopped
    BY <1>2, <1>6, WithoutQueue
  <2>3. IsQueue(waiting', Requests) /\ ToSet(waiting') = ToSet(waiting) \ stopped
    BY <1>2, <1>6, WithoutQueue
  <2>4. ToSet(running') = {r \in Requests : status'[r] = "RUNNING"}
    BY <1>6, <1>7, <2>2
  <2>5. ToSet(waiting') = {r \in Requests : status'[r] = "WAITING"}
    BY <1>6, <1>7, <2>3
  <2> QED BY <2>1, <2>2, <2>3, <2>4, <2>5 DEF Queued
<1>9. Live' = Live \ stopped
  BY <1>7 DEF Live
<1>10. /\ cache' \in Caches /\ GoodCache(cache', Live')
       /\ SameEntries(cache, cache')
  <2>1. PICK c \in Caches, live \in SUBSET Requests :
               c = cache /\ live = Live /\ GoodCache(c, live)
    BY <1>6, Holding
  <2>2. /\ RowsLetGo(c, q, stopped) \in Caches
        /\ GoodCache(RowsLetGo(c, q, stopped), live \ stopped)
        /\ SameEntries(c, RowsLetGo(c, q, stopped))
    BY <1>5, <2>1, RowsLeave
  <2> QED BY <1>2, <1>9, <2>1, <2>2
<1> QED BY <1>2, <1>4, <1>8, <1>10, IdleKeeps

\* Every step keeps the invariant.
LEMMA EncoderStepKeeps ==
  ASSUME Policy = "fcfs", EncoderInv, [EncoderNext]_encoderVars
  PROVE  EncoderInv'
<1>1. CASE BeginStep
  BY <1>1, BeginStepKeeps
<1>2. CASE TryRunning
  BY <1>2, TryRunningKeeps
<1>3. CASE ScheduleRunning
  BY <1>3, ScheduleRunningKeeps
<1>4. CASE Preempt
  BY <1>4, PreemptKeeps
<1>5. CASE EndRunning
  BY <1>5, EndRunningKeeps
<1>6. CASE TryWaiting
  BY <1>6, TryWaitingKeeps
<1>7. CASE EndStep
  BY <1>7, EndStepKeeps
<1>8. CASE Execute
  BY <1>8, ExecuteKeeps
<1>9. CASE Update
  BY <1>9, UpdateKeeps
<1>10. ASSUME NEW r \in Requests, Arrive(r) PROVE EncoderInv'
  BY <1>10, ArriveKeeps
<1>11. ASSUME NEW r \in Requests, Withdraw(r) PROVE EncoderInv'
  BY <1>11, WithdrawKeeps
<1>12. CASE UNCHANGED encoderVars
  <2>1. /\ status' = status /\ computed' = computed /\ waiting' = waiting
        /\ running' = running /\ cache' = cache /\ phase' = phase
        /\ cursor' = cursor /\ tokens' = tokens /\ budget' = budget
        /\ trial' = trial /\ step' = step /\ frames' = frames
        /\ results' = results /\ held' = held /\ missed' = missed
    BY <1>12 DEF encoderVars, loopVars, pipeVars
  <2>2. Queued' /\ Counted' /\ Live' = Live
    BY <2>1 DEF EncoderInv, Queued, Counted, Live
  <2>3. Accounted'
    BY <2>1, <2>2 DEF EncoderInv, Accounted
  <2>4. StepStands' /\ TrialStands'
    BY <2>1 DEF EncoderInv, StepStands, TrialStands
  <2>5. UnderWay'
    BY <2>1 DEF EncoderInv, UnderWay
  <2> QED BY <2>2, <2>3, <2>4, <2>5 DEF EncoderInv
<1> QED BY <1>1, <1>2, <1>3, <1>4, <1>5, <1>6, <1>7, <1>8, <1>9, <1>10, <1>11,
           <1>12 DEF EncoderNext, Engine

\* The invariant implies what is claimed.
LEMMA InvGathers == ASSUME EncoderInv PROVE GatherFinds
BY DEF EncoderInv, UnderWay, GatherFinds

\* What the frames in flight leave the worker with, if they are executed.
LEMMA FramesLeave ==
  ASSUME NEW fs \in Seq(FrameSet), NEW w \in [0..Len(fs) -> SUBSET Hashes],
         NEW h, NEW c, NEW s, Follows(w, fs, h, c, s)
  PROVE  FoldLeft(LAMBDA g, f : HeldAfter(f, g), h, fs) = w[Len(fs)]
<1>1. PICK n \in Nat : n = Len(fs) /\ DOMAIN fs = 1..n
  BY LenProperties
<1>2. PICK C : C = UNION {SUBSET (h \union Hashes \union UNION {EncodedBy(fs[k]) : k \in 1..n})}
  OBVIOUS
<1>3. PICK g : g = [k \in 1..n |-> [d \in C |-> HeldAfter(fs[k], d)]]
  OBVIOUS
<1>4. g \in [1..n -> [C -> C]] /\ h \in C
  <2>1. ASSUME NEW k \in 1..n, NEW d \in C PROVE HeldAfter(fs[k], d) \in C
    BY <1>2 DEF HeldAfter
  <2> QED BY <1>2, <1>3, <2>1
<1>5. /\ \E it \in [SUBSET (1..n) -> C] : FoldSteps(it, g, h, 1..n)
      /\ \A k \in 1..n : /\ 1..k \in SUBSET (1..n) /\ 1..k # {}
                         /\ Max(1..k) = k /\ (1..k) \ {k} = 1..(k - 1)
      /\ \A t \in SUBSET (1..n) : t # {} => Max(t) \in 1..n
      /\ 1..0 = {} /\ {} \in SUBSET (1..n) /\ 1..n \in SUBSET (1..n)
  BY <1>4, FoldByPosition
<1> DEFINE Solves(it) ==
      it = [t \in SUBSET DOMAIN fs |->
              IF t = {} THEN h ELSE HeldAfter(fs[Max(t)], it[t \ {Max(t)}])]
<1>6. FoldLeft(LAMBDA x, f : HeldAfter(f, x), h, fs) = (CHOOSE it : Solves(it))[DOMAIN fs]
  BY DEF FoldLeft, MapThenFoldSet
<1>7. \E it : Solves(it)
  <2>1. PICK it \in [SUBSET (1..n) -> C] : FoldSteps(it, g, h, 1..n)
    BY <1>5
  <2>2. it = [t \in SUBSET (1..n) |->
                IF t = {} THEN h ELSE g[Max(t)][it[t \ {Max(t)}]]]
    BY <2>1 DEF FoldSteps
  <2>3. ASSUME NEW t \in SUBSET (1..n), t # {}
        PROVE  g[Max(t)][it[t \ {Max(t)}]] = HeldAfter(fs[Max(t)], it[t \ {Max(t)}])
    <3>1. PICK m \in 1..n : m = Max(t)
      BY <1>5, <2>3
    <3>2. PICK x \in C : x = it[t \ {m}]
      BY <2>1
    <3>3. g[m][x] = HeldAfter(fs[m], x)
      BY <1>3
    <3> QED BY <3>1, <3>2, <3>3
  <2>4. it = [t \in SUBSET (1..n) |->
                IF t = {} THEN h ELSE HeldAfter(fs[Max(t)], it[t \ {Max(t)}])]
    BY <2>2, <2>3
  <2>5. Solves(it)
    BY <1>1, <2>4, Zenon
  <2> QED BY <2>5
<1>8. PICK sol : sol = (CHOOSE it : Solves(it))
  OBVIOUS
<1>9. Solves(sol)
  BY <1>7, <1>8
<1>10. /\ sol[{}] = h
       /\ FoldLeft(LAMBDA x, f : HeldAfter(f, x), h, fs) = sol[1..n]
  BY <1>1, <1>5, <1>6, <1>8, <1>9
<1>11. ASSUME NEW k \in 1..n PROVE sol[1..k] = HeldAfter(fs[k], sol[1..(k - 1)])
  <2>1. /\ 1..k \in SUBSET (1..n) /\ 1..k # {}
        /\ Max(1..k) = k /\ (1..k) \ {k} = 1..(k - 1)
    BY <1>5
  <2>2. PICK t : t = 1..k
    OBVIOUS
  <2>3. sol[t] = HeldAfter(fs[Max(t)], sol[t \ {Max(t)}])
    BY <1>1, <1>9, <2>1, <2>2
  <2> QED BY <2>1, <2>2, <2>3
<1> HIDE DEF Solves
<1> DEFINE P == {k \in 0..n : sol[1..k] = w[k]}
<1>12. 0 \in P
  <2>1. sol[1..0] = h
    BY <1>5, <1>10
  <2>2. w[0] = h /\ 0 \in 0..n
    BY DEF Follows
  <2> QED BY <2>1, <2>2
<1>13. ASSUME NEW k \in 1..n, k - 1 \in P PROVE k \in P
  <2>1. sol[1..(k - 1)] = w[k - 1] /\ k \in 0..n
    BY <1>13
  <2>2. w[k] = HeldAfter(fs[k], w[k - 1])
    BY <1>1 DEF Follows
  <2> QED BY <1>11, <2>1, <2>2
<1> HIDE DEF P
<1>14. \A k \in 0..n : k \in P
  BY <1>12, <1>13, PositionInduction
<1>15. sol[1..n] = w[n]
  <2>1. n \in P
    BY <1>14
  <2> QED BY <2>1 DEF P
<1> QED BY <1>1, <1>10, <1>15

LEMMA InvAgrees == ASSUME EncoderInv PROVE AccountsAgree
<1> SUFFICES ASSUME phase = "idle"
             PROVE  /\ FoldLeft(LAMBDA h, f : HeldAfter(f, h), held, frames)
                         = Cached(cache) \union cache.freed
                    /\ FreeSlots(cache) >= 0
                    /\ ToSet(cache.freeable) = {h \in Cached(cache) : cache.refs[h] = {}}
                    /\ \A h \in Cached(cache) :
                         \A r \in cache.refs[h] : status[r] \in {"WAITING", "RUNNING"}
  BY DEF AccountsAgree
<1>1. cache.freed = {} /\ step = EmptyStep /\ GoodCache(cache, Live)
  BY DEF EncoderInv, Accounted
<1>2. PICK fs \in Seq(FrameSet) : fs = frames
  BY Holding
<1>3. PICK w \in [0..Len(fs) -> SUBSET Hashes] : Follows(w, fs, held, cache, step)
  BY <1>2 DEF EncoderInv, UnderWay
<1>4. w[Len(fs)] = Cached(cache)
  BY <1>1, <1>3, EmptyStepStands DEF Follows
<1>5. FoldLeft(LAMBDA h, f : HeldAfter(f, h), held, fs) = w[Len(fs)]
  BY <1>3, FramesLeave
<1> QED BY <1>1, <1>2, <1>4, <1>5 DEF GoodCache, Live

-----------------------------------------------------------------------------
(* The results.                                                            *)

(***************************************************************************)
(* The invariant of scheduler and worker holds in every reachable state.   *)
(***************************************************************************)
THEOREM EncoderInvHolds == Policy = "fcfs" => (EncoderSpec => []EncoderInv)
<1> SUFFICES ASSUME Policy = "fcfs" PROVE EncoderSpec => []EncoderInv
  OBVIOUS
<1>1. EncoderInv /\ [EncoderNext]_encoderVars => EncoderInv'
  BY EncoderStepKeeps
<1> QED BY <1>1, StartsWell, PTL DEF EncoderSpec

(***************************************************************************)
(* First come, first served, _gather_mm_embeddings never meets "Encoder    *)
(* cache miss": whatever is preempted, aborted, evicted or shared, and     *)
(* with any number of steps in flight that the engine allows.              *)
(***************************************************************************)
THEOREM EncodingsAreFound == Policy = "fcfs" => (EncoderSpec => []GatherFinds)
<1> SUFFICES ASSUME Policy = "fcfs" PROVE EncoderSpec => []GatherFinds
  OBVIOUS
<1>1. EncoderInv => GatherFinds
  BY InvGathers
<1> QED BY <1>1, EncoderInvHolds, PTL

(***************************************************************************)
(* First come, first served, the EncoderCacheManager of the scheduler      *)
(* counts what the worker will hold once the steps in flight are executed, *)
(* never more than fits, and keeps no entry for a request that is over.    *)
(***************************************************************************)
THEOREM EncodingsAreCounted ==
  Policy = "fcfs" => (EncoderSpec => []AccountsAgree)
<1> SUFFICES ASSUME Policy = "fcfs" PROVE EncoderSpec => []AccountsAgree
  OBVIOUS
<1>1. EncoderInv => AccountsAgree
  BY InvAgrees
<1> QED BY <1>1, EncoderInvHolds, PTL

=============================================================================
