----------------------------- MODULE DataLemmas -----------------------------
(***************************************************************************)
(* Lemmas about the data the models are built from, for the proofs to      *)
(* cite.                                                                   *)
(*                                                                         *)
(* Queues: what the operations on request queues do to a sequence without  *)
(* repetitions.  They keep it so, and change its members as a set would.   *)
(*                                                                         *)
(* Sums: what changing one value of a function does to FoldFunction(+, 0). *)
(* The sum is defined by recursion over the subsets of the domain; the     *)
(* inductions are first-order, over the complement of the set of subsets   *)
(* for which the claim holds (a minimal counterexample).                   *)
(*                                                                         *)
(* Folds: FoldLeft goes from position to position.  Each fold of a model   *)
(* has a lemma of its own, from FoldByPosition: a lemma has no operators   *)
(* for parameters.                                                         *)
(***************************************************************************)
EXTENDS Queues, Functions, SequencesExt, SequenceTheorems,
        FiniteSetTheorems, WellFoundedInduction, TLAPS

-----------------------------------------------------------------------------
(* Queues.                                                                 *)

\* A queue of members of S: a sequence that names no member twice.
IsQueue(s, S) == s \in Seq(S) /\ IsInjective(s)

\* The members of a sequence, by position.
LEMMA Members ==
  ASSUME NEW S, NEW s \in Seq(S)
  PROVE  /\ Len(s) \in Nat
         /\ DOMAIN s = 1..Len(s)
         /\ \A i \in 1..Len(s) : s[i] \in S /\ s[i] \in ToSet(s)
         /\ \A e \in ToSet(s) : \E i \in 1..Len(s) : s[i] = e
         /\ IsInjective(s) <=>
              \A i, j \in 1..Len(s) : s[i] = s[j] => i = j
<1>1. Len(s) \in Nat /\ DOMAIN s = 1..Len(s)
  BY LenProperties
<1>2. \A i \in 1..Len(s) : s[i] \in S
  BY ElementOfSeq
<1> QED BY <1>1, <1>2 DEF ToSet, IsInjective

\* Taking out the i-th element: positions before i stay, the others move up.
LEMMA RemoveAtProperties ==
  ASSUME NEW S, NEW s \in Seq(S), NEW i \in 1..Len(s)
  PROVE  /\ RemoveAt(s, i) \in Seq(S)
         /\ Len(RemoveAt(s, i)) = Len(s) - 1
         /\ \A j \in 1..(Len(s) - 1) :
              RemoveAt(s, i)[j] = IF j < i THEN s[j] ELSE s[j + 1]
<1> DEFINE a == SubSeq(s, 1, i - 1)
           b == SubSeq(s, i + 1, Len(s))
<1>1. Len(s) \in Nat /\ \A j \in 1..Len(s) : s[j] \in S
  BY LenProperties, ElementOfSeq
<1>2. /\ a \in Seq(S)
      /\ Len(a) = i - 1
      /\ \A j \in 1..(i - 1) : a[j] = s[j]
  <2>1. \A j \in 1..(i - 1) : s[j] \in S
    BY <1>1
  <2>2. /\ a \in Seq(S)
        /\ Len(a) = IF 1 <= i - 1 THEN i - 1 - 1 + 1 ELSE 0
        /\ \A j \in 1..(i - 1 - 1 + 1) : a[j] = s[1 + j - 1]
    BY <1>1, <2>1, SubSeqProperties
  <2> QED BY <1>1, <2>2
<1>3. /\ b \in Seq(S)
      /\ Len(b) = Len(s) - i
      /\ \A j \in 1..(Len(s) - i) : b[j] = s[i + j]
  <2>1. \A j \in (i + 1)..Len(s) : s[j] \in S
    BY <1>1
  <2>2. /\ b \in Seq(S)
        /\ Len(b) = IF i + 1 <= Len(s) THEN Len(s) - (i + 1) + 1 ELSE 0
        /\ \A j \in 1..(Len(s) - (i + 1) + 1) : b[j] = s[i + 1 + j - 1]
    BY <1>1, <2>1, SubSeqProperties
  <2> QED BY <1>1, <2>2
<1>4. /\ a \o b \in Seq(S)
      /\ Len(a \o b) = Len(a) + Len(b)
      /\ \A j \in 1..(Len(a) + Len(b)) :
           (a \o b)[j] = IF j <= Len(a) THEN a[j] ELSE b[j - Len(a)]
  BY <1>2, <1>3, ConcatProperties
<1>5. RemoveAt(s, i) = a \o b
  BY DEF RemoveAt
<1> HIDE DEF a, b
<1>6. ASSUME NEW j \in 1..(Len(s) - 1)
      PROVE  (a \o b)[j] = IF j < i THEN s[j] ELSE s[j + 1]
  <2>1. (a \o b)[j] = IF j <= i - 1 THEN a[j] ELSE b[j - (i - 1)]
    <3>1. Len(a) = i - 1 /\ Len(a) + Len(b) = Len(s) - 1
      BY <1>1, <1>2, <1>3
    <3>2. j \in 1..(Len(a) + Len(b))
      BY <3>1
    <3>3. (a \o b)[j] = IF j <= Len(a) THEN a[j] ELSE b[j - Len(a)]
      BY <1>4, <3>2
    <3> QED BY <3>1, <3>3
  <2>2. CASE j < i
    <3>1. j \in 1..(i - 1)
      BY <2>2, <1>1
    <3> QED BY <3>1, <2>1, <1>2
  <2>3. CASE ~(j < i)
    <3>1. /\ j - (i - 1) \in 1..(Len(s) - i)
          /\ i + (j - (i - 1)) = j + 1
      BY <2>3, <1>1
    <3>2. b[j - (i - 1)] = s[j + 1]
      BY <3>1, <1>3
    <3> QED BY <2>1, <2>3, <3>2, <1>1
  <2> QED BY <2>2, <2>3
<1> QED BY <1>1, <1>2, <1>3, <1>4, <1>5, <1>6

\* RemoveFirst takes e, and nothing else, out of a queue.
LEMMA RemoveFirstProperties ==
  ASSUME NEW S, NEW s, IsQueue(s, S), NEW e
  PROVE  /\ IsQueue(RemoveFirst(s, e), S)
         /\ ToSet(RemoveFirst(s, e)) = ToSet(s) \ {e}
<1>1. /\ s \in Seq(S)
      /\ Len(s) \in Nat
      /\ \A i, j \in 1..Len(s) : s[i] = s[j] => i = j
      /\ DOMAIN s = 1..Len(s)
  BY Members DEF IsQueue
<1>2. CASE ~\E k \in 1..Len(s) : s[k] = e
  BY <1>1, <1>2 DEF RemoveFirst, ToSet, IsQueue
<1>3. CASE \E k \in 1..Len(s) : s[k] = e
  <2>1. PICK k \in 1..Len(s) : s[k] = e
    BY <1>3
  <2>2. {i \in 1..Len(s) : s[i] = e} = {k}
    BY <1>1, <2>1
  <2>3. Min({k}) = k
    BY <2>1, <1>1 DEF Min
  <2>4. SelectInSeq(s, LAMBDA v : v = e) = k
    BY <2>2, <2>3 DEF SelectInSeq
  <2>5. RemoveFirst(s, e) = RemoveAt(s, k)
    BY <1>3, <2>4 DEF RemoveFirst
  <2> DEFINE t == RemoveFirst(s, e)
  <2>6. /\ t \in Seq(S)
        /\ Len(t) = Len(s) - 1
        /\ \A j \in 1..(Len(s) - 1) : t[j] = IF j < k THEN s[j] ELSE s[j + 1]
    <3>1. /\ RemoveAt(s, k) \in Seq(S)
          /\ Len(RemoveAt(s, k)) = Len(s) - 1
          /\ \A j \in 1..(Len(s) - 1) :
               RemoveAt(s, k)[j] = IF j < k THEN s[j] ELSE s[j + 1]
      BY <1>1, <2>1, RemoveAtProperties
    <3> QED BY <3>1, <2>5
  <2>7. DOMAIN t = 1..(Len(s) - 1)
    BY <2>6, LenProperties
  <2> HIDE DEF t
  <2>8. IsInjective(t)
    <3> SUFFICES ASSUME NEW i \in 1..(Len(s) - 1), NEW j \in 1..(Len(s) - 1),
                        t[i] = t[j]
                 PROVE  i = j
      BY <2>7 DEF IsInjective
    <3> DEFINE up(n) == IF n < k THEN n ELSE n + 1
    <3>1. /\ up(i) \in 1..Len(s) /\ up(j) \in 1..Len(s)
          /\ t[i] = s[up(i)] /\ t[j] = s[up(j)]
      BY <2>6, <1>1
    <3>2. up(i) = up(j)
      BY <3>1, <1>1
    <3> QED BY <3>2, <2>1, <1>1
  <2>9. ToSet(t) = ToSet(s) \ {e}
    <3>1. ASSUME NEW x \in ToSet(t)
          PROVE  x \in ToSet(s) \ {e}
      <4>1. PICK j \in 1..(Len(s) - 1) : x = t[j]
        BY <2>7 DEF ToSet
      <4>2. PICK i \in 1..Len(s) : x = s[i] /\ i # k
        BY <4>1, <2>6, <2>1, <1>1
      <4>3. s[i] # e
        BY <4>2, <2>1, <1>1
      <4> QED BY <4>2, <4>3, <1>1 DEF ToSet
    <3>2. ASSUME NEW x \in ToSet(s) \ {e}
          PROVE  x \in ToSet(t)
      <4>1. PICK i \in 1..Len(s) : x = s[i] /\ i # k
        BY <1>1, <2>1 DEF ToSet
      <4>2. CASE i < k
        <5>1. i \in 1..(Len(s) - 1) /\ t[i] = s[i]
          BY <4>1, <4>2, <2>6, <2>1, <1>1
        <5> QED BY <5>1, <4>1, <2>7 DEF ToSet
      <4>3. CASE i > k
        <5>1. i - 1 \in 1..(Len(s) - 1) /\ ~(i - 1 < k) /\ (i - 1) + 1 = i
          BY <4>3, <4>1, <2>1, <1>1
        <5>2. t[i - 1] = s[i]
          BY <5>1, <2>6
        <5> QED BY <5>1, <5>2, <4>1, <2>7 DEF ToSet
      <4> QED BY <4>1, <4>2, <4>3, <2>1, <1>1
    <3> QED BY <3>1, <3>2
  <2> QED BY <2>6, <2>8, <2>9 DEF t, IsQueue
<1> QED BY <1>2, <1>3

\* A newcomer joins at the end.
LEMMA AppendToQueue ==
  ASSUME NEW S, NEW s, IsQueue(s, S), NEW e \in S, e \notin ToSet(s)
  PROVE  /\ IsQueue(Append(s, e), S)
         /\ ToSet(Append(s, e)) = ToSet(s) \union {e}
         /\ Len(Append(s, e)) = Len(s) + 1
<1> DEFINE t == Append(s, e)
<1>1. /\ s \in Seq(S)
      /\ Len(s) \in Nat
      /\ \A i, j \in 1..Len(s) : s[i] = s[j] => i = j
      /\ DOMAIN s = 1..Len(s)
      /\ \A i \in 1..Len(s) : s[i] # e
  BY Members DEF IsQueue
<1>2. /\ t \in Seq(S)
      /\ Len(t) = Len(s) + 1
      /\ \A i \in 1..Len(s) : t[i] = s[i]
      /\ t[Len(s) + 1] = e
  BY <1>1, AppendProperties
<1>3. DOMAIN t = 1..(Len(s) + 1)
  BY <1>2, LenProperties
<1> HIDE DEF t
<1>4. ASSUME NEW i \in 1..(Len(s) + 1), NEW j \in 1..(Len(s) + 1), t[i] = t[j]
      PROVE  i = j
  <2>1. i \in 1..Len(s) \/ i = Len(s) + 1
    BY <1>1
  <2>2. j \in 1..Len(s) \/ j = Len(s) + 1
    BY <1>1
  <2> QED BY <2>1, <2>2, <1>1, <1>2, <1>4
<1>5. IsQueue(t, S)
  BY <1>2, <1>3, <1>4 DEF IsQueue, IsInjective
<1>6. ToSet(t) = ToSet(s) \union {e}
  <2>1. ASSUME NEW x \in ToSet(t)
        PROVE  x \in ToSet(s) \union {e}
    <3>1. PICK i \in 1..(Len(s) + 1) : x = t[i]
      BY <1>3 DEF ToSet
    <3>2. i \in 1..Len(s) \/ i = Len(s) + 1
      BY <1>1
    <3> QED BY <3>1, <3>2, <1>1, <1>2 DEF ToSet
  <2>2. ASSUME NEW x \in ToSet(s) \union {e}
        PROVE  x \in ToSet(t)
    <3>1. CASE x = e
      <4>1. Len(s) + 1 \in 1..(Len(s) + 1)
        BY <1>1
      <4> QED BY <3>1, <4>1, <1>2, <1>3 DEF ToSet
    <3>2. CASE x \in ToSet(s)
      <4>1. PICK i \in 1..Len(s) : x = s[i]
        BY <3>2, <1>1 DEF ToSet
      <4>2. i \in 1..(Len(s) + 1)
        BY <1>1
      <4> QED BY <4>1, <4>2, <1>2, <1>3 DEF ToSet
    <3> QED BY <3>1, <3>2
  <2> QED BY <2>1, <2>2
<1> QED BY <1>2, <1>5, <1>6 DEF t

\* The positions before the last one.
LEMMA LastPosition ==
  ASSUME NEW n \in Nat, n > 0
  PROVE  /\ n \in 1..n /\ n - 1 \in Nat
         /\ \A i \in 1..(n - 1) : i \in 1..n /\ i # n /\ 1 + i - 1 = i
         /\ \A i \in 1..n : i \in 1..(n - 1) \/ i = n
         /\ n - 1 - 1 + 1 = n - 1
         /\ (IF 1 <= n - 1 THEN n - 1 - 1 + 1 ELSE 0) = n - 1
  OBVIOUS

\* The first k leave.
LEMMA RestOfQueue ==
  ASSUME NEW S, NEW s, IsQueue(s, S), NEW k \in 0..Len(s)
  PROVE  /\ IsQueue(SubSeq(s, k + 1, Len(s)), S)
         /\ ToSet(SubSeq(s, k + 1, Len(s))) = ToSet(s) \ {s[j] : j \in 1..k}
         /\ {s[j] : j \in 1..k} \in SUBSET ToSet(s)
<1>1. /\ s \in Seq(S) /\ DOMAIN s = 1..Len(s) /\ Len(s) \in Nat
      /\ \A i \in 1..Len(s) : s[i] \in S
      /\ \A i, j \in 1..Len(s) : s[i] = s[j] => i = j
  BY Members DEF IsQueue
<1>2. PICK n \in Nat : n = Len(s)
  BY <1>1
<1>3. PICK t : t = SubSeq(s, k + 1, n)
  OBVIOUS
<1>4. k \in Nat /\ k <= n /\ n - k \in Nat
  BY <1>2
<1>5. t \in Seq(S) /\ Len(t) = n - k /\ \A i \in 1..(n - k) : t[i] = s[k + i]
  <2>1. \A i \in (k + 1)..n : s[i] \in S
    BY <1>1, <1>2, <1>4
  <2>2. /\ t \in Seq(S)
        /\ Len(t) = IF k + 1 <= n THEN n - (k + 1) + 1 ELSE 0
        /\ \A i \in 1..(n - (k + 1) + 1) : t[i] = s[(k + 1) + i - 1]
    BY <1>1, <1>3, <1>4, <2>1, SubSeqProperties
  <2>3. Len(t) = n - k
    BY <1>4, <2>2
  <2>4. \A i \in 1..(n - k) : i \in 1..(n - (k + 1) + 1) /\ (k + 1) + i - 1 = k + i
    BY <1>4
  <2> QED BY <2>2, <2>3, <2>4
<1>6. DOMAIN t = 1..(n - k)
  BY <1>5, LenProperties
<1>7. \A i \in 1..(n - k) : k + i \in 1..n /\ ~(k + i \in 1..k)
  BY <1>4
<1>8. IsQueue(t, S)
  <2>1. ASSUME NEW i \in 1..(n - k), NEW j \in 1..(n - k), t[i] = t[j] PROVE i = j
    <3>1. k + i = k + j
      BY <1>1, <1>2, <1>5, <1>7, <2>1
    <3> QED BY <1>4, <3>1
  <2> QED BY <1>5, <1>6, <2>1 DEF IsQueue, IsInjective
<1>9. ToSet(t) = ToSet(s) \ {s[j] : j \in 1..k}
  <2>1. ASSUME NEW x \in ToSet(t) PROVE x \in ToSet(s) \ {s[j] : j \in 1..k}
    <3>1. PICK i \in 1..(n - k) : x = s[k + i]
      BY <1>5, <1>6 DEF ToSet
    <3>2. PICK p : p = k + i /\ p \in 1..n /\ p \notin 1..k
      BY <1>7
    <3>3. \A j \in 1..k : j \in 1..n
      BY <1>4
    <3> QED BY <1>1, <1>2, <3>1, <3>2, <3>3 DEF ToSet
  <2>2. ASSUME NEW x \in ToSet(s) \ {s[j] : j \in 1..k} PROVE x \in ToSet(t)
    <3>1. PICK p \in 1..n : x = s[p] /\ p \notin 1..k
      BY <1>1, <1>2 DEF ToSet
    <3>2. p - k \in 1..(n - k) /\ k + (p - k) = p
      BY <1>4, <3>1
    <3>3. t[p - k] = x
      BY <1>5, <3>1, <3>2
    <3> QED BY <1>6, <3>2, <3>3 DEF ToSet
  <2> QED BY <2>1, <2>2
<1>10. {s[j] : j \in 1..k} \in SUBSET ToSet(s)
  BY <1>1, <1>2, <1>4 DEF ToSet
<1> QED BY <1>2, <1>3, <1>8, <1>9, <1>10

\* The last one leaves.
LEMMA FrontOfQueue ==
  ASSUME NEW S, NEW s, IsQueue(s, S), s # <<>>
  PROVE  /\ Last(s) \in S /\ Last(s) \in ToSet(s)
         /\ Last(s) = s[Len(s)]
         /\ Len(s) \in Nat /\ Len(s) > 0
         /\ IsQueue(Front(s), S)
         /\ Len(Front(s)) = Len(s) - 1
         /\ \A i \in 1..(Len(s) - 1) : Front(s)[i] = s[i]
         /\ ToSet(Front(s)) = ToSet(s) \ {Last(s)}
<1> DEFINE t == Front(s)
<1>1. /\ s \in Seq(S)
      /\ Len(s) \in Nat
      /\ Len(s) > 0
      /\ \A i \in 1..Len(s) : s[i] \in S
      /\ \A i, j \in 1..Len(s) : s[i] = s[j] => i = j
      /\ DOMAIN s = 1..Len(s)
  BY Members, EmptySeq DEF IsQueue
<1>2. /\ t \in Seq(S)
      /\ Len(t) = Len(s) - 1
      /\ \A i \in 1..(Len(s) - 1) : t[i] = s[i]
  <2>1. \A i \in 1..(Len(s) - 1) : s[i] \in S
    BY <1>1, LastPosition
  <2>2. /\ t \in Seq(S)
        /\ Len(t) = IF 1 <= Len(s) - 1 THEN Len(s) - 1 - 1 + 1 ELSE 0
        /\ \A i \in 1..(Len(s) - 1 - 1 + 1) : t[i] = s[1 + i - 1]
    BY <1>1, <2>1, SubSeqProperties DEF Front
  <2> QED BY <1>1, <2>2, LastPosition
<1>3. DOMAIN t = 1..(Len(s) - 1)
  BY <1>2, LenProperties
<1> HIDE DEF t
<1>4. \A i \in 1..(Len(s) - 1) : i \in 1..Len(s) /\ i # Len(s)
  BY <1>1, LastPosition
<1>5. \A i \in 1..Len(s) : i \in 1..(Len(s) - 1) \/ i = Len(s)
  BY <1>1, LastPosition
<1>6. Len(s) \in 1..Len(s)
  BY <1>1, LastPosition
<1>7. IsQueue(t, S)
  BY <1>1, <1>2, <1>3, <1>4 DEF IsQueue, IsInjective
<1>8. ToSet(t) = ToSet(s) \ {s[Len(s)]}
  <2>1. ASSUME NEW x \in ToSet(t)
        PROVE  x \in ToSet(s) \ {s[Len(s)]}
    <3>1. PICK i \in 1..(Len(s) - 1) : x = s[i]
      BY <1>2, <1>3 DEF ToSet
    <3> QED BY <3>1, <1>1, <1>4, <1>6 DEF ToSet
  <2>2. ASSUME NEW x \in ToSet(s) \ {s[Len(s)]}
        PROVE  x \in ToSet(t)
    <3>1. PICK i \in 1..Len(s) : x = s[i]
      BY <1>1 DEF ToSet
    <3>2. i \in 1..(Len(s) - 1)
      BY <3>1, <1>5
    <3> QED BY <3>1, <3>2, <1>2, <1>3 DEF ToSet
  <2> QED BY <2>1, <2>2
<1> QED BY <1>1, <1>2, <1>6, <1>7, <1>8 DEF Last, t, ToSet

\* The first one leaves.
LEMMA TailOfQueue ==
  ASSUME NEW S, NEW s, IsQueue(s, S), s # <<>>
  PROVE  /\ Head(s) \in S /\ Head(s) \in ToSet(s)
         /\ IsQueue(Tail(s), S)
         /\ ToSet(Tail(s)) = ToSet(s) \ {Head(s)}
<1> DEFINE t == Tail(s)
<1>1. /\ s \in Seq(S)
      /\ Len(s) \in Nat
      /\ Len(s) > 0
      /\ \A i, j \in 1..Len(s) : s[i] = s[j] => i = j
      /\ DOMAIN s = 1..Len(s)
  BY Members, EmptySeq DEF IsQueue
<1>2. /\ t \in Seq(S)
      /\ Len(t) = Len(s) - 1
      /\ \A i \in 1..(Len(s) - 1) : t[i] = s[i + 1]
      /\ Head(s) \in S
  BY <1>1, HeadTailProperties
<1>3. DOMAIN t = 1..(Len(s) - 1)
  BY <1>2, LenProperties
<1>4. Head(s) = s[1]
  BY <1>1
<1> HIDE DEF t
<1>5. 1 \in 1..Len(s) /\ \A i \in 1..(Len(s) - 1) : i + 1 \in 1..Len(s) /\ i + 1 # 1
  BY <1>1
<1>6. IsQueue(t, S)
  <2>1. ASSUME NEW i \in 1..(Len(s) - 1), NEW j \in 1..(Len(s) - 1), t[i] = t[j]
        PROVE  i = j
    <3>1. i + 1 = j + 1
      BY <2>1, <1>1, <1>2, <1>5
    <3> QED BY <3>1, <1>1
  <2> QED BY <2>1, <1>2, <1>3 DEF IsQueue, IsInjective
<1>7. ToSet(t) = ToSet(s) \ {s[1]}
  <2>1. ASSUME NEW x \in ToSet(t)
        PROVE  x \in ToSet(s) \ {s[1]}
    <3>1. PICK i \in 1..(Len(s) - 1) : x = s[i + 1]
      BY <1>2, <1>3 DEF ToSet
    <3> QED BY <3>1, <1>1, <1>5 DEF ToSet
  <2>2. ASSUME NEW x \in ToSet(s) \ {s[1]}
        PROVE  x \in ToSet(t)
    <3>1. PICK i \in 1..Len(s) : x = s[i] /\ i # 1
      BY <1>1 DEF ToSet
    <3>2. i - 1 \in 1..(Len(s) - 1) /\ (i - 1) + 1 = i
      BY <3>1, <1>1
    <3>3. t[i - 1] = x
      BY <3>1, <3>2, <1>2
    <3> QED BY <3>2, <3>3, <1>3 DEF ToSet
  <2> QED BY <2>1, <2>2
<1>8. s[1] \in ToSet(s)
  BY <1>1, <1>5 DEF ToSet
<1> QED BY <1>2, <1>4, <1>6, <1>7, <1>8 DEF t

\* Two queues without a common member make one.
LEMMA ConcatQueues ==
  ASSUME NEW S, NEW s, NEW u, IsQueue(s, S), IsQueue(u, S),
         ToSet(s) \intersect ToSet(u) = {}
  PROVE  /\ IsQueue(s \o u, S)
         /\ ToSet(s \o u) = ToSet(s) \union ToSet(u)
<1> DEFINE t == s \o u
<1>1. /\ s \in Seq(S) /\ u \in Seq(S)
      /\ Len(s) \in Nat /\ Len(u) \in Nat
      /\ \A i, j \in 1..Len(s) : s[i] = s[j] => i = j
      /\ \A i, j \in 1..Len(u) : u[i] = u[j] => i = j
      /\ DOMAIN s = 1..Len(s) /\ DOMAIN u = 1..Len(u)
  BY Members DEF IsQueue
<1>2. \A i \in 1..Len(s), j \in 1..Len(u) : s[i] # u[j]
  <2>1. \A i \in 1..Len(s) : s[i] \in ToSet(s)
    BY <1>1, Members
  <2>2. \A j \in 1..Len(u) : u[j] \in ToSet(u)
    BY <1>1, Members
  <2> QED BY <2>1, <2>2
<1>3. /\ t \in Seq(S)
      /\ Len(t) = Len(s) + Len(u)
      /\ \A i \in 1..(Len(s) + Len(u)) :
           t[i] = IF i <= Len(s) THEN s[i] ELSE u[i - Len(s)]
  BY <1>1, ConcatProperties
<1>4. DOMAIN t = 1..(Len(s) + Len(u))
  BY <1>3, LenProperties
<1> HIDE DEF t
<1>5. ASSUME NEW i \in 1..(Len(s) + Len(u))
      PROVE  \/ i \in 1..Len(s) /\ t[i] = s[i]
             \/ /\ ~(i \in 1..Len(s))
                /\ i - Len(s) \in 1..Len(u) /\ t[i] = u[i - Len(s)]
  BY <1>1, <1>3
<1>6. ASSUME NEW i \in 1..(Len(s) + Len(u)), NEW j \in 1..(Len(s) + Len(u)),
             t[i] = t[j]
      PROVE  i = j
  <2>1. CASE i \in 1..Len(s) /\ j \in 1..Len(s)
    BY <2>1, <1>1, <1>5, <1>6
  <2>2. CASE i \notin 1..Len(s) /\ j \notin 1..Len(s)
    <3>1. i - Len(s) = j - Len(s)
      BY <2>2, <1>1, <1>5, <1>6
    <3> QED BY <3>1, <1>1
  <2>3. ~(i \in 1..Len(s) /\ j \notin 1..Len(s))
    BY <1>2, <1>5, <1>6
  <2>4. ~(i \notin 1..Len(s) /\ j \in 1..Len(s))
    BY <1>2, <1>5, <1>6
  <2> QED BY <2>1, <2>2, <2>3, <2>4
<1>7. IsQueue(t, S)
  BY <1>3, <1>4, <1>6 DEF IsQueue, IsInjective
<1>8. ToSet(t) = ToSet(s) \union ToSet(u)
  <2>1. ASSUME NEW x \in ToSet(t)
        PROVE  x \in ToSet(s) \union ToSet(u)
    <3>1. PICK i \in 1..(Len(s) + Len(u)) : x = t[i]
      BY <1>4 DEF ToSet
    <3> QED BY <3>1, <1>1, <1>5 DEF ToSet
  <2>2. ASSUME NEW x \in ToSet(s)
        PROVE  x \in ToSet(t)
    <3>1. PICK i \in 1..Len(s) : x = s[i]
      BY <1>1 DEF ToSet
    <3>2. i \in 1..(Len(s) + Len(u)) /\ i <= Len(s)
      BY <1>1
    <3> QED BY <3>1, <3>2, <1>3, <1>4 DEF ToSet
  <2>3. ASSUME NEW x \in ToSet(u)
        PROVE  x \in ToSet(t)
    <3>1. PICK i \in 1..Len(u) : x = u[i]
      BY <1>1 DEF ToSet
    <3>2. /\ i + Len(s) \in 1..(Len(s) + Len(u))
          /\ ~(i + Len(s) <= Len(s))
          /\ (i + Len(s)) - Len(s) = i
      BY <1>1
    <3>3. t[i + Len(s)] = u[i]
      BY <3>2, <1>3
    <3> QED BY <3>1, <3>2, <3>3, <1>4 DEF ToSet
  <2> QED BY <2>1, <2>2, <2>3
<1> QED BY <1>7, <1>8 DEF t

\* A queue of one.
LEMMA SingletonQueue ==
  ASSUME NEW S, NEW e \in S
  PROVE  IsQueue(<<e>>, S) /\ ToSet(<<e>>) = {e}
<1>1. <<e>> \in Seq(S) /\ Len(<<e>>) = 1 /\ <<e>>[1] = e
  OBVIOUS
<1>2. DOMAIN <<e>> = {1}
  OBVIOUS
<1> QED BY <1>1, <1>2 DEF IsQueue, IsInjective, ToSet

\* A queue of none.
LEMMA EmptyQueue ==
  ASSUME NEW S
  PROVE  IsQueue(<<>>, S) /\ ToSet(<<>>) = {}
<1>1. <<>> \in Seq(S) /\ DOMAIN <<>> = {}
  OBVIOUS
<1> QED BY <1>1 DEF IsQueue, IsInjective, ToSet

\* RemoveFirst takes out the one position that holds e.
LEMMA RemoveFirstAt ==
  ASSUME NEW S, NEW s, IsQueue(s, S), NEW k \in 1..Len(s)
  PROVE  RemoveFirst(s, s[k]) = RemoveAt(s, k)
<1>1. /\ Len(s) \in Nat
      /\ \A i, j \in 1..Len(s) : s[i] = s[j] => i = j
  BY Members DEF IsQueue
<1> DEFINE e == s[k]
<1>2. {i \in 1..Len(s) : s[i] = e} = {k}
  BY <1>1
<1>3. Min({k}) = k
  BY <1>1 DEF Min
<1>4. SelectInSeq(s, LAMBDA v : v = e) = k
  BY <1>2, <1>3 DEF SelectInSeq
<1> QED BY <1>4 DEF RemoveFirst

\* Removing from a line of two queues removes from the one that holds e.
LEMMA RemoveFromLine ==
  ASSUME NEW S, NEW s, NEW u, IsQueue(s, S), IsQueue(u, S),
         ToSet(s) \intersect ToSet(u) = {}, NEW e
  PROVE  /\ e \in ToSet(s) => RemoveFirst(s \o u, e) = RemoveFirst(s, e) \o u
         /\ e \in ToSet(u) => RemoveFirst(s \o u, e) = s \o RemoveFirst(u, e)
         /\ e \in ToSet(s) => Len(RemoveFirst(s, e)) = Len(s) - 1
<1> DEFINE t == s \o u
           m == Len(s)
           n == Len(u)
<1>1. /\ s \in Seq(S) /\ u \in Seq(S) /\ m \in Nat /\ n \in Nat
  BY Members DEF IsQueue
<1>2. /\ t \in Seq(S) /\ Len(t) = m + n
      /\ \A i \in 1..(m + n) : t[i] = IF i <= m THEN s[i] ELSE u[i - m]
  BY <1>1, ConcatProperties
<1>3. IsQueue(t, S)
  BY ConcatQueues
<1> HIDE DEF t, m, n
<1>4. ASSUME e \in ToSet(s)
      PROVE  /\ RemoveFirst(t, e) = RemoveFirst(s, e) \o u
             /\ Len(RemoveFirst(s, e)) = m - 1
  <2>1. PICK k \in 1..m : s[k] = e
    BY <1>1, <1>4, Members DEF m
  <2>2. k \in 1..(m + n) /\ t[k] = e
    BY <1>1, <1>2, <2>1
  <2> DEFINE a == RemoveAt(s, k)
             b == RemoveAt(t, k)
  <2>3. RemoveFirst(s, e) = a /\ RemoveFirst(t, e) = b
    BY <1>2, <1>3, <2>1, <2>2, RemoveFirstAt DEF m
  <2>4. /\ a \in Seq(S) /\ Len(a) = m - 1
        /\ \A j \in 1..(m - 1) : a[j] = IF j < k THEN s[j] ELSE s[j + 1]
    BY <1>1, <2>1, RemoveAtProperties DEF m
  <2>5. /\ b \in Seq(S) /\ Len(b) = m + n - 1
        /\ \A j \in 1..(m + n - 1) : b[j] = IF j < k THEN t[j] ELSE t[j + 1]
    <3>1. k \in 1..Len(t)
      BY <1>2, <2>2
    <3>2. /\ b \in Seq(S) /\ Len(b) = Len(t) - 1
          /\ \A j \in 1..(Len(t) - 1) : b[j] = IF j < k THEN t[j] ELSE t[j + 1]
      BY <1>2, <3>1, RemoveAtProperties
    <3>3. Len(t) - 1 = m + n - 1
      BY <1>1, <1>2
    <3> QED BY <3>2, <3>3
  <2> HIDE DEF a, b
  <2>6. /\ a \o u \in Seq(S) /\ Len(a \o u) = m - 1 + n
        /\ \A j \in 1..(m - 1 + n) :
             (a \o u)[j] = IF j <= m - 1 THEN a[j] ELSE u[j - (m - 1)]
    <3>1. /\ a \o u \in Seq(S) /\ Len(a \o u) = Len(a) + Len(u)
          /\ \A j \in 1..(Len(a) + Len(u)) :
               (a \o u)[j] = IF j <= Len(a) THEN a[j] ELSE u[j - Len(a)]
      BY <1>1, <2>4, ConcatProperties
    <3> QED BY <2>4, <3>1 DEF n
  <2>7. ASSUME NEW j \in 1..(m + n - 1)
        PROVE  b[j] = (a \o u)[j]
    <3>0. /\ (a \o u)[j] = IF j <= m - 1 THEN a[j] ELSE u[j - (m - 1)]
          /\ b[j] = IF j < k THEN t[j] ELSE t[j + 1]
      BY <1>1, <2>5, <2>6
    <3>1. CASE j <= m - 1
      <4>1. /\ j \in 1..(m - 1) /\ j \in 1..(m + n) /\ j + 1 \in 1..(m + n)
            /\ j <= m /\ j + 1 <= m
        BY <1>1, <3>1
      <4>2. t[j] = s[j] /\ t[j + 1] = s[j + 1]
        BY <1>2, <4>1
      <4> QED BY <2>4, <3>0, <3>1, <4>1, <4>2
    <3>2. CASE ~(j <= m - 1)
      <4>1. /\ ~(j < k) /\ j + 1 \in 1..(m + n) /\ ~(j + 1 <= m)
            /\ j + 1 - m = j - (m - 1)
        BY <1>1, <2>1, <3>2
      <4>2. t[j + 1] = u[j + 1 - m]
        <5> DEFINE i == j + 1
        <5>1. i \in 1..(m + n) /\ ~(i <= m)
          BY <4>1
        <5> HIDE DEF i
        <5>2. t[i] = u[i - m]
          BY <1>1, <1>2, <5>1
        <5> QED BY <1>1, <5>2 DEF i
      <4> QED BY <3>0, <3>2, <4>1, <4>2
    <3> QED BY <3>1, <3>2
  <2>8. Len(b) = Len(a \o u)
    BY <1>1, <2>5, <2>6
  <2>9. b = a \o u
    BY <1>1, <2>5, <2>6, <2>7, <2>8, SeqEqual
  <2> QED BY <2>3, <2>4, <2>9
<1>5. ASSUME e \in ToSet(u)
      PROVE  RemoveFirst(t, e) = s \o RemoveFirst(u, e)
  <2>1. PICK k \in 1..n : u[k] = e
    BY <1>1, <1>5, Members DEF n
  <2>2. m + k \in 1..(m + n) /\ t[m + k] = e
    BY <1>1, <1>2, <2>1
  <2> DEFINE a == RemoveAt(u, k)
             b == RemoveAt(t, m + k)
  <2>3. RemoveFirst(u, e) = a /\ RemoveFirst(t, e) = b
    BY <1>2, <1>3, <2>1, <2>2, RemoveFirstAt DEF n
  <2>4. /\ a \in Seq(S) /\ Len(a) = n - 1
        /\ \A j \in 1..(n - 1) : a[j] = IF j < k THEN u[j] ELSE u[j + 1]
    BY <1>1, <2>1, RemoveAtProperties DEF n
  <2>5. /\ b \in Seq(S) /\ Len(b) = m + n - 1
        /\ \A j \in 1..(m + n - 1) : b[j] = IF j < m + k THEN t[j] ELSE t[j + 1]
    <3> DEFINE i == m + k
    <3>1. i \in 1..Len(t)
      BY <1>2, <2>2
    <3> HIDE DEF i
    <3>2. /\ RemoveAt(t, i) \in Seq(S) /\ Len(RemoveAt(t, i)) = Len(t) - 1
          /\ \A j \in 1..(Len(t) - 1) :
               RemoveAt(t, i)[j] = IF j < i THEN t[j] ELSE t[j + 1]
      BY <1>2, <3>1, RemoveAtProperties
    <3>3. Len(t) - 1 = m + n - 1
      BY <1>1, <1>2
    <3> QED BY <3>2, <3>3 DEF b, i
  <2> HIDE DEF a, b
  <2>6. /\ s \o a \in Seq(S) /\ Len(s \o a) = m + (n - 1)
        /\ \A j \in 1..(m + (n - 1)) :
             (s \o a)[j] = IF j <= m THEN s[j] ELSE a[j - m]
    <3>1. /\ s \o a \in Seq(S) /\ Len(s \o a) = Len(s) + Len(a)
          /\ \A j \in 1..(Len(s) + Len(a)) :
               (s \o a)[j] = IF j <= Len(s) THEN s[j] ELSE a[j - Len(s)]
      BY <1>1, <2>4, ConcatProperties
    <3> QED BY <2>4, <3>1 DEF m
  <2>7. ASSUME NEW j \in 1..(m + n - 1)
        PROVE  b[j] = (s \o a)[j]
    <3>1. CASE j <= m
      BY <1>1, <1>2, <2>1, <2>5, <2>6, <3>1
    <3>2. CASE ~(j <= m)
      <4>1. /\ j - m \in 1..(n - 1) /\ (j < m + k <=> j - m < k)
            /\ (j + 1) - m = (j - m) + 1 /\ ~(j + 1 <= m)
            /\ j \in 1..(m + (n - 1)) /\ j + 1 \in 1..(m + n) /\ j \in 1..(m + n)
        BY <1>1, <2>1, <3>2
      <4>2. t[j] = u[j - m] /\ t[j + 1] = u[(j - m) + 1]
        BY <1>2, <3>2, <4>1
      <4>3. (s \o a)[j] = a[j - m]
        BY <2>6, <3>2, <4>1
      <4>4. a[j - m] = IF j - m < k THEN u[j - m] ELSE u[(j - m) + 1]
        BY <2>4, <4>1
      <4>5. b[j] = IF j < m + k THEN t[j] ELSE t[j + 1]
        BY <2>5
      <4> QED BY <4>1, <4>2, <4>3, <4>4, <4>5
    <3> QED BY <3>1, <3>2
  <2>8. Len(b) = Len(s \o a)
    BY <1>1, <2>5, <2>6
  <2>9. b = s \o a
    BY <1>1, <2>5, <2>6, <2>7, <2>8, SeqEqual
  <2> QED BY <2>3, <2>9
<1> QED BY <1>4, <1>5 DEF t, m

\* Moving the border between two queues leaves their line as it was.
LEMMA LineKept ==
  ASSUME NEW S, NEW s \in Seq(S), NEW u \in Seq(S), NEW e \in S
  PROVE  /\ Append(s \o u, e) = s \o Append(u, e)
         /\ u # <<>> => Append(s, Head(u)) \o Tail(u) = s \o u
         /\ s # <<>> => Front(s) \o (<<Last(s)>> \o u) = s \o u
<1>1. <<e>> \in Seq(S) /\ s \o u \in Seq(S)
  BY ConcatProperties
<1>2. Append(s \o u, e) = s \o Append(u, e)
  <2>1. Append(s \o u, e) = (s \o u) \o <<e>> /\ Append(u, e) = u \o <<e>>
    BY <1>1, AppendIsConcat
  <2> QED BY <1>1, <2>1, ConcatAssociative
<1>3. ASSUME u # <<>>
      PROVE  Append(s, Head(u)) \o Tail(u) = s \o u
  <2>1. Head(u) \in S /\ Tail(u) \in Seq(S) /\ <<Head(u)>> \in Seq(S)
    BY <1>3, HeadTailProperties
  <2>2. u = <<Head(u)>> \o Tail(u)
    BY <1>3, <2>1, SubSeqRecursiveFirst, SubSeqFull, TailIsSubSeq, EmptySeq
  <2>3. Append(s, Head(u)) = s \o <<Head(u)>>
    BY <2>1, AppendIsConcat
  <2> QED BY <2>1, <2>2, <2>3, ConcatAssociative
<1>4. ASSUME s # <<>>
      PROVE  Front(s) \o (<<Last(s)>> \o u) = s \o u
  <2>1. /\ Len(s) \in Nat \ {0} /\ Len(s) \in 1..Len(s)
        /\ 1 \in 1..Len(s)
    BY <1>4, EmptySeq
  <2>2. Last(s) \in S /\ <<Last(s)>> \in Seq(S)
    BY <2>1, ElementOfSeq DEF Last
  <2>3. Front(s) \in Seq(S)
    <3>1. \A i \in 1..(Len(s) - 1) : s[i] \in S
      BY <2>1, ElementOfSeq
    <3> QED BY <2>1, <3>1, SubSeqProperties DEF Front
  <2>4. s = Front(s) \o <<Last(s)>>
    <3>1. SubSeq(s, 1, Len(s)) = SubSeq(s, 1, Len(s) - 1) \o <<s[Len(s)]>>
      BY <2>1, SubSeqRecursiveSecond
    <3> QED BY <3>1, SubSeqFull DEF Front, Last
  <2> DEFINE f == Front(s)
             l == <<Last(s)>>
  <2>5. f \in Seq(S) /\ l \in Seq(S) /\ s = f \o l
    BY <2>2, <2>3, <2>4
  <2> HIDE DEF f, l
  <2>6. (f \o l) \o u = f \o (l \o u)
    BY <2>5, ConcatAssociative
  <2>7. f \o (l \o u) = s \o u
    BY <2>5, <2>6
  <2> QED BY <2>7 DEF f, l
<1> QED BY <1>2, <1>3, <1>4

\* The head of a line of two queues is the first queue.
LEMMA HeadOfLine ==
  ASSUME NEW S, NEW s \in Seq(S), NEW u \in Seq(S), NEW e
  PROVE  /\ Contains(SubSeq(s \o u, 1, Len(s)), e) <=> e \in ToSet(s)
         /\ Contains(s \o u, e) <=> e \in ToSet(s) \union ToSet(u)
         /\ Len(s \o u) = Len(s) + Len(u)
<1> DEFINE t == s \o u
           m == Len(s)
           n == Len(u)
<1>1. m \in Nat /\ n \in Nat /\ DOMAIN s = 1..m /\ DOMAIN u = 1..n
  BY Members
<1>2. /\ t \in Seq(S) /\ Len(t) = m + n
      /\ \A i \in 1..(m + n) : t[i] = IF i <= m THEN s[i] ELSE u[i - m]
  BY ConcatProperties
<1>3. SubSeq(t, 1, m) = s
  <2>1. CASE m = 0
    <3>1. s = <<>>
      BY <2>1, EmptySeq
    <3>2. SubSeq(t, 1, m) = <<>>
      BY <2>1, SubSeqEmpty
    <3> QED BY <3>1, <3>2
  <2>2. CASE m # 0
    <3>1. 1 \in 1..m /\ m \in 1..m
      BY <1>1, <2>2
    <3>2. SubSeq(t, 1, m) = SubSeq(s, 1, m)
      BY <3>1, SubSeqOfConcat1
    <3> QED BY <3>2, SubSeqFull
  <2> QED BY <2>1, <2>2
<1> HIDE DEF t, m, n
<1>4. Contains(s, e) <=> e \in ToSet(s)
  BY <1>1 DEF Contains, ToSet, m
<1>5. Contains(t, e) <=> e \in ToSet(s) \union ToSet(u)
  <2>1. ASSUME Contains(t, e)
        PROVE  e \in ToSet(s) \union ToSet(u)
    <3>1. PICK i \in 1..(m + n) : t[i] = e
      BY <1>2, <2>1 DEF Contains
    <3>2. CASE i <= m
      <4>1. i \in 1..m
        BY <1>1, <3>2
      <4> QED BY <1>1, <1>2, <3>1, <3>2, <4>1 DEF ToSet
    <3>3. CASE ~(i <= m)
      <4>1. i - m \in 1..n
        BY <1>1, <3>3
      <4> QED BY <1>1, <1>2, <3>1, <3>3, <4>1 DEF ToSet
    <3> QED BY <3>2, <3>3
  <2>2. ASSUME e \in ToSet(s)
        PROVE  Contains(t, e)
    <3>1. PICK i \in 1..m : s[i] = e
      BY <1>1, <2>2 DEF ToSet
    <3>2. i \in 1..(m + n) /\ t[i] = e
      BY <1>1, <1>2, <3>1
    <3> QED BY <1>2, <3>2 DEF Contains
  <2>3. ASSUME e \in ToSet(u)
        PROVE  Contains(t, e)
    <3>1. PICK i \in 1..n : u[i] = e
      BY <1>1, <2>3 DEF ToSet
    <3>2. m + i \in 1..(m + n) /\ ~(m + i <= m) /\ (m + i) - m = i
      BY <1>1, <3>1
    <3>3. t[m + i] = e
      BY <1>2, <3>1, <3>2
    <3> QED BY <1>2, <3>2, <3>3 DEF Contains
  <2> QED BY <2>1, <2>2, <2>3
<1> QED BY <1>2, <1>3, <1>4, <1>5 DEF t, m, n

\* What Without() leaves is a queue of the others.
LEMMA WithoutQueue ==
  ASSUME NEW S, NEW s, IsQueue(s, S), NEW X
  PROVE  IsQueue(Without(s, X), S) /\ ToSet(Without(s, X)) = ToSet(s) \ X
<1>1. /\ s \in Seq(S) /\ Len(s) \in Nat /\ DOMAIN s = 1..Len(s)
      /\ \A i \in 1..Len(s) : s[i] \in S
      /\ \A i, j \in 1..Len(s) : s[i] = s[j] => i = j
  BY Members DEF IsQueue
<1>2. PICK kept : kept = {i \in DOMAIN s : s[i] \notin X}
  OBVIOUS
<1>3. /\ kept \subseteq 1..Len(s) /\ kept \subseteq Nat
      /\ IsFiniteSet(kept) /\ Cardinality(kept) \in Nat
  <2>1. kept \subseteq 1..Len(s)
    BY <1>1, <1>2
  <2>2. IsFiniteSet(1..Len(s))
    BY <1>1, FS_Interval
  <2>3. IsFiniteSet(kept)
    BY <2>1, <2>2, FS_Subset
  <2>4. Cardinality(kept) \in Nat
    BY <2>3, FS_CardinalityType
  <2>5. kept \subseteq Nat
    BY <1>1, <2>1
  <2> QED BY <2>1, <2>3, <2>4, <2>5
<1>4. PICK n \in Nat : n = Cardinality(kept)
  BY <1>3
<1>5. PICK rank : rank = [i \in kept |-> Cardinality({j \in kept : j <= i})]
  OBVIOUS
<1>6. ASSUME NEW i \in kept PROVE rank[i] \in 1..n
  <2>1. PICK low : low = {j \in kept : j <= i}
    OBVIOUS
  <2>2. low \subseteq kept /\ i \in low
    BY <1>3, <2>1
  <2>3. IsFiniteSet(low) /\ Cardinality(low) <= n /\ Cardinality(low) \in Nat
    BY <1>3, <1>4, <2>2, FS_Subset, FS_CardinalityType
  <2>4. Cardinality(low) # 0
    BY <2>2, <2>3, FS_EmptySet
  <2> QED BY <1>4, <1>5, <2>1, <2>3, <2>4
<1>7. ASSUME NEW i \in kept, NEW j \in kept, i < j PROVE rank[i] # rank[j]
  <2>1. PICK low, high : low = {k \in kept : k <= i} /\ high = {k \in kept : k <= j}
    OBVIOUS
  <2>2. low \subseteq high /\ j \in high /\ j \notin low
    <3>1. i \in Nat /\ j \in Nat /\ \A k \in kept : k \in Nat
      BY <1>3
    <3>2. \A k \in kept : k <= i => k <= j
      BY <1>7, <3>1
    <3>3. j <= j /\ ~(j <= i)
      BY <1>7, <3>1
    <3> QED BY <2>1, <3>2, <3>3
  <2>3. IsFiniteSet(high)
    BY <1>3, <2>1, FS_Subset
  <2>4. Cardinality(high) # Cardinality(low)
    BY <2>2, <2>3, FS_Subset
  <2> QED BY <1>5, <2>1, <2>4
<1>8. rank \in Injection(kept, 1..n)
  <2>1. \A i, j \in kept : i = j \/ i < j \/ j < i
    BY <1>3
  <2>2. \A i, j \in kept : rank[i] = rank[j] => i = j
    BY <1>7, <2>1
  <2>3. rank \in [kept -> 1..n]
    BY <1>5, <1>6
  <2> QED BY <2>2, <2>3 DEF Injection, IsInjective
<1>9. rank \in Surjection(kept, 1..n)
  <2>1. IsFiniteSet(1..n) /\ Cardinality(1..n) = n
    BY <1>4, FS_Interval
  <2> QED BY <1>4, <1>8, <2>1, FS_Injection
<1>10. PICK t : t = Without(s, X)
  OBVIOUS
<1>11. PICK nth : nth = [k \in 1..n |-> Nth(k, kept)]
  OBVIOUS
<1>12. ASSUME NEW k \in 1..n PROVE nth[k] \in kept /\ rank[nth[k]] = k
  <2>1. PICK i \in kept : rank[i] = k
    BY <1>9 DEF Surjection
  <2>2. \E j \in kept : Cardinality({l \in kept : l <= j}) = k
    BY <1>5, <2>1
  <2>3. /\ Nth(k, kept) \in kept
        /\ Cardinality({l \in kept : l <= Nth(k, kept)}) = k
    BY <2>2 DEF Nth
  <2> QED BY <1>5, <1>11, <2>3
<1>13. t = [k \in 1..n |-> s[nth[k]]]
  <2>1. t = [k \in 1..n |-> s[Nth(k, kept)]]
    BY <1>2, <1>4, <1>10, Zenon DEF Without
  <2> QED BY <1>11, <2>1
<1>14. \A k \in 1..n : nth[k] \in 1..Len(s) /\ s[nth[k]] \notin X
  BY <1>1, <1>2, <1>3, <1>12
<1>15. t \in Seq(S) /\ Len(t) = n /\ DOMAIN t = 1..n
  BY <1>1, <1>4, <1>13, <1>14
<1>16. \A k, l \in 1..n : t[k] = t[l] => k = l
  BY <1>1, <1>12, <1>13, <1>14
<1>17. IsQueue(t, S)
  BY <1>15, <1>16, Members DEF IsQueue
<1>18. ASSUME NEW e PROVE e \in ToSet(t) <=> e \in ToSet(s) \ X
  <2>1. ASSUME e \in ToSet(t) PROVE e \in ToSet(s) \ X
    <3>1. PICK k \in 1..n : t[k] = e
      BY <1>15, <2>1 DEF ToSet
    <3> QED BY <1>1, <1>13, <1>14, <3>1 DEF ToSet
  <2>2. ASSUME e \in ToSet(s) \ X PROVE e \in ToSet(t)
    <3>1. PICK i \in DOMAIN s : s[i] = e
      BY <2>2 DEF ToSet
    <3>2. i \in kept
      BY <1>2, <2>2, <3>1
    <3>3. PICK k \in 1..n : rank[i] = k /\ nth[k] \in kept /\ rank[nth[k]] = k
      BY <1>6, <1>12, <3>2
    <3>4. nth[k] = i
      BY <1>8, <3>2, <3>3 DEF Injection, IsInjective
    <3> QED BY <1>13, <1>15, <3>1, <3>3, <3>4 DEF ToSet
  <2> QED BY <2>1, <2>2
<1> QED BY <1>10, <1>17, <1>18

\* Dropping the last one leaves the front.
LEMMA WithoutLast ==
  ASSUME NEW S, NEW s, IsQueue(s, S), s # <<>>
  PROVE  Without(s, {Last(s)}) = Front(s)
<1>1. /\ s \in Seq(S) /\ Len(s) \in Nat /\ DOMAIN s = 1..Len(s)
      /\ \A i, j \in 1..Len(s) : s[i] = s[j] => i = j
  BY Members DEF IsQueue
<1>2. /\ Last(s) = s[Len(s)] /\ Len(s) > 0 /\ Front(s) \in Seq(S)
      /\ Len(Front(s)) = Len(s) - 1
      /\ \A i \in 1..(Len(s) - 1) : Front(s)[i] = s[i]
  BY FrontOfQueue DEF IsQueue
<1>3. PICK n \in Nat : n = Len(s) - 1
  <2>1. PICK m \in Nat : m = Len(s) /\ m > 0
    BY <1>1, <1>2
  <2>2. m - 1 \in Nat
    BY <2>1
  <2> QED BY <2>1, <2>2
<1>4. Len(s) = n + 1 /\ DOMAIN s = 1..(n + 1) /\ n + 1 \in 1..(n + 1)
  BY <1>1, <1>3
<1>5. {i \in DOMAIN s : s[i] \notin {Last(s)}} = 1..n
  BY <1>1, <1>2, <1>4
<1>6. Cardinality(1..n) = n
  BY FS_Interval
<1>7. ASSUME NEW k \in 1..n PROVE Nth(k, 1..n) = k
  <2>1. \A i \in 1..n : {j \in 1..n : j <= i} = 1..i
    OBVIOUS
  <2>2. \A i \in 1..n : Cardinality(1..i) = i
    BY FS_Interval
  <2>3. \A i \in 1..n : Cardinality({j \in 1..n : j <= i}) = i
    BY <2>1, <2>2
  <2> QED BY <2>3 DEF Nth
<1>8. Without(s, {Last(s)}) = [k \in 1..n |-> s[Nth(k, 1..n)]]
  BY <1>5, <1>6 DEF Without
<1>9. Without(s, {Last(s)}) = [k \in 1..n |-> s[k]]
  BY <1>7, <1>8
<1>10. DOMAIN Front(s) = 1..n /\ \A i \in 1..n : Front(s)[i] = s[i]
  BY <1>2, <1>3, LenProperties
<1>11. Front(s) = [k \in 1..n |-> Front(s)[k]]
  BY <1>2, <1>10
<1> QED BY <1>9, <1>10, <1>11

-----------------------------------------------------------------------------
(* Sums.                                                                   *)

\* A set of natural numbers that holds 0 and every successor holds them all.
LEMMA Induction ==
  ASSUME NEW T \in SUBSET Nat, 0 \in T, \A n \in T : n + 1 \in T
  PROVE  T = Nat
<1> DEFINE rest == Nat \ T
           R == OpToRel(<, Nat)
<1>1. SUFFICES ASSUME rest # {}
               PROVE  FALSE
  OBVIOUS
<1>2. PICK n \in rest : \A m \in rest : ~(<<m, n>> \in R)
  <2>1. IsWellFoundedOn(R, Nat)
    BY NatLessThanWellFounded
  <2>2. rest \subseteq Nat
    OBVIOUS
  <2> HIDE DEF R, rest
  <2> QED BY <1>1, <2>1, <2>2, WFMin
<1>3. \A m \in rest : ~(m < n)
  BY <1>2 DEF OpToRel
<1>4. n \in Nat /\ n # 0
  OBVIOUS
<1>5. n - 1 \in Nat /\ n - 1 < n /\ (n - 1) + 1 = n
  BY <1>4
<1> QED BY <1>3, <1>5

Member(s) == CHOOSE x \in s : TRUE

\* g gives the sum of f over every subset of S.
Sums(g, f, S) ==
  g = [s \in SUBSET S |->
         IF s = {} THEN 0 ELSE f[Member(s)] + g[s \ {Member(s)}]]

\* FoldFunctionOnSet adds up one chosen member at a time.
LEMMA FoldIsSum ==
  ASSUME NEW f, NEW S
  PROVE  FoldFunctionOnSet(+, 0, f, S) = (CHOOSE g : Sums(g, f, S))[S]
BY DEF FoldFunctionOnSet, MapThenFoldSet, Sums, Member

\* The subsets of S with at most n members.
UpTo(S, n) == {s \in SUBSET S : Cardinality(s) <= n}

SumsUpTo(g, f, S, n) ==
  /\ g \in [UpTo(S, n) -> Int]
  /\ \A s \in UpTo(S, n) :
       g[s] = IF s = {} THEN 0 ELSE f[Member(s)] + g[s \ {Member(s)}]

\* Taking the chosen member out leaves a smaller subset.
LEMMA Smaller ==
  ASSUME NEW S, IsFiniteSet(S), NEW s \in SUBSET S, s # {}
  PROVE  /\ Member(s) \in s /\ Member(s) \in S
         /\ s \ {Member(s)} \in SUBSET S
         /\ Cardinality(s) \in Nat /\ Cardinality(s) > 0
         /\ Cardinality(s \ {Member(s)}) = Cardinality(s) - 1
<1>1. Member(s) \in s
  BY DEF Member
<1>2. IsFiniteSet(s)
  BY FS_Subset
<1>3. Cardinality(s \ {Member(s)}) = Cardinality(s) - 1
  BY <1>1, <1>2, FS_RemoveElement
<1>4. Cardinality(s) \in Nat /\ Cardinality(s) # 0
  BY <1>2, FS_CardinalityType, FS_EmptySet
<1> QED BY <1>1, <1>3, <1>4

\* The recursion has a solution, and its values are integers.
LEMMA SumsExist ==
  ASSUME NEW S, IsFiniteSet(S), NEW f \in [S -> Int]
  PROVE  \E g \in [SUBSET S -> Int] : Sums(g, f, S)
<1> DEFINE T == {n \in Nat : \E g : SumsUpTo(g, f, S, n)}
<1>1. T \in SUBSET Nat
  OBVIOUS
<1>2. \A s \in SUBSET S : IsFiniteSet(s) /\ Cardinality(s) \in Nat
  BY FS_Subset, FS_CardinalityType
<1>3. \A s \in SUBSET S : Cardinality(s) <= 0 <=> s = {}
  BY <1>2, FS_EmptySet
<1>4. 0 \in T
  <2> DEFINE g == [s \in UpTo(S, 0) |-> 0]
  <2>1. SumsUpTo(g, f, S, 0)
    BY <1>3 DEF SumsUpTo, UpTo
  <2> QED BY <2>1
<1>5. ASSUME NEW n \in T
      PROVE  n + 1 \in T
  <2>1. PICK g : SumsUpTo(g, f, S, n)
    OBVIOUS
  <2> DEFINE h == [s \in UpTo(S, n + 1) |->
                     IF s = {} THEN 0 ELSE f[Member(s)] + g[s \ {Member(s)}]]
  <2>2. ASSUME NEW s \in UpTo(S, n + 1), s # {}
        PROVE  /\ s \ {Member(s)} \in UpTo(S, n)
               /\ f[Member(s)] \in Int
    BY <2>2, Smaller DEF UpTo
  <2>3. UpTo(S, n) \subseteq UpTo(S, n + 1)
    BY <1>2 DEF UpTo
  <2>4. \A s \in UpTo(S, n) : h[s] = g[s]
    BY <2>1, <2>3 DEF SumsUpTo
  <2>5. h \in [UpTo(S, n + 1) -> Int]
    BY <2>1, <2>2 DEF SumsUpTo
  <2>6. \A s \in UpTo(S, n + 1) :
          h[s] = IF s = {} THEN 0 ELSE f[Member(s)] + h[s \ {Member(s)}]
    <3> SUFFICES ASSUME NEW s \in UpTo(S, n + 1)
                 PROVE  h[s] = IF s = {} THEN 0 ELSE f[Member(s)] + h[s \ {Member(s)}]
      OBVIOUS
    <3>1. CASE s = {}
      BY <3>1
    <3>2. CASE s # {}
      <4>1. h[s \ {Member(s)}] = g[s \ {Member(s)}]
        BY <3>2, <2>2, <2>4
      <4> QED BY <3>2, <4>1
    <3> QED BY <3>1, <3>2
  <2> HIDE DEF h
  <2>7. SumsUpTo(h, f, S, n + 1)
    BY <2>5, <2>6 DEF SumsUpTo
  <2> QED BY <2>7
<1>6. Cardinality(S) \in T
  <2> HIDE DEF T
  <2>1. T = Nat
    BY <1>1, <1>4, <1>5, Induction
  <2> QED BY <2>1, <1>2
<1>7. PICK g : SumsUpTo(g, f, S, Cardinality(S))
  BY <1>6
<1>8. UpTo(S, Cardinality(S)) = SUBSET S
  BY FS_Subset DEF UpTo
<1>9. Sums(g, f, S)
  BY <1>7, <1>8 DEF SumsUpTo, Sums
<1> QED BY <1>7, <1>8, <1>9 DEF SumsUpTo

\* The sum of f over s.
SumOver(f, S, s) == (CHOOSE g : Sums(g, f, S))[s]

\* The recursion, as equations.
LEMMA SumSteps ==
  ASSUME NEW S, IsFiniteSet(S), NEW f \in [S -> Int]
  PROVE  /\ SumOver(f, S, {}) = 0
         /\ \A s \in SUBSET S : s # {} =>
              SumOver(f, S, s) = f[Member(s)] + SumOver(f, S, s \ {Member(s)})
<1> DEFINE g == CHOOSE g : Sums(g, f, S)
<1>1. Sums(g, f, S)
  BY SumsExist
<1> HIDE DEF g
<1>2. /\ g[{}] = 0
      /\ \A s \in SUBSET S : s # {} => g[s] = f[Member(s)] + g[s \ {Member(s)}]
  BY <1>1 DEF Sums
<1> QED BY <1>2 DEF SumOver, g

\* Induction over the subsets of a finite set, from its smaller subsets.
LEMMA SubsetInduction ==
  ASSUME NEW S, IsFiniteSet(S), NEW P \in SUBSET (SUBSET S),
         \A s \in SUBSET S : (\A t \in SUBSET s : t # s => t \in P) => s \in P
  PROVE  \A s \in SUBSET S : s \in P
<1> DEFINE R == StrictSubsetOrdering(S)
           rest == (SUBSET S) \ P
<1>1. IsWellFoundedOn(R, SUBSET S)
  BY FS_StrictSubsetOrderingWellFounded, FS_FiniteSubsetsOfFinite
<1>2. rest \subseteq SUBSET S
  OBVIOUS
<1>3. SUFFICES ASSUME rest # {} PROVE FALSE
  OBVIOUS
<1>4. PICK s \in rest : \A t \in rest : ~(<<t, s>> \in R)
  <2> HIDE DEF R, rest
  <2> QED BY <1>1, <1>2, <1>3, WFMin
<1>5. ASSUME NEW t \in SUBSET s, t # s
      PROVE  t \in P
  <2>1. s \in SUBSET S /\ t \in SUBSET S
    OBVIOUS
  <2>2. <<t, s>> \in R
    BY <1>5, <2>1 DEF StrictSubsetOrdering
  <2> QED BY <1>4, <2>1, <2>2
<1> QED BY <1>5

\* A sum of integers is an integer.
LEMMA SumType ==
  ASSUME NEW S, IsFiniteSet(S), NEW f \in [S -> Int]
  PROVE  \A s \in SUBSET S : SumOver(f, S, s) \in Int
<1> DEFINE P == {s \in SUBSET S : SumOver(f, S, s) \in Int}
<1>1. ASSUME NEW s \in SUBSET S, \A t \in SUBSET s : t # s => t \in P
      PROVE  s \in P
  <2>1. CASE s = {}
    BY <2>1, SumSteps
  <2>2. CASE s # {}
    <3>1. Member(s) \in s
      BY <2>2 DEF Member
    <3>2. s \ {Member(s)} \in P
      BY <1>1, <3>1
    <3>3. SumOver(f, S, s) = f[Member(s)] + SumOver(f, S, s \ {Member(s)})
      BY <2>2, SumSteps
    <3> QED BY <3>1, <3>2, <3>3
  <2> QED BY <2>1, <2>2
<1>2. P \in SUBSET (SUBSET S)
  OBVIOUS
<1> HIDE DEF P
<1>3. \A s \in SUBSET S : s \in P
  BY <1>1, <1>2, SubsetInduction
<1> QED BY <1>3 DEF P

\* Any member may be taken out first, not only the chosen one.
LEMMA SumRemove ==
  ASSUME NEW S, IsFiniteSet(S), NEW f \in [S -> Int]
  PROVE  \A s \in SUBSET S : \A x \in s :
           SumOver(f, S, s) = f[x] + SumOver(f, S, s \ {x})
<1> DEFINE P == {s \in SUBSET S : \A x \in s :
                   SumOver(f, S, s) = f[x] + SumOver(f, S, s \ {x})}
<1>1. ASSUME NEW s \in SUBSET S, \A t \in SUBSET s : t # s => t \in P
      PROVE  s \in P
  <2> SUFFICES ASSUME NEW x \in s
               PROVE  SumOver(f, S, s) = f[x] + SumOver(f, S, s \ {x})
    OBVIOUS
  <2> DEFINE m == Member(s)
  <2>1. m \in s
    BY DEF Member
  <2>2. SumOver(f, S, s) = f[m] + SumOver(f, S, s \ {m})
    BY SumSteps
  <2>3. CASE x = m
    BY <2>2, <2>3
  <2>4. CASE x # m
    <3> HIDE DEF m
    <3>1. s \ {m} \in P /\ s \ {x} \in P
      BY <1>1, <2>1
    <3>2. SumOver(f, S, s \ {m}) = f[x] + SumOver(f, S, (s \ {m}) \ {x})
      BY <2>4, <3>1
    <3> DEFINE both == (s \ {m}) \ {x}
    <3>3. both = (s \ {x}) \ {m} /\ both \in SUBSET S
      OBVIOUS
    <3>4. SumOver(f, S, s \ {x}) = f[m] + SumOver(f, S, both)
      BY <2>1, <2>4, <3>1, <3>3
    <3>5. SumOver(f, S, both) \in Int /\ f[x] \in Int /\ f[m] \in Int
      BY <2>1, <3>3, SumType
    <3> HIDE DEF both
    <3> QED BY <2>2, <3>2, <3>4, <3>5 DEF both
  <2> QED BY <2>3, <2>4
<1>2. P \in SUBSET (SUBSET S)
  OBVIOUS
<1> HIDE DEF P
<1>3. \A s \in SUBSET S : s \in P
  BY <1>1, <1>2, SubsetInduction
<1> QED BY <1>3 DEF P

\* The sum depends on the values it adds up only.
LEMMA SumSame ==
  ASSUME NEW S, IsFiniteSet(S), NEW f \in [S -> Int], NEW g \in [S -> Int]
  PROVE  \A s \in SUBSET S :
           (\A x \in s : f[x] = g[x]) => SumOver(f, S, s) = SumOver(g, S, s)
<1> DEFINE P == {s \in SUBSET S : (\A x \in s : f[x] = g[x])
                                  => SumOver(f, S, s) = SumOver(g, S, s)}
<1>1. ASSUME NEW s \in SUBSET S, \A t \in SUBSET s : t # s => t \in P
      PROVE  s \in P
  <2>1. CASE s = {}
    BY <2>1, SumSteps
  <2>2. CASE s # {}
    <3>1. Member(s) \in s
      BY <2>2 DEF Member
    <3>2. s \ {Member(s)} \in P
      BY <1>1, <3>1
    <3>3. /\ SumOver(f, S, s) = f[Member(s)] + SumOver(f, S, s \ {Member(s)})
          /\ SumOver(g, S, s) = g[Member(s)] + SumOver(g, S, s \ {Member(s)})
      BY <2>2, SumSteps
    <3> QED BY <3>1, <3>2, <3>3
  <2> QED BY <2>1, <2>2
<1>2. P \in SUBSET (SUBSET S)
  OBVIOUS
<1> HIDE DEF P
<1>3. \A s \in SUBSET S : s \in P
  BY <1>1, <1>2, SubsetInduction
<1> QED BY <1>3 DEF P

\* The sum of all values of f.
Total(f) == FoldFunction(+, 0, f)

LEMMA TotalIsSum ==
  ASSUME NEW S, NEW f \in [S -> Int]
  PROVE  Total(f) = SumOver(f, S, S)
<1>1. DOMAIN f = S
  OBVIOUS
<1>2. FoldFunctionOnSet(+, 0, f, S) = SumOver(f, S, S)
  BY FoldIsSum DEF SumOver
<1> QED BY <1>1, <1>2 DEF FoldFunction, Total

\* Changing one value changes the sum by as much.
LEMMA SumChange ==
  ASSUME NEW S, IsFiniteSet(S), NEW f \in [S -> Int], NEW x \in S, NEW v \in Int
  PROVE  /\ Total([f EXCEPT ![x] = v]) = Total(f) - f[x] + v
         /\ Total(f) \in Int
<1> DEFINE g == [f EXCEPT ![x] = v]
<1>1. g \in [S -> Int] /\ g[x] = v /\ \A y \in S \ {x} : g[y] = f[y]
  OBVIOUS
<1> HIDE DEF g
<1>2. Total(f) = SumOver(f, S, S) /\ Total(g) = SumOver(g, S, S)
  BY <1>1, TotalIsSum
<1>3. /\ SumOver(f, S, S) = f[x] + SumOver(f, S, S \ {x})
      /\ SumOver(g, S, S) = g[x] + SumOver(g, S, S \ {x})
  BY <1>1, SumRemove
<1>4. SumOver(f, S, S \ {x}) = SumOver(g, S, S \ {x})
  BY <1>1, SumSame
<1>5. SumOver(f, S, S \ {x}) \in Int /\ f[x] \in Int
  BY SumType
<1> QED BY <1>1, <1>2, <1>3, <1>4, <1>5 DEF g

\* Nothing adds up to nothing.
LEMMA SumOfZeros ==
  ASSUME NEW S, IsFiniteSet(S)
  PROVE  Total([x \in S |-> 0]) = 0
<1> DEFINE f == [x \in S |-> 0]
           P == {s \in SUBSET S : SumOver(f, S, s) = 0}
<1>1. f \in [S -> Int] /\ DOMAIN f = S
  OBVIOUS
<1>2. ASSUME NEW s \in SUBSET S, \A t \in SUBSET s : t # s => t \in P
      PROVE  s \in P
  <2>1. CASE s = {}
    BY <1>1, <2>1, SumSteps
  <2>2. CASE s # {}
    <3>1. Member(s) \in s
      BY <2>2 DEF Member
    <3>2. s \ {Member(s)} \in P
      BY <1>2, <3>1
    <3>3. SumOver(f, S, s) = f[Member(s)] + SumOver(f, S, s \ {Member(s)})
      BY <1>1, <2>2, SumSteps
    <3> QED BY <3>1, <3>2, <3>3
  <2> QED BY <2>1, <2>2
<1>3. P \in SUBSET (SUBSET S)
  OBVIOUS
<1>4. Total(f) = SumOver(f, S, S)
  BY <1>1, TotalIsSum
<1> HIDE DEF P
<1>5. \A s \in SUBSET S : s \in P
  BY <1>2, <1>3, SubsetInduction
<1> QED BY <1>4, <1>5 DEF P

\* The library adds up the same.
LEMMA SumWithin ==
  ASSUME NEW D, IsFiniteSet(D), NEW f \in [D -> Int], NEW S \in SUBSET D
  PROVE  SumFunctionOnSet(f, S) = SumOver(f, D, S)
<1> DEFINE h == [x \in S |-> f[x]]
           g == CHOOSE g : Sums(g, f, S)
<1>1. IsFiniteSet(S) /\ h \in [S -> Int]
  BY FS_Subset
<1>2. Sums(g, f, S)
  <2>1. PICK s \in [SUBSET S -> Int] : Sums(s, h, S)
    BY <1>1, SumsExist
  <2>2. \A t \in SUBSET S : t # {} => h[Member(t)] = f[Member(t)]
    BY DEF Member
  <2>3. Sums(s, f, S)
    BY <2>1, <2>2 DEF Sums
  <2> QED BY <2>3
<1>3. SumFunctionOnSet(f, S) = g[S]
  BY FoldIsSum DEF SumFunctionOnSet
<1> HIDE DEF g, h
<1>4. /\ g[{}] = 0
      /\ \A s \in SUBSET S : s # {} => g[s] = f[Member(s)] + g[s \ {Member(s)}]
  BY <1>2 DEF Sums
<1> DEFINE P == {s \in SUBSET S : g[s] = SumOver(f, D, s)}
<1>5. ASSUME NEW s \in SUBSET S, \A t \in SUBSET s : t # s => t \in P
      PROVE  s \in P
  <2>1. CASE s = {}
    BY <2>1, <1>4, SumSteps
  <2>2. CASE s # {}
    <3>1. Member(s) \in s
      BY <2>2 DEF Member
    <3>2. s \ {Member(s)} \in P
      BY <1>5, <3>1
    <3>3. s \in SUBSET D
      OBVIOUS
    <3>4. SumOver(f, D, s) = f[Member(s)] + SumOver(f, D, s \ {Member(s)})
      BY <2>2, <3>3, SumSteps
    <3> QED BY <1>4, <2>2, <3>2, <3>4
  <2> QED BY <2>1, <2>2
<1>6. P \in SUBSET (SUBSET S)
  OBVIOUS
<1> HIDE DEF P
<1>7. \A s \in SUBSET S : s \in P
  BY <1>1, <1>5, <1>6, SubsetInduction
<1> QED BY <1>3, <1>7 DEF P

\* Natural numbers add up to one, and two separate parts to the sum of both.
LEMMA SumOfParts ==
  ASSUME NEW D, IsFiniteSet(D), NEW f \in [D -> Nat]
  PROVE  /\ \A S \in SUBSET D : SumFunctionOnSet(f, S) \in Nat
         /\ SumFunctionOnSet(f, {}) = 0
         /\ \A h \in D : SumFunctionOnSet(f, {h}) = f[h]
         /\ \A S, U \in SUBSET D : S \intersect U = {} =>
              SumFunctionOnSet(f, S \union U)
                = SumFunctionOnSet(f, S) + SumFunctionOnSet(f, U)
<1>1. f \in [D -> Int]
  OBVIOUS
<1>2. /\ SumOver(f, D, {}) = 0
      /\ \A s \in SUBSET D : SumOver(f, D, s) \in Int
      /\ \A s \in SUBSET D : \A x \in s :
           SumOver(f, D, s) = f[x] + SumOver(f, D, s \ {x})
  BY <1>1, SumSteps, SumType, SumRemove
<1>3. \A s \in SUBSET D : SumOver(f, D, s) \in Nat
  <2> DEFINE P == {s \in SUBSET D : SumOver(f, D, s) \in Nat}
  <2>1. ASSUME NEW s \in SUBSET D, \A t \in SUBSET s : t # s => t \in P
        PROVE  s \in P
    <3>1. CASE s = {}
      BY <1>2, <3>1
    <3>2. CASE s # {}
      <4>1. PICK x \in s : TRUE
        BY <3>2
      <4>2. s \ {x} \in P
        BY <2>1, <4>1
      <4>3. SumOver(f, D, s) = f[x] + SumOver(f, D, s \ {x}) /\ f[x] \in Nat
        BY <1>2, <4>1
      <4> QED BY <4>2, <4>3
    <3> QED BY <3>1, <3>2
  <2>2. P \in SUBSET (SUBSET D)
    OBVIOUS
  <2> HIDE DEF P
  <2>3. \A s \in SUBSET D : s \in P
    BY <2>1, <2>2, SubsetInduction
  <2> QED BY <2>3 DEF P
<1>4. ASSUME NEW h \in D PROVE SumOver(f, D, {h}) = f[h]
  <2>1. {h} \in SUBSET D /\ h \in {h} /\ {h} \ {h} = {}
    OBVIOUS
  <2>2. SumOver(f, D, {h}) = f[h] + SumOver(f, D, {})
    BY <1>2, <2>1
  <2> QED BY <1>2, <2>2
<1>5. ASSUME NEW S \in SUBSET D, NEW U \in SUBSET D, S \intersect U = {}
      PROVE  SumOver(f, D, S \union U) = SumOver(f, D, S) + SumOver(f, D, U)
  <2> DEFINE P == {u \in SUBSET U : SumOver(f, D, S \union u)
                                      = SumOver(f, D, S) + SumOver(f, D, u)}
  <2>1. ASSUME NEW u \in SUBSET U, \A t \in SUBSET u : t # u => t \in P
        PROVE  u \in P
    <3>1. CASE u = {}
      <4>1. S \union u = S
        BY <3>1
      <4> QED BY <1>2, <3>1, <4>1
    <3>2. CASE u # {}
      <4>1. PICK x \in u : TRUE
        BY <3>2
      <4>2. u \ {x} \in P
        BY <2>1, <4>1
      <4>3. PICK both : both = S \union u
        OBVIOUS
      <4>4. both \in SUBSET D /\ x \in both /\ both \ {x} = S \union (u \ {x})
        BY <1>5, <4>1, <4>3
      <4>5. SumOver(f, D, both) = f[x] + SumOver(f, D, both \ {x})
        BY <1>2, <4>4
      <4>6. u \in SUBSET D
        OBVIOUS
      <4>7. SumOver(f, D, u) = f[x] + SumOver(f, D, u \ {x})
        BY <1>2, <4>1, <4>6
      <4>8. SumOver(f, D, S \union (u \ {x}))
              = SumOver(f, D, S) + SumOver(f, D, u \ {x})
        BY <4>2
      <4>9. /\ SumOver(f, D, S) \in Int /\ SumOver(f, D, u \ {x}) \in Int
            /\ f[x] \in Int
        BY <1>2, <4>1
      <4>10. PICK a, b, c \in Int : /\ a = SumOver(f, D, S) /\ c = f[x]
                                    /\ b = SumOver(f, D, u \ {x})
        BY <4>9
      <4>11. /\ SumOver(f, D, both) = c + (a + b)
             /\ SumOver(f, D, u) = c + b
        BY <4>4, <4>5, <4>7, <4>8, <4>10
      <4>12. SumOver(f, D, both) = a + SumOver(f, D, u)
        BY <4>10, <4>11
      <4> QED BY <4>3, <4>10, <4>12
    <3> QED BY <3>1, <3>2
  <2>2. P \in SUBSET (SUBSET U) /\ IsFiniteSet(U)
    BY FS_Subset
  <2> HIDE DEF P
  <2>3. \A u \in SUBSET U : u \in P
    BY <2>1, <2>2, SubsetInduction
  <2> QED BY <2>3 DEF P
<1>6. \A S \in SUBSET D : SumFunctionOnSet(f, S) = SumOver(f, D, S)
  BY <1>1, SumWithin
<1> QED BY <1>2, <1>3, <1>4, <1>5, <1>6

-----------------------------------------------------------------------------
(* Positions.                                                              *)

\* A set of natural numbers has a least member.
LEMMA LeastNumber ==
  ASSUME NEW T \in SUBSET Nat, T # {}
  PROVE  \E n \in T : \A m \in T : n <= m
<1> DEFINE R == OpToRel(<, Nat)
<1>1. PICK n \in T : \A m \in T : ~(<<m, n>> \in R)
  <2>1. IsWellFoundedOn(R, Nat)
    BY NatLessThanWellFounded
  <2> HIDE DEF R
  <2> QED BY <2>1, WFMin
<1>2. \A m \in T : ~(m < n)
  BY <1>1 DEF OpToRel
<1> QED BY <1>2

\* From position to position.
LEMMA PositionInduction ==
  ASSUME NEW n \in Nat, NEW P, 0 \in P, \A k \in 1..n : k - 1 \in P => k \in P
  PROVE  \A k \in 0..n : k \in P
<1> DEFINE T == {k \in Nat : k <= n => k \in P}
<1>1. T \in SUBSET Nat /\ 0 \in T
  OBVIOUS
<1>2. ASSUME NEW k \in T PROVE k + 1 \in T
  <2>1. CASE k + 1 <= n
    <3>1. k + 1 \in 1..n /\ (k + 1) - 1 = k /\ k \in P
      BY <2>1
    <3>2. k + 1 \in P
      BY <3>1
    <3> QED BY <3>2
  <2>2. CASE ~(k + 1 <= n)
    BY <2>2
  <2> QED BY <2>1, <2>2
<1> HIDE DEF T
<1>3. T = Nat
  BY <1>1, <1>2, Induction
<1> QED BY <1>3 DEF T

-----------------------------------------------------------------------------
(* Prefixes of sequences.                                                  *)

\* The first n members of a sequence.
LEMMA Prefix ==
  ASSUME NEW S, NEW s \in Seq(S), NEW n \in 0..Len(s)
  PROVE  /\ SubSeq(s, 1, n) \in Seq(S)
         /\ Len(SubSeq(s, 1, n)) = n
         /\ \A i \in 1..n : SubSeq(s, 1, n)[i] = s[i]
<1>1. n \in Int /\ Len(s) \in Nat /\ \A i \in 1..n : s[i] \in S
  BY Members
<1>2. SubSeq(s, 1, n) \in Seq(S)
  BY <1>1, SubSeqProperties
<1>3. Len(SubSeq(s, 1, n)) = IF 1 <= n THEN n - 1 + 1 ELSE 0
  BY <1>1, SubSeqProperties
<1>4. \A i \in 1..(n - 1 + 1) : SubSeq(s, 1, n)[i] = s[1 + i - 1]
  BY <1>1, SubSeqProperties
<1> QED BY <1>1, <1>2, <1>3, <1>4

\* Sequences that agree up to n have the same first n members.
LEMMA SamePrefix ==
  ASSUME NEW S, NEW s \in Seq(S), NEW R, NEW u \in Seq(R),
         NEW n \in 0..Len(s), n \in 0..Len(u), \A i \in 1..n : s[i] = u[i]
  PROVE  SubSeq(s, 1, n) = SubSeq(u, 1, n)
<1>1. /\ SubSeq(s, 1, n) \in Seq(S) /\ Len(SubSeq(s, 1, n)) = n
      /\ \A i \in 1..n : SubSeq(s, 1, n)[i] = s[i]
  BY Prefix
<1>2. /\ SubSeq(u, 1, n) \in Seq(R) /\ Len(SubSeq(u, 1, n)) = n
      /\ \A i \in 1..n : SubSeq(u, 1, n)[i] = u[i]
  BY Prefix
<1>3. \A i \in 1..n : SubSeq(s, 1, n)[i] = SubSeq(u, 1, n)[i]
  BY <1>1, <1>2
<1> DEFINE x == SubSeq(s, 1, n)  y == SubSeq(u, 1, n)
<1>4. x \in Seq(S) /\ y \in Seq(R) /\ Len(x) = Len(y) /\ \A i \in 1..Len(x) : x[i] = y[i]
  BY <1>1, <1>2, <1>3
<1> HIDE DEF x, y
<1>5. x = y
  <2>1. x \in Seq(S \cup R) /\ y \in Seq(S \cup R)
    BY <1>4
  <2> QED BY <1>4, <2>1, SeqEqual
<1> QED BY <1>5 DEF x, y

\* A prefix of a prefix.
LEMMA PrefixOfPrefix ==
  ASSUME NEW S, NEW s \in Seq(S), NEW n \in 0..Len(s), NEW j \in 0..n
  PROVE  SubSeq(SubSeq(s, 1, n), 1, j) = SubSeq(s, 1, j)
<1>1. /\ SubSeq(s, 1, n) \in Seq(S) /\ Len(SubSeq(s, 1, n)) = n
      /\ \A i \in 1..n : SubSeq(s, 1, n)[i] = s[i]
  BY Prefix
<1>2. Len(s) \in Nat
  BY Members
<1>3. j \in 0..Len(s) /\ j \in 0..Len(SubSeq(s, 1, n))
      /\ \A i \in 1..j : SubSeq(s, 1, n)[i] = s[i]
  BY <1>1, <1>2
<1> QED BY <1>1, <1>3, SamePrefix

-----------------------------------------------------------------------------
(* Folds.                                                                  *)

\* The least of two.
LEMMA LessOfTwo ==
  ASSUME NEW x \in Int, NEW y \in Int
  PROVE  /\ Min({x, y}) \in Int /\ Min({x, y}) <= x /\ Min({x, y}) <= y
         /\ Min({x, y}) \in {x, y}
<1>1. \E z \in {x, y} : \A e \in {x, y} : z <= e
  <2>1. CASE x <= y
    BY <2>1
  <2>2. CASE y <= x
    BY <2>2
  <2> QED BY <2>1, <2>2
<1>2. Min({x, y}) \in {x, y} /\ \A e \in {x, y} : Min({x, y}) <= e
  BY <1>1 DEF Min
<1> QED BY <1>2

\* The largest of some numbers.
LEMMA LargestPosition ==
  ASSUME NEW n \in Nat, NEW s \in SUBSET (0..n), s # {}
  PROVE  Max(s) \in s /\ \A i \in s : i <= Max(s)
<1>1. \A i \in s : i \in Nat /\ i <= n
  OBVIOUS
<1> DEFINE T == {m \in Nat : \A i \in s : i <= m}
<1>2. T \in SUBSET Nat /\ n \in T
  BY <1>1
<1>3. PICK m \in T : \A k \in T : m <= k
  <2> HIDE DEF T
  <2> QED BY <1>2, LeastNumber
<1>4. m \in s
  <2>1. SUFFICES ASSUME m \notin s PROVE FALSE
    OBVIOUS
  <2>2. PICK x \in s : TRUE
    OBVIOUS
  <2>3. \A i \in s : i <= m - 1
    BY <1>1, <1>3, <2>1
  <2>4. m \in Nat /\ x <= m - 1 /\ x \in Nat
    BY <1>1, <1>3, <2>3
  <2>5. m - 1 \in Nat
    BY <2>4
  <2>6. m - 1 \in T
    BY <2>3, <2>5
  <2>7. m <= m - 1
    BY <1>3, <2>6
  <2> QED BY <2>4, <2>7
<1>5. \A i \in s : m >= i
  BY <1>1, <1>3
<1>6. Max(s) \in s /\ \A i \in s : Max(s) >= i
  BY <1>4, <1>5 DEF Max
<1> QED BY <1>1, <1>6

LEMMA LastOfInterval ==
  ASSUME NEW n \in Nat, NEW k \in 1..n
  PROVE  /\ Max(1..k) = k /\ (1..k) \ {k} = 1..(k - 1)
         /\ 1..k \in SUBSET (1..n) /\ 1..(k - 1) \in SUBSET (1..n) /\ 1..k # {}
<1>1. 1..k # {} /\ 1..k \in SUBSET (0..k) /\ k \in Nat /\ k \in 1..k
  OBVIOUS
<1>2. Max(1..k) \in 1..k /\ \A i \in 1..k : i <= Max(1..k)
  BY <1>1, LargestPosition
<1>3. PICK m : m = Max(1..k)
  OBVIOUS
<1>4. m = k
  BY <1>1, <1>2, <1>3
<1> QED BY <1>1, <1>3, <1>4

\* it is what FoldLeft computes of base with the steps g.
FoldSteps(it, g, base, D) ==
  it = [s \in SUBSET D |->
          IF s = {} THEN base ELSE g[Max(s)][it[s \ {Max(s)}]]]

FoldsUpTo(it, g, base, D, k, C) ==
  /\ it \in [UpTo(D, k) -> C]
  /\ \A s \in UpTo(D, k) :
       it[s] = IF s = {} THEN base ELSE g[Max(s)][it[s \ {Max(s)}]]

\* FoldLeft chooses by Max.
MaxWithin(D) == \A s \in SUBSET D : s # {} => Max(s) \in s

\* The recursion of FoldLeft has a solution, whatever the steps.
LEMMA FoldsExist ==
  ASSUME NEW C, NEW base \in C, NEW D, IsFiniteSet(D), NEW g \in [D -> [C -> C]],
         MaxWithin(D)
  PROVE  \E it \in [SUBSET D -> C] : FoldSteps(it, g, base, D)
<1> DEFINE T == {k \in Nat : \E it : FoldsUpTo(it, g, base, D, k, C)}
<1>1. \A s \in SUBSET D : IsFiniteSet(s) /\ Cardinality(s) \in Nat
  BY FS_Subset, FS_CardinalityType
<1>2. \A s \in SUBSET D : Cardinality(s) <= 0 <=> s = {}
  BY <1>1, FS_EmptySet
<1>3. 0 \in T
  <2> DEFINE it == [s \in UpTo(D, 0) |-> base]
  <2>1. FoldsUpTo(it, g, base, D, 0, C)
    BY <1>2 DEF FoldsUpTo, UpTo
  <2> QED BY <2>1
<1>4. ASSUME NEW k \in T PROVE k + 1 \in T
  <2>1. PICK it : FoldsUpTo(it, g, base, D, k, C)
    OBVIOUS
  <2> DEFINE new == [s \in UpTo(D, k + 1) |->
                       IF s = {} THEN base ELSE g[Max(s)][it[s \ {Max(s)}]]]
  <2>2. ASSUME NEW s \in UpTo(D, k + 1), s # {}
        PROVE  s \ {Max(s)} \in UpTo(D, k) /\ g[Max(s)] \in [C -> C]
    <3>1. PICK m : m = Max(s)
      OBVIOUS
    <3>2. s \in SUBSET D /\ Cardinality(s) <= k + 1 /\ k \in Nat
      BY DEF UpTo
    <3>3. m \in s /\ m \in D
      BY <2>2, <3>1, <3>2 DEF MaxWithin
    <3>4. Cardinality(s \ {m}) = Cardinality(s) - 1
      BY <1>1, <3>2, <3>3, FS_RemoveElement
    <3>5. PICK c \in Nat : c = Cardinality(s)
      BY <1>1, <3>2
    <3>6. c - 1 <= k
      BY <3>2, <3>5
    <3>7. s \ {m} \in SUBSET D
      BY <3>2
    <3>8. s \ {m} \in UpTo(D, k)
      BY <3>4, <3>5, <3>6, <3>7 DEF UpTo
    <3> QED BY <3>1, <3>3, <3>8
  <2>3. UpTo(D, k) \subseteq UpTo(D, k + 1)
    BY <1>1 DEF UpTo
  <2>4. \A s \in UpTo(D, k) : new[s] = it[s]
    BY <2>1, <2>3 DEF FoldsUpTo
  <2>5. new \in [UpTo(D, k + 1) -> C]
    BY <2>1, <2>2 DEF FoldsUpTo
  <2>6. ASSUME NEW s \in UpTo(D, k + 1)
        PROVE  new[s] = IF s = {} THEN base ELSE g[Max(s)][new[s \ {Max(s)}]]
    <3>1. CASE s = {}
      BY <3>1
    <3>2. CASE s # {}
      <4>1. new[s \ {Max(s)}] = it[s \ {Max(s)}]
        BY <3>2, <2>2, <2>4
      <4> QED BY <3>2, <4>1
    <3> QED BY <3>1, <3>2
  <2> HIDE DEF new
  <2>7. FoldsUpTo(new, g, base, D, k + 1, C)
    BY <2>5, <2>6 DEF FoldsUpTo
  <2> QED BY <2>7
<1>5. Cardinality(D) \in T
  <2>1. T \in SUBSET Nat
    OBVIOUS
  <2> HIDE DEF T
  <2>2. T = Nat
    BY <2>1, <1>3, <1>4, Induction
  <2> QED BY <1>1, <2>2
<1>6. PICK it : FoldsUpTo(it, g, base, D, Cardinality(D), C)
  BY <1>5
<1>7. UpTo(D, Cardinality(D)) = SUBSET D
  BY FS_Subset DEF UpTo
<1>8. /\ it \in [SUBSET D -> C]
      /\ \A s \in SUBSET D :
           it[s] = IF s = {} THEN base ELSE g[Max(s)][it[s \ {Max(s)}]]
  BY <1>6, <1>7 DEF FoldsUpTo
<1>9. DOMAIN it = SUBSET D /\ it = [s \in SUBSET D |-> it[s]]
  BY <1>8
<1>10. it = [s \in SUBSET D |->
               IF s = {} THEN base ELSE g[Max(s)][it[s \ {Max(s)}]]]
  BY <1>8, <1>9
<1>11. FoldSteps(it, g, base, D)
  BY <1>10, Zenon DEF FoldSteps
<1> QED BY <1>8, <1>11

\* A fold over n positions, with the steps g: it has a solution, and what it
\* takes to see that the solution goes from position to position.
LEMMA FoldByPosition ==
  ASSUME NEW C, NEW base \in C, NEW n \in Nat, NEW g \in [1..n -> [C -> C]]
  PROVE  /\ \E it \in [SUBSET (1..n) -> C] : FoldSteps(it, g, base, 1..n)
         /\ \A k \in 1..n : /\ 1..k \in SUBSET (1..n) /\ 1..k # {}
                            /\ Max(1..k) = k /\ (1..k) \ {k} = 1..(k - 1)
         /\ \A s \in SUBSET (1..n) : s # {} => Max(s) \in 1..n
         /\ 1..0 = {} /\ {} \in SUBSET (1..n) /\ 1..n \in SUBSET (1..n)
<1>1. IsFiniteSet(1..n)
  BY FS_Interval
<1>2. \A s \in SUBSET (1..n) : s # {} => Max(s) \in s
  <2>1. SUBSET (1..n) \in SUBSET SUBSET (0..n)
    OBVIOUS
  <2> QED BY <2>1, LargestPosition
<1>3. \E it \in [SUBSET (1..n) -> C] : FoldSteps(it, g, base, 1..n)
  <2>1. PICK D : D = 1..n
    OBVIOUS
  <2>2. IsFiniteSet(D) /\ g \in [D -> [C -> C]]
    BY <1>1, <2>1
  <2>3. MaxWithin(D)
    BY <1>2, <2>1 DEF MaxWithin
  <2>4. \E it \in [SUBSET D -> C] : FoldSteps(it, g, base, D)
    BY <2>2, <2>3, FoldsExist
  <2> QED BY <2>1, <2>4
<1>4. 1..0 = {}
  OBVIOUS
<1> QED BY <1>2, <1>3, <1>4, LastOfInterval

\* The sum of a part is that of the function cut down to it.
LEMMA SumPart ==
  ASSUME NEW D, IsFiniteSet(D), NEW f \in [D -> Int], NEW S \in SUBSET D
  PROVE  Total([x \in S |-> f[x]]) = SumOver(f, D, S)
<1> DEFINE h == [x \in S |-> f[x]]
           P == {s \in SUBSET S : SumOver(h, S, s) = SumOver(f, D, s)}
<1>1. IsFiniteSet(S) /\ h \in [S -> Int] /\ \A x \in S : h[x] = f[x]
  BY FS_Subset
<1> HIDE DEF h
<1>2. ASSUME NEW s \in SUBSET S, \A t \in SUBSET s : t # s => t \in P
      PROVE  s \in P
  <2>1. CASE s = {}
    BY <1>1, <2>1, SumSteps
  <2>2. CASE s # {}
    <3>1. Member(s) \in s
      BY <2>2 DEF Member
    <3>2. s \ {Member(s)} \in P
      BY <1>2, <3>1
    <3>3. SumOver(h, S, s) = h[Member(s)] + SumOver(h, S, s \ {Member(s)})
      BY <1>1, <2>2, SumSteps
    <3>4. s \in SUBSET D
      OBVIOUS
    <3>5. SumOver(f, D, s) = f[Member(s)] + SumOver(f, D, s \ {Member(s)})
      BY <2>2, <3>4, SumSteps
    <3> QED BY <1>1, <3>1, <3>2, <3>3, <3>5
  <2> QED BY <2>1, <2>2
<1>3. P \in SUBSET (SUBSET S)
  OBVIOUS
<1>4. Total(h) = SumOver(h, S, S)
  BY <1>1, TotalIsSum
<1> HIDE DEF P
<1>5. \A s \in SUBSET S : s \in P
  BY <1>1, <1>2, <1>3, SubsetInduction
<1>6. SumOver(h, S, S) = SumOver(f, D, S)
  BY <1>5 DEF P
<1> QED BY <1>4, <1>6 DEF h

-----------------------------------------------------------------------------
(* Running totals: where each part of a row of parts ends.                 *)

Upto(f, i) == Total([j \in 1..i |-> f[j]])

LEMMA UptoSteps ==
  ASSUME NEW n \in Nat, NEW f \in [1..n -> Int]
  PROVE  /\ Upto(f, 0) = 0
         /\ \A i \in 0..n : Upto(f, i) \in Int
         /\ \A i \in 1..n : Upto(f, i) = Upto(f, i - 1) + f[i]
<1> DEFINE D == 1..n
<1>1. IsFiniteSet(D)
  BY FS_Interval
<1>2. ASSUME NEW i \in 0..n
      PROVE  Upto(f, i) = SumOver(f, D, 1..i) /\ SumOver(f, D, 1..i) \in Int
  <2>1. 1..i \in SUBSET D
    OBVIOUS
  <2> HIDE DEF D
  <2>2. f \in [D -> Int]
    BY DEF D
  <2> QED BY <1>1, <2>1, <2>2, SumPart, SumType DEF Upto
<1>3. Upto(f, 0) = 0
  <2>1. 1..0 = {} /\ 0 \in 0..n
    OBVIOUS
  <2>2. SumOver(f, D, {}) = 0
    BY <1>1, SumSteps
  <2> QED BY <1>2, <2>1, <2>2
<1>4. ASSUME NEW i \in 1..n
      PROVE  Upto(f, i) = Upto(f, i - 1) + f[i]
  <2>1. /\ 1..i \in SUBSET D /\ i \in 1..i /\ (1..i) \ {i} = 1..(i - 1)
        /\ i \in 0..n /\ i - 1 \in 0..n
    OBVIOUS
  <2>2. SumOver(f, D, 1..i) = f[i] + SumOver(f, D, (1..i) \ {i})
    BY <1>1, <2>1, SumRemove
  <2>3. PICK a, b, c \in Int : /\ a = Upto(f, i) /\ b = Upto(f, i - 1) /\ c = f[i]
    BY <1>2, <2>1
  <2>4. a = c + b
    BY <1>2, <2>1, <2>2, <2>3
  <2> QED BY <2>3, <2>4
<1> QED BY <1>2, <1>3, <1>4

\* Parts that are not empty end one behind the other.
LEMMA UptoGrows ==
  ASSUME NEW n \in Nat, NEW f \in [1..n -> Nat \ {0}]
  PROVE  /\ \A i \in 0..n : Upto(f, i) \in Nat /\ i <= Upto(f, i)
         /\ \A i, j \in 0..n : i <= j => Upto(f, i) <= Upto(f, j)
         /\ \A i \in 0..n : \A j \in 1..n : i < j => Upto(f, i) <= Upto(f, j - 1)
<1>1. /\ Upto(f, 0) = 0
      /\ \A i \in 0..n : Upto(f, i) \in Int
      /\ \A i \in 1..n : Upto(f, i) = Upto(f, i - 1) + f[i]
  <2>1. f \in [1..n -> Int]
    OBVIOUS
  <2> QED BY <2>1, UptoSteps
<1> DEFINE P == {k \in 0..n : /\ Upto(f, k) \in Nat /\ k <= Upto(f, k)
                              /\ \A i \in 0..k : Upto(f, i) <= Upto(f, k)}
<1>2. 0 \in P
  <2>1. \A i \in 0..0 : i = 0
    OBVIOUS
  <2> QED BY <1>1, <2>1
<1>3. ASSUME NEW k \in 1..n, k - 1 \in P
      PROVE  k \in P
  <2>1. PICK a, b \in Nat :
          /\ a = Upto(f, k - 1) /\ b = f[k] /\ b > 0 /\ k - 1 <= a
          /\ \A i \in 0..(k - 1) : Upto(f, i) <= a
    BY <1>3
  <2>2. Upto(f, k) = a + b
    BY <1>1, <2>1
  <2>3. ASSUME NEW i \in 0..k
        PROVE  Upto(f, i) <= a + b
    <3>1. CASE i = k
      BY <2>1, <2>2, <3>1
    <3>2. CASE i # k
      <4>1. i \in 0..(k - 1) /\ i \in 0..n
        BY <3>2
      <4>2. PICK u \in Int : u = Upto(f, i) /\ u <= a
        BY <1>1, <2>1, <4>1
      <4> QED BY <2>1, <4>2
    <3> QED BY <3>1, <3>2
  <2>4. k <= a + b /\ a + b \in Nat
    BY <2>1
  <2> QED BY <2>2, <2>3, <2>4
<1> HIDE DEF P
<1>4. \A k \in 0..n : k \in P
  BY <1>2, <1>3, PositionInduction
<1>5. /\ \A i \in 0..n : Upto(f, i) \in Nat /\ i <= Upto(f, i)
      /\ \A i, j \in 0..n : i <= j => Upto(f, i) <= Upto(f, j)
  BY <1>4 DEF P
<1>6. ASSUME NEW i \in 0..n, NEW j \in 1..n, i < j
      PROVE  Upto(f, i) <= Upto(f, j - 1)
  <2>1. j - 1 \in 0..n /\ i <= j - 1
    BY <1>6
  <2> QED BY <1>5, <2>1
<1> QED BY <1>5, <1>6

\* If some of the numbers, each greater by one than given, are not all, the
\* given ones leave more of the sum than there are of them.
LEMMA SumExcess ==
  ASSUME NEW D, IsFiniteSet(D), NEW f \in [D -> Nat],
         NEW C \in SUBSET D, NEW g \in [C -> Nat],
         \A i \in C : f[i] = g[i] + 1, NEW x \in D \ C, f[x] > 0
  PROVE  /\ Cardinality(C) \in Int
         /\ Cardinality(C) < Total(f) - Total(g)
<1>1. IsFiniteSet(C) /\ f \in [D -> Int] /\ g \in [C -> Int]
  BY FS_Subset
<1>2. Cardinality(C) \in Nat
  BY <1>1, FS_CardinalityType
<1>3. Total(f) = SumOver(f, D, D)
  BY <1>1, TotalIsSum
<1>4. Total(g) = SumOver(g, C, C)
  BY <1>1, TotalIsSum
<1>a. ASSUME NEW s \in SUBSET C, NEW y \in s
      PROVE  SumOver(g, C, s) = g[y] + SumOver(g, C, s \ {y})
  <2>1. IsFiniteSet(C) /\ g \in [C -> Int]
    BY <1>1
  <2> QED BY ONLY <2>1, s \in SUBSET C, y \in s, SumRemove
<1>b. ASSUME NEW s \in SUBSET D, NEW y \in s
      PROVE  SumOver(f, D, s) = f[y] + SumOver(f, D, s \ {y})
  <2>1. IsFiniteSet(D) /\ f \in [D -> Int]
    BY <1>1
  <2> QED BY ONLY <2>1, s \in SUBSET D, y \in s, SumRemove
<1>c. \A s \in SUBSET C : SumOver(g, C, s) \in Int
  BY <1>1, SumType
<1>d. SumOver(g, C, {}) = 0
  BY <1>1, SumSteps
<1>e. SumOver(f, D, {}) = 0
  BY <1>1, SumSteps
<1> DEFINE P == {s \in SUBSET C :
                   SumOver(f, D, s) = SumOver(g, C, s) + Cardinality(s)}
<1>5. ASSUME NEW s \in SUBSET C, \A t \in SUBSET s : t # s => t \in P
      PROVE  s \in P
  <2>1. CASE s = {}
    BY <1>d, <1>e, <2>1, FS_EmptySet
  <2>2. CASE s # {}
    <3>1. PICK y \in s : TRUE
      BY <2>2
    <3>2. s \ {y} \in P
      BY <1>5, <3>1
    <3>3. SumOver(g, C, s) = g[y] + SumOver(g, C, s \ {y})
      BY <1>a, <3>1
    <3>4. s \in SUBSET D
      OBVIOUS
    <3>5. SumOver(f, D, s) = f[y] + SumOver(f, D, s \ {y})
      BY <1>b, <3>1, <3>4
    <3>a. IsFiniteSet(s)
      BY <1>1, FS_Subset
    <3>6. Cardinality(s \ {y}) = Cardinality(s) - 1
      BY <3>1, <3>a, FS_RemoveElement
    <3>7. Cardinality(s) \in Int
      BY <3>a, FS_CardinalityType
    <3>8. SumOver(g, C, s \ {y}) \in Int
      <4>1. s \ {y} \in SUBSET C
        OBVIOUS
      <4> QED BY <1>c, <4>1
    <3>9. PICK a, b, c \in Int :
            a = SumOver(g, C, s \ {y}) /\ b = Cardinality(s) /\ c = g[y]
      BY <3>1, <3>7, <3>8
    <3>10. f[y] = c + 1 /\ SumOver(f, D, s \ {y}) = a + (b - 1)
      BY <3>1, <3>2, <3>6, <3>9
    <3>11. SumOver(f, D, s) = (c + a) + b
      BY <3>5, <3>9, <3>10
    <3> QED BY <3>3, <3>9, <3>11
  <2> QED BY <2>1, <2>2
<1>6. P \in SUBSET (SUBSET C)
  OBVIOUS
<1> HIDE DEF P
<1>7. \A s \in SUBSET C : s \in P
  BY <1>1, <1>5, <1>6, SubsetInduction
<1>8. SumOver(f, D, C) = SumOver(g, C, C) + Cardinality(C)
  BY <1>7 DEF P
<1>f. \A s \in SUBSET D : SumFunctionOnSet(f, s) = SumOver(f, D, s)
  BY <1>1, SumWithin
<1>g. \A S \in SUBSET D : SumFunctionOnSet(f, S) \in Nat
  BY SumOfParts
<1>h. ASSUME NEW S \in SUBSET D, NEW U \in SUBSET D, S \intersect U = {}
      PROVE  SumFunctionOnSet(f, S \union U)
               = SumFunctionOnSet(f, S) + SumFunctionOnSet(f, U)
  BY <1>h, SumOfParts
<1>9. SumOver(f, D, D) = SumOver(f, D, C) + SumOver(f, D, D \ C)
  <2>1. /\ C \intersect (D \ C) = {}
        /\ D \ C \in SUBSET D /\ C \in SUBSET D /\ D \in SUBSET D
    OBVIOUS
  <2>2. C \union (D \ C) = D
    OBVIOUS
  <2>3. SumFunctionOnSet(f, C \union (D \ C))
          = SumFunctionOnSet(f, C) + SumFunctionOnSet(f, D \ C)
    BY <1>h, <2>1
  <2> QED BY <1>f, <2>1, <2>2, <2>3
<1>10. SumOver(f, D, D \ C) = f[x] + SumOver(f, D, (D \ C) \ {x})
  BY <1>b
<1>11. PICK u, v, w, c \in Int :
         /\ u = SumOver(g, C, C) /\ v = Cardinality(C) /\ w = f[x] /\ w > 0
         /\ c = SumOver(f, D, (D \ C) \ {x}) /\ c >= 0
  <2>1. SumOver(g, C, C) \in Int
    BY <1>c
  <2>2. (D \ C) \ {x} \in SUBSET D
    OBVIOUS
  <2>3. SumOver(f, D, (D \ C) \ {x}) \in Nat
    BY <1>f, <1>g, <2>2
  <2> QED BY <1>2, <2>1, <2>3
<1>12. Total(f) = (u + v) + (w + c)
  BY <1>3, <1>8, <1>9, <1>10, <1>11
<1>13. Total(g) = u /\ Cardinality(C) = v
  BY <1>4, <1>11
<1>14. v < (u + v) + (w + c) - u
  BY <1>11
<1> QED BY <1>12, <1>13, <1>14

\* If as many parts as C has end among the first places, C is the first parts,
\* and each of them is of length one.
LEMMA UptoFirst ==
  ASSUME NEW n \in Nat, NEW f \in [1..n -> Nat \ {0}],
         NEW C \in SUBSET (1..n), \A i \in C : Upto(f, i) <= Cardinality(C)
  PROVE  /\ Cardinality(C) \in 0..n
         /\ \A i \in 1..n : i \in C <=> i <= Cardinality(C)
         /\ \A i \in 0..Cardinality(C) : Upto(f, i) = i
<1>1. /\ \A i \in 0..n : Upto(f, i) \in Nat /\ i <= Upto(f, i)
      /\ \A i, j \in 0..n : i <= j => Upto(f, i) <= Upto(f, j)
      /\ \A i \in 0..n : \A j \in 1..n : i < j => Upto(f, i) <= Upto(f, j - 1)
  BY UptoGrows
<1>2. /\ Upto(f, 0) = 0
      /\ \A i \in 1..n : Upto(f, i) = Upto(f, i - 1) + f[i]
  <2>1. f \in [1..n -> Int]
    OBVIOUS
  <2> QED BY <2>1, UptoSteps
<1>3. PICK c \in Nat : c = Cardinality(C) /\ IsFiniteSet(C) /\ c <= n
  <2>1. IsFiniteSet(1..n) /\ Cardinality(1..n) = n
    BY FS_Interval
  <2>2. IsFiniteSet(C) /\ Cardinality(C) <= Cardinality(1..n)
    BY <2>1, FS_Subset
  <2>3. Cardinality(C) \in Nat
    BY <2>2, FS_CardinalityType
  <2> QED BY <2>1, <2>2, <2>3
<1>4. \A i \in 1..n : f[i] \in Nat /\ f[i] > 0
  OBVIOUS
<1>5. ASSUME NEW i \in 1..n, NEW j \in 1..n, i < j
      PROVE  Upto(f, i) < Upto(f, j)
  <2>1. PICK a, b, d \in Nat : /\ a = Upto(f, i) /\ b = Upto(f, j - 1) /\ d = f[j]
                               /\ d > 0
    <3>1. i \in 0..n /\ j - 1 \in 0..n
      OBVIOUS
    <3> QED BY <1>1, <1>4, <3>1
  <2>2. a <= b /\ Upto(f, j) = b + d
    BY <1>1, <1>2, <1>5, <2>1
  <2> QED BY <2>1, <2>2
<1>6. \A k \in 1..c : \E i \in C : Upto(f, i) = k
  <2> DEFINE F == [i \in C |-> Upto(f, i)]
  <2>1. F \in [C -> 1..c]
    <3>1. ASSUME NEW i \in C PROVE Upto(f, i) \in 1..c
      <4>1. i \in 0..n /\ i \in 1..n
        OBVIOUS
      <4>2. PICK u \in Nat : u = Upto(f, i) /\ i <= u
        BY <1>1, <4>1
      <4>3. u <= c
        BY <1>3, <4>2
      <4> QED BY <4>1, <4>2, <4>3
    <3> QED BY <3>1
  <2>2. \A i, j \in C : F[i] = F[j] => i = j
    <3>1. SUFFICES ASSUME NEW i \in C, NEW j \in C, i # j
                   PROVE  Upto(f, i) # Upto(f, j)
      OBVIOUS
    <3>2. i \in 1..n /\ j \in 1..n
      OBVIOUS
    <3>3. Upto(f, i) \in Nat /\ Upto(f, j) \in Nat
      BY <1>1, <3>2
    <3>4. i < j \/ j < i
      BY <3>1, <3>2
    <3>5. Upto(f, i) < Upto(f, j) \/ Upto(f, j) < Upto(f, i)
      BY <1>5, <3>2, <3>4
    <3> QED BY <3>3, <3>5
  <2> HIDE DEF F
  <2>3. F \in Injection(C, 1..c)
    BY <2>1, <2>2 DEF Injection, IsInjective
  <2>4. IsFiniteSet(1..c) /\ Cardinality(1..c) = Cardinality(C)
    BY <1>3, FS_Interval
  <2>5. F \in Surjection(C, 1..c)
    BY <1>3, <2>3, <2>4, FS_Injection
  <2> QED BY <2>5 DEF Surjection, F
<1> DEFINE P == {k \in 0..c : Upto(f, k) = k /\ (k # 0 => k \in C)}
<1>7. 0 \in P
  BY <1>2
<1>8. ASSUME NEW k \in 1..c, k - 1 \in P
      PROVE  k \in P
  <2>1. PICK l \in C : Upto(f, l) = k /\ l \in 1..n
    BY <1>6
  <2>2. k \in 1..n /\ k - 1 \in 0..n /\ Upto(f, k - 1) = k - 1
    BY <1>3, <1>8
  <2>3. l = k
    <3>1. CASE l < k
      <4>1. l <= k - 1 /\ l \in 0..n
        BY <3>1
      <4>2. Upto(f, l) <= Upto(f, k - 1)
        BY <1>1, <2>2, <4>1
      <4> QED BY <2>1, <2>2, <4>2
    <3>2. CASE k < l
      <4>1. Upto(f, k) < k
        BY <1>5, <2>1, <2>2, <3>2
      <4>2. k <= Upto(f, k) /\ Upto(f, k) \in Nat
        BY <1>1, <2>2
      <4> QED BY <4>1, <4>2
    <3> QED BY <3>1, <3>2
  <2> QED BY <2>1, <2>3
<1>9. \A k \in 0..c : k \in P
  <2> HIDE DEF P
  <2> QED BY <1>7, <1>8, PositionInduction
<1>10. ASSUME NEW i \in 1..n
       PROVE  i \in C <=> i <= c
  <2>1. i <= c => i \in C
    BY <1>9
  <2>2. i \in C => i <= c
    <3>1. i \in 0..n
      OBVIOUS
    <3>2. PICK u \in Nat : u = Upto(f, i) /\ i <= u
      BY <1>1, <3>1
    <3> QED BY <1>3, <3>2
  <2> QED BY <2>1, <2>2
<1> QED BY <1>3, <1>9, <1>10
=============================================================================
