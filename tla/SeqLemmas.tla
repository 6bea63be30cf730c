------------------------------ MODULE SeqLemmas ------------------------------
(***************************************************************************)
(* What the list operations of the code - append at the tail, take the     *)
(* head, put back at the head - do to the set of the elements of a list    *)
(* without repetitions.                                                    *)
(***************************************************************************)
EXTENDS Integers, Sequences, Functions, ThreadList,
        SequenceTheorems, FiniteSetTheorems, TLAPS

(* The elements of a sequence are its values at 1..Len.                    *)
LEMMA InRange ==
  ASSUME NEW S, NEW s \in Seq(S)
  PROVE  /\ DOMAIN s = 1..Len(s)
         /\ Range(s) \subseteq S
         /\ \A x : x \in Range(s) <=> \E i \in 1..Len(s) : s[i] = x
  BY LenProperties, ElementOfSeq DEF Range

(* Append adds its element, and keeps a list without repetitions one when  *)
(* the element is new.                                                     *)
LEMMA AppendRange ==
  ASSUME NEW S, NEW s \in Seq(S), NEW e \in S
  PROVE  /\ Range(Append(s, e)) = Range(s) \cup {e}
         /\ IsInjective(s) /\ e \notin Range(s) => IsInjective(Append(s, e))
<1> DEFINE t == Append(s, e)
<1>1. /\ t \in Seq(S) /\ Len(t) = Len(s) + 1 /\ Len(s) \in Nat
      /\ \A i \in 1..Len(s) : t[i] = s[i]
      /\ t[Len(s) + 1] = e
  BY AppendProperties, LenProperties
<1>2. /\ DOMAIN t = 1..Len(t) /\ DOMAIN s = 1..Len(s)
      /\ \A x : x \in Range(s) <=> \E i \in 1..Len(s) : s[i] = x
      /\ \A x : x \in Range(t) <=> \E i \in 1..Len(t) : t[i] = x
  BY <1>1, InRange
<1> HIDE DEF t
<1>3. Range(t) = Range(s) \cup {e}
  <2>1. ASSUME NEW x \in Range(t) PROVE x \in Range(s) \cup {e}
    <3>1. PICK i \in 1..Len(t) : t[i] = x
      BY <2>1, <1>2
    <3>2. i \in 1..Len(s) \/ i = Len(s) + 1
      BY <1>1
    <3> QED
      BY <3>1, <3>2, <1>1, <1>2
  <2>2. ASSUME NEW x \in Range(s) PROVE x \in Range(t)
    <3>1. PICK i \in 1..Len(s) : s[i] = x
      BY <2>2, <1>2
    <3>2. i \in 1..Len(t)
      BY <1>1
    <3> QED
      BY <3>1, <3>2, <1>1, <1>2
  <2>3. e \in Range(t)
    <3>1. Len(s) + 1 \in 1..Len(t)
      BY <1>1
    <3> QED
      BY <3>1, <1>1, <1>2
  <2> QED
    BY <2>1, <2>2, <2>3
<1>4. ASSUME IsInjective(s), e \notin Range(s), NEW i \in 1..Len(t), NEW j \in 1..Len(t),
             t[i] = t[j]
      PROVE  i = j
  <2>1. (i \in 1..Len(s) \/ i = Len(s) + 1) /\ (j \in 1..Len(s) \/ j = Len(s) + 1)
    BY <1>1
  <2>2. CASE i \in 1..Len(s) /\ j \in 1..Len(s)
    BY <2>2, <1>1, <1>2, <1>4 DEF IsInjective
  <2>3. CASE i \in 1..Len(s) /\ j = Len(s) + 1
    BY <2>3, <1>1, <1>2, <1>4
  <2>4. CASE i = Len(s) + 1 /\ j \in 1..Len(s)
    BY <2>4, <1>1, <1>2, <1>4
  <2> QED
    BY <2>1, <2>2, <2>3, <2>4
<1>5. IsInjective(s) /\ e \notin Range(s) => IsInjective(t)
  BY <1>2, <1>4 DEF IsInjective
<1> QED
  BY <1>3, <1>5 DEF t

(* The head leaves a list without repetitions for good.                    *)
LEMMA TailRange ==
  ASSUME NEW S, NEW s \in Seq(S), s # << >>
  PROVE  /\ Head(s) \in Range(s)
         /\ Range(s) = Range(Tail(s)) \cup {Head(s)}
         /\ IsInjective(s) => IsInjective(Tail(s)) /\ Head(s) \notin Range(Tail(s))
<1> DEFINE t == Tail(s)
<1>1. /\ t \in Seq(S) /\ Len(t) = Len(s) - 1 /\ Len(s) \in Nat \ {0}
      /\ \A i \in 1..Len(t) : t[i] = s[i + 1]
      /\ Head(s) = s[1]
  BY HeadTailProperties, LenProperties, EmptySeq
<1> HIDE DEF t
<1>2. /\ DOMAIN t = 1..Len(t) /\ DOMAIN s = 1..Len(s)
      /\ \A x : x \in Range(s) <=> \E i \in 1..Len(s) : s[i] = x
      /\ \A x : x \in Range(t) <=> \E i \in 1..Len(t) : t[i] = x
  <2>1. /\ DOMAIN s = 1..Len(s)
        /\ \A x : x \in Range(s) <=> \E i \in 1..Len(s) : s[i] = x
    BY InRange
  <2>2. /\ DOMAIN t = 1..Len(t)
        /\ \A x : x \in Range(t) <=> \E i \in 1..Len(t) : t[i] = x
    BY <1>1, InRange
  <2> QED
    BY <2>1, <2>2
<1>3. Head(s) \in Range(s)
  BY <1>1, <1>2
<1>4. Range(t) \subseteq Range(s)
  <2>1. ASSUME NEW x \in Range(t) PROVE x \in Range(s)
    <3>1. PICK i \in 1..Len(t) : t[i] = x
      BY <2>1, <1>2
    <3>2. i + 1 \in 1..Len(s) /\ s[i + 1] = x
      BY <3>1, <1>1
    <3> QED
      BY <3>2, <1>2
  <2> QED
    BY <2>1
<1>5. ASSUME NEW x \in Range(s), x # Head(s) PROVE x \in Range(t)
  <2>1. PICK i \in 1..Len(s) : s[i] = x
    BY <1>5, <1>2
  <2>2. i # 1
    BY <2>1, <1>1, <1>5
  <2>3. i - 1 \in 1..Len(t) /\ t[i - 1] = s[(i - 1) + 1] /\ (i - 1) + 1 = i
    BY <2>2, <1>1
  <2> QED
    BY <2>1, <2>3, <1>2
<1>6. ASSUME IsInjective(s) PROVE IsInjective(t) /\ Head(s) \notin Range(t)
  <2>1. ASSUME NEW i \in 1..Len(t), NEW j \in 1..Len(t), t[i] = t[j] PROVE i = j
    <3>1. i + 1 \in 1..Len(s) /\ j + 1 \in 1..Len(s) /\ s[i + 1] = s[j + 1]
      BY <2>1, <1>1
    <3>2. i + 1 = j + 1
      BY <3>1, <1>2, <1>6 DEF IsInjective
    <3> QED
      BY <3>2
  <2>2. ASSUME Head(s) \in Range(t) PROVE FALSE
    <3>1. PICK i \in 1..Len(t) : t[i] = Head(s)
      BY <2>2, <1>2
    <3>2. i + 1 \in 1..Len(s) /\ s[i + 1] = s[1] /\ 1 \in 1..Len(s) /\ i + 1 # 1
      BY <3>1, <1>1
    <3> QED
      BY <3>2, <1>2, <1>6 DEF IsInjective
  <2> QED
    BY <2>1, <2>2, <1>2 DEF IsInjective
<1> QED
  BY <1>3, <1>4, <1>5, <1>6 DEF t

(* So does an element put at the head.                                     *)
LEMMA PrependRange ==
  ASSUME NEW S, NEW s \in Seq(S), NEW e \in S
  PROVE  /\ << e >> \o s \in Seq(S) /\ Len(<< e >> \o s) = Len(s) + 1
         /\ (<< e >> \o s)[1] = e
         /\ \A i \in 1..Len(s) : (<< e >> \o s)[i + 1] = s[i]
         /\ Range(<< e >> \o s) = Range(s) \cup {e}
         /\ IsInjective(s) /\ e \notin Range(s) => IsInjective(<< e >> \o s)
<1> DEFINE t == << e >> \o s
<1>1. << e >> \in Seq(S) /\ Len(<< e >>) = 1 /\ << e >>[1] = e /\ Len(s) \in Nat
  BY LenProperties
<1>2. /\ t \in Seq(S) /\ Len(t) = Len(s) + 1
      /\ \A i \in 1..Len(s) + 1 : t[i] = IF i <= 1 THEN e ELSE s[i - 1]
  <2>1. /\ t \in Seq(S) /\ Len(t) = 1 + Len(s)
        /\ \A i \in 1..1 + Len(s) : t[i] = IF i <= 1 THEN << e >>[i] ELSE s[i - 1]
    BY <1>1, ConcatProperties
  <2>2. \A i \in 1..1 + Len(s) : i <= 1 => << e >>[i] = e
    BY <1>1
  <2>3. 1 + Len(s) = Len(s) + 1
    BY <1>1
  <2> HIDE DEF t
  <2> QED
    BY <2>1, <2>2, <2>3
<1> HIDE DEF t
<1>3. t[1] = e /\ \A i \in 1..Len(s) : t[i + 1] = s[i]
  BY <1>1, <1>2
<1>4. /\ DOMAIN t = 1..Len(t) /\ DOMAIN s = 1..Len(s)
      /\ \A x : x \in Range(s) <=> \E i \in 1..Len(s) : s[i] = x
      /\ \A x : x \in Range(t) <=> \E i \in 1..Len(t) : t[i] = x
  BY <1>2, InRange
<1>5. \A i \in 1..Len(t) : i = 1 \/ (i - 1 \in 1..Len(s) /\ t[i] = s[i - 1])
  BY <1>1, <1>2
<1>6. Range(t) = Range(s) \cup {e}
  <2>1. Range(t) \subseteq Range(s) \cup {e}
    BY <1>3, <1>4, <1>5
  <2>2. \A i \in 1..Len(s) : i + 1 \in 1..Len(t)
    BY <1>1, <1>2
  <2>3. Range(s) \subseteq Range(t)
    BY <2>2, <1>3, <1>4
  <2>4. e \in Range(t)
    <3>1. 1 \in 1..Len(t)
      BY <1>1, <1>2
    <3> QED
      BY <3>1, <1>3, <1>4
  <2> QED
    BY <2>1, <2>3, <2>4
<1>7. ASSUME IsInjective(s), e \notin Range(s), NEW i \in 1..Len(t), NEW j \in 1..Len(t),
             t[i] = t[j]
      PROVE  i = j
  <2>1. CASE i = 1
    BY <2>1, <1>3, <1>4, <1>5, <1>7
  <2>2. CASE j = 1
    BY <2>2, <1>3, <1>4, <1>5, <1>7
  <2>3. CASE i # 1 /\ j # 1
    <3>1. i - 1 \in 1..Len(s) /\ j - 1 \in 1..Len(s) /\ s[i - 1] = s[j - 1]
      BY <2>3, <1>5, <1>7
    <3>2. i - 1 = j - 1
      BY <3>1, <1>4, <1>7 DEF IsInjective
    <3> QED
      BY <3>2
  <2> QED
    BY <2>1, <2>2, <2>3
<1>8. IsInjective(s) /\ e \notin Range(s) => IsInjective(t)
  BY <1>4, <1>7 DEF IsInjective
<1> QED
  BY <1>2, <1>3, <1>6, <1>8 DEF t

-----------------------------------------------------------------------------
(* How many members of a finite set of numbers are not above one of them   *)
(* grows with it,                                                          *)
LEMMA RankOf ==
  ASSUME NEW S, IsFiniteSet(S), S \subseteq Int
  PROVE  /\ Cardinality(S) \in Nat
         /\ \A i \in S : Cardinality(UpTo(S, i)) \in 1..Cardinality(S)
         /\ \A i, k \in S : i < k => Cardinality(UpTo(S, i)) < Cardinality(UpTo(S, k))
<1>1. Cardinality(S) \in Nat
  BY FS_CardinalityType
<1>2. ASSUME NEW i \in S
      PROVE  IsFiniteSet(UpTo(S, i)) /\ Cardinality(UpTo(S, i)) \in 1..Cardinality(S)
  <2>1. UpTo(S, i) \in SUBSET S /\ i \in UpTo(S, i)
    BY <1>2 DEF UpTo
  <2>2. IsFiniteSet(UpTo(S, i)) /\ Cardinality(UpTo(S, i)) <= Cardinality(S)
    BY <2>1, FS_Subset
  <2>3. Cardinality(UpTo(S, i)) \in Nat /\ Cardinality(UpTo(S, i)) # 0
    BY <2>1, <2>2, FS_CardinalityType, FS_EmptySet
  <2> QED
    BY <2>2, <2>3, <1>1
<1>3. ASSUME NEW i \in S, NEW k \in S, i < k
      PROVE  Cardinality(UpTo(S, i)) < Cardinality(UpTo(S, k))
  <2>1. i \in Int /\ k \in Int
    OBVIOUS
  <2>2. k \in UpTo(S, k) /\ k \notin UpTo(S, i)
    BY <2>1, <1>3 DEF UpTo
  <2>3. ASSUME NEW j \in UpTo(S, i) PROVE j \in UpTo(S, k)
    BY <2>1, <1>3 DEF UpTo
  <2>4. UpTo(S, i) \in SUBSET UpTo(S, k)
    BY <2>3
  <2>5. /\ Cardinality(UpTo(S, i)) <= Cardinality(UpTo(S, k))
        /\ Cardinality(UpTo(S, i)) # Cardinality(UpTo(S, k))
    BY <2>2, <2>4, <1>2, FS_Subset
  <2>6. Cardinality(UpTo(S, i)) \in Nat /\ Cardinality(UpTo(S, k)) \in Nat
    BY <1>1, <1>2
  <2> QED
    BY <2>5, <2>6
<1> QED
  BY <1>1, <1>2, <1>3

(* so that it numbers them: there is an n-th one for every n, and they     *)
(* come in their order.                                                    *)
LEMMA NthMember ==
  ASSUME NEW S, IsFiniteSet(S), S \subseteq Int
  PROVE  /\ \A n \in 1..Cardinality(S) : Nth(S, n) \in S
         /\ \A i \in S : \E n \in 1..Cardinality(S) : Nth(S, n) = i
         /\ \A m, n \in 1..Cardinality(S) : m < n => Nth(S, m) < Nth(S, n)
<1> DEFINE N == Cardinality(S)
           rank == [i \in S |-> Cardinality(UpTo(S, i))]
<1>1. /\ N \in Nat
      /\ rank \in [S -> 1..N]
      /\ \A i, k \in S : i < k => rank[i] < rank[k]
  BY RankOf
<1>2. ASSUME NEW n PROVE Nth(S, n) = CHOOSE i \in S : rank[i] = n
  BY DEF Nth
<1> HIDE DEF rank
<1>3. ASSUME NEW i \in S, NEW k \in S, rank[i] = rank[k] PROVE i = k
  <2>1. i < k \/ k < i \/ i = k
    OBVIOUS
  <2>2. rank[i] \in Int
    BY <1>1
  <2>3. ~(rank[i] < rank[k]) /\ ~(rank[k] < rank[i])
    BY <2>2, <1>3
  <2> QED
    BY <2>1, <2>3, <1>1
<1>4. \A n \in 1..N : \E i \in S : rank[i] = n
  <2>1. rank \in Injection(S, 1..N)
    BY <1>1, <1>3 DEF Injection, IsInjective
  <2>2. IsFiniteSet(1..N) /\ Cardinality(1..N) = N
    BY <1>1, FS_Interval
  <2>3. rank \in Surjection(S, 1..N)
    BY <2>1, <2>2, FS_Injection
  <2> QED
    BY <2>3 DEF Surjection
<1>5. ASSUME NEW n \in 1..N PROVE Nth(S, n) \in S /\ rank[Nth(S, n)] = n
  BY <1>2, <1>4
<1> HIDE DEF N
<1>6. ASSUME NEW i \in S PROVE \E n \in 1..N : Nth(S, n) = i
  <2>1. rank[i] \in 1..N
    BY <1>1
  <2>2. Nth(S, rank[i]) = i
    BY <2>1, <1>3, <1>5
  <2> QED
    BY <2>1, <2>2
<1>7. ASSUME NEW m \in 1..N, NEW n \in 1..N, m < n PROVE Nth(S, m) < Nth(S, n)
  <2>1. Nth(S, m) \in S /\ Nth(S, n) \in S /\ rank[Nth(S, m)] = m /\ rank[Nth(S, n)] = n
    BY <1>5
  <2>2. Nth(S, m) \in Int /\ Nth(S, n) \in Int
    BY <2>1
  <2>3. m \in Int /\ n \in Int /\ ~(n < m) /\ m # n
    BY <1>1, <1>7
  <2>4. ~(Nth(S, n) < Nth(S, m)) /\ Nth(S, m) # Nth(S, n)
    BY <2>1, <2>3, <1>1
  <2> QED
    BY <2>2, <2>4
<1> QED
  BY <1>5, <1>6, <1>7 DEF N

(* A thread taken off a list is gone, the others keep their order.         *)
LEMMA WithoutList ==
  ASSUME NEW S, NEW s \in Seq(S), NEW T
  PROVE  /\ Without(s, T) \in Seq(S)
         /\ Range(Without(s, T)) = Range(s) \ T
         /\ IsInjective(s) => IsInjective(Without(s, T))
         /\ \A m, n \in 1..Len(Without(s, T)) : m < n =>
              \E i, j \in 1..Len(s) : /\ i < j /\ Without(s, T)[m] = s[i]
                                      /\ Without(s, T)[n] = s[j]
<1> DEFINE kept == {i \in 1..Len(s) : s[i] \notin T}
           N == Cardinality(kept)
           w == [n \in 1..N |-> s[Nth(kept, n)]]
<1>1. Without(s, T) = w
  BY DEF Without
<1>2. Len(s) \in Nat /\ DOMAIN s = 1..Len(s) /\ \A i \in 1..Len(s) : s[i] \in S
  BY LenProperties, ElementOfSeq
<1>3. kept \in SUBSET (1..Len(s)) /\ kept \subseteq Int
  BY <1>2
<1>4. \A i \in 1..Len(s) : i \in kept <=> s[i] \notin T
  OBVIOUS
<1> HIDE DEF kept
<1>5. IsFiniteSet(kept) /\ N \in Nat
  <2>1. IsFiniteSet(1..Len(s))
    BY <1>2, FS_Interval
  <2> QED
    BY <2>1, <1>3, FS_Subset, FS_CardinalityType
<1>6. /\ \A n \in 1..N : Nth(kept, n) \in kept
      /\ \A i \in kept : \E n \in 1..N : Nth(kept, n) = i
      /\ \A m, n \in 1..N : m < n => Nth(kept, m) < Nth(kept, n)
  BY <1>3, <1>5, NthMember
<1> HIDE DEF N
<1>7. \A n \in 1..N : /\ Nth(kept, n) \in 1..Len(s) /\ s[Nth(kept, n)] \notin T
                      /\ w[n] = s[Nth(kept, n)]
  BY <1>3, <1>4, <1>6
<1>8. w \in Seq(S) /\ Len(w) = N /\ DOMAIN w = 1..N
  <2>1. w \in [1..N -> S]
    BY <1>2, <1>7
  <2> QED
    BY <2>1, <1>5, SeqDef, LenProperties
<1> HIDE DEF w
<1>9. /\ \A x : x \in Range(s) <=> \E i \in 1..Len(s) : s[i] = x
      /\ \A x : x \in Range(w) <=> \E i \in 1..N : w[i] = x
  <2>1. \A x : x \in Range(s) <=> \E i \in 1..Len(s) : s[i] = x
    BY InRange
  <2>2. \A x : x \in Range(w) <=> \E i \in 1..N : w[i] = x
    BY <1>8, InRange
  <2> QED
    BY <2>1, <2>2
<1>10. Range(w) = Range(s) \ T
  <2>1. ASSUME NEW x \in Range(w) PROVE x \in Range(s) /\ x \notin T
    BY <2>1, <1>7, <1>9
  <2>2. ASSUME NEW x \in Range(s), x \notin T PROVE x \in Range(w)
    BY <2>2, <1>4, <1>6, <1>7, <1>9
  <2> QED
    BY <2>1, <2>2
<1>11. ASSUME NEW m \in 1..N, NEW n \in 1..N, m < n
       PROVE  \E i, j \in 1..Len(s) : i < j /\ w[m] = s[i] /\ w[n] = s[j]
  BY <1>6, <1>7, <1>11
<1>12. ASSUME IsInjective(s), NEW m \in 1..N, NEW n \in 1..N, w[m] = w[n] PROVE m = n
  <2>1. Nth(kept, m) = Nth(kept, n)
    BY <1>2, <1>7, <1>12 DEF IsInjective
  <2>2. m < n \/ n < m \/ m = n
    BY <1>5
  <2>3. Nth(kept, m) \in Int
    BY <1>2, <1>7
  <2> QED
    BY <2>1, <2>2, <2>3, <1>6
<1>13. IsInjective(s) => IsInjective(w)
  BY <1>8, <1>12 DEF IsInjective
<1> QED
  BY <1>1, <1>8, <1>10, <1>11, <1>13
=============================================================================
