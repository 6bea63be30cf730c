----------------------------- MODULE Mutex_proofs -----------------------------
(***************************************************************************)
(* Proofs about the mutexes, for every set of threads, of mutexes and of   *)
(* ceilings, and every priority of the threads.                            *)
(*                                                                         *)
(* All rests on the loop of _thread_update_priority.  Each of its rounds   *)
(* keeps LoopInv: all lists are in order but the one of the thread whose   *)
(* priority has just changed.  It ends within two rounds per thread        *)
(* (RunStops), also where the owners wait for one another in a circle, and *)
(* what it leaves is Settled, which makes the invariant IInv inductive.    *)
(***************************************************************************)
EXTENDS Mutex, SeqLemmas, WellFoundedInduction

-----------------------------------------------------------------------------
(* Numbers.                                                                *)

(* Every nonempty set of natural numbers has a least member.               *)
LEMMA LeastOf ==
  ASSUME NEW S, S \subseteq Nat, S # {}
  PROVE  Min(S) \in S /\ \A y \in S : Min(S) <= y
<1> DEFINE R == {ss \in Nat \X Nat : ss[1] < ss[2]}
<1>1. IsWellFoundedOn(R, Nat)
  BY NatLessThanWellFounded DEF OpToRel
<1>2. PICK x \in S : \A y \in S : ~ (<<y, x>> \in R)
  <2> HIDE DEF R
  <2> QED
    BY <1>1, WFMin
<1>3. ASSUME NEW y \in S PROVE x <= y
  <2>1. <<y, x>> \in Nat \X Nat /\ <<y, x>>[1] = y /\ <<y, x>>[2] = x
    OBVIOUS
  <2> QED
    BY <1>2, <2>1
<1>4. \E m \in S : \A y \in S : m <= y
  BY <1>3
<1> QED
  BY <1>4 DEF Min

(* Induction from lo to hi, for the numbers of a set.                      *)
LEMMA Climb ==
  ASSUME NEW lo \in Nat, NEW hi \in Nat, NEW S, lo \in S,
         \A k \in lo..hi : k \in S /\ k + 1 \in lo..hi => k + 1 \in S
  PROVE  lo..hi \subseteq S
<1> DEFINE B == (lo..hi) \ S
<1>1. ASSUME B # {} PROVE FALSE
  <2>1. Min(B) \in B /\ \A y \in B : Min(B) <= y
    BY <1>1, LeastOf
  <2> DEFINE k == Min(B)
  <2>2. k - 1 \in lo..hi /\ k - 1 < k /\ (k - 1) + 1 = k
    BY <2>1
  <2>3. k - 1 \in S
    BY <2>1, <2>2
  <2> QED
    BY <2>1, <2>2, <2>3
<1> QED
  BY <1>1

-----------------------------------------------------------------------------
(* Lists of waiters.                                                       *)

Prios == 0..31
MPrios == Prios \cup {NoPrio}

LEMMA PriosAreNumbers ==
  ASSUME NEW pr \in [Threads -> Prios]
  PROVE  \A u \in Threads : pr[u] \in Nat /\ pr[u] \in Prios /\ pr[u] < NoPrio
<1>1. \A p \in Prios : p \in Nat /\ p < NoPrio
  BY DEF Prios, NoPrio
<1>2. \A u \in Threads : pr[u] \in Prios
  OBVIOUS
<1> QED
  BY <1>1, <1>2

(* The threads of a list come in the order of their priorities.            *)
SortedBy(list, pr) == \A i, j \in 1..Len(list) : i < j => pr[list[i]] <= pr[list[j]]

(* An element put in at place k moves the later ones up.                   *)
LEMMA InsertAtPlaces ==
  ASSUME NEW S, NEW s \in Seq(S), NEW e \in S, NEW k \in 1..(Len(s) + 1)
  PROVE  LET q == InsertAt(s, k, e) IN
         /\ q \in Seq(S) /\ Len(q) = Len(s) + 1
         /\ \A i \in 1..Len(q) : q[i] = IF i < k THEN s[i] ELSE IF i = k THEN e ELSE s[i - 1]
<1> DEFINE a == SubSeq(s, 1, k - 1)
           b == SubSeq(s, k, Len(s))
           ae == a \o << e >>
           q == ae \o b
<1>1. Len(s) \in Nat /\ k \in Int /\ \A i \in 1..Len(s) : s[i] \in S
  BY LenProperties, ElementOfSeq
<1>2. a \in Seq(S) /\ Len(a) = k - 1 /\ \A i \in 1..(k - 1) : a[i] = s[i]
  <2>1. \A i \in 1..(k - 1) : s[i] \in S
    BY <1>1
  <2>2. /\ a \in Seq(S) /\ Len(a) = IF 1 <= k - 1 THEN (k - 1) - 1 + 1 ELSE 0
        /\ \A i \in 1..((k - 1) - 1 + 1) : a[i] = s[1 + i - 1]
    BY <1>1, <2>1, SubSeqProperties
  <2> HIDE DEF a
  <2>3. \A i \in 1..(k - 1) : i \in 1..((k - 1) - 1 + 1) /\ 1 + i - 1 = i
    BY <1>1
  <2>4. \A i \in 1..(k - 1) : a[i] = s[i]
    BY <2>2, <2>3
  <2> QED
    BY <1>1, <2>2, <2>4
<1>3. b \in Seq(S) /\ Len(b) = Len(s) - k + 1 /\ \A i \in 1..(Len(s) - k + 1) : b[i] = s[k + i - 1]
  <2>1. \A i \in k..Len(s) : s[i] \in S
    BY <1>1
  <2>2. /\ b \in Seq(S) /\ Len(b) = IF k <= Len(s) THEN Len(s) - k + 1 ELSE 0
        /\ \A i \in 1..(Len(s) - k + 1) : b[i] = s[k + i - 1]
    BY <1>1, <2>1, SubSeqProperties
  <2> HIDE DEF b
  <2> QED
    BY <1>1, <2>2
<1>4. << e >> \in Seq(S) /\ Len(<< e >>) = 1 /\ << e >>[1] = e
  OBVIOUS
<1> HIDE DEF a, b
<1>5. /\ ae \in Seq(S) /\ Len(ae) = k
      /\ \A i \in 1..k : ae[i] = IF i < k THEN s[i] ELSE e
  <2> DEFINE x == << e >>
  <2>1. /\ ae \in Seq(S) /\ Len(ae) = Len(a) + Len(x)
        /\ \A i \in 1..(Len(a) + Len(x)) : ae[i] = IF i <= Len(a) THEN a[i] ELSE x[i - Len(a)]
    BY <1>2, <1>4, ConcatProperties
  <2>2. Len(x) = 1 /\ x[1] = e
    BY <1>4
  <2> HIDE DEF ae, x
  <2>3. ASSUME NEW i \in 1..k PROVE ae[i] = IF i < k THEN s[i] ELSE e
    <3>1. ae[i] = IF i <= Len(a) THEN a[i] ELSE x[i - Len(a)]
      BY <1>1, <1>2, <2>1, <2>2
    <3>2. CASE i < k
      BY <1>1, <1>2, <3>1, <3>2
    <3>3. CASE i = k
      <4>1. i - Len(a) = 1 /\ ~(i <= Len(a))
        BY <1>1, <1>2, <3>3
      <4> QED
        BY <2>2, <3>1, <3>3, <4>1
    <3> QED
      BY <3>2, <3>3, <1>1
  <2> QED
    BY <1>1, <1>2, <2>1, <2>2, <2>3
<1> HIDE DEF ae
<1>6. /\ q \in Seq(S) /\ Len(q) = Len(ae) + Len(b)
      /\ \A i \in 1..(Len(ae) + Len(b)) : q[i] = IF i <= Len(ae) THEN ae[i] ELSE b[i - Len(ae)]
  BY <1>3, <1>5, ConcatProperties
<1>7. InsertAt(s, k, e) = q
  BY DEF InsertAt, q, ae, a, b
<1> HIDE DEF q
<1>8. Len(q) = Len(s) + 1
  BY <1>1, <1>3, <1>5, <1>6
<1>9. ASSUME NEW i \in 1..Len(q)
      PROVE  q[i] = IF i < k THEN s[i] ELSE IF i = k THEN e ELSE s[i - 1]
  <2>1. q[i] = IF i <= k THEN ae[i] ELSE b[i - k]
    BY <1>5, <1>6
  <2>2. CASE i <= k
    BY <1>1, <1>5, <2>1, <2>2
  <2>3. CASE i > k
    <3>1. i - k \in 1..(Len(s) - k + 1) /\ k + (i - k) - 1 = i - 1
      BY <1>1, <1>8, <2>3
    <3> QED
      BY <1>1, <1>3, <2>1, <2>3, <3>1
  <2> QED
    BY <1>1, <2>2, <2>3
<1> QED
  BY <1>6, <1>7, <1>8, <1>9

(* rt_susp_list_enqueue adds the thread, and keeps a sorted list sorted.   *)
LEMMA EnqueueSorts ==
  ASSUME NEW list \in Seq(Threads), NEW t \in Threads, NEW pr \in [Threads -> Prios]
  PROVE  LET q == Enqueue(list, t, pr) IN
         /\ q \in Seq(Threads) /\ q # << >> /\ Range(q) = Range(list) \cup {t}
         /\ IsInjective(list) /\ t \notin Range(list) => IsInjective(q)
         /\ SortedBy(list, pr) => SortedBy(q, pr)
<1> DEFINE lower == {i \in 1..Len(list) : pr[t] < pr[list[i]]}
           k == Min(lower \cup {Len(list) + 1})
           q == InsertAt(list, k, t)
<1>1. Len(list) \in Nat /\ \A i \in 1..Len(list) : list[i] \in Threads
  BY LenProperties, ElementOfSeq
<1>0. \A u \in Threads : pr[u] \in Int
  BY PriosAreNumbers
<1>2. /\ k \in 1..(Len(list) + 1)
      /\ \A i \in 1..Len(list) : i < k => pr[list[i]] <= pr[t]
      /\ k \in 1..Len(list) => pr[t] < pr[list[k]]
  <2>1. lower \cup {Len(list) + 1} \subseteq Nat /\ lower \cup {Len(list) + 1} # {}
    BY <1>1
  <2>2. k \in lower \cup {Len(list) + 1} /\ \A i \in lower \cup {Len(list) + 1} : k <= i
    BY <2>1, LeastOf
  <2> HIDE DEF k
  <2>3. \A i \in 1..Len(list) : pr[list[i]] \in Int /\ pr[t] \in Int
    BY <1>0, <1>1
  <2> QED
    BY <1>1, <2>2, <2>3
<1> HIDE DEF k
<1>3. /\ q \in Seq(Threads) /\ Len(q) = Len(list) + 1
      /\ \A i \in 1..Len(q) : q[i] = IF i < k THEN list[i] ELSE IF i = k THEN t ELSE list[i - 1]
  BY <1>2, InsertAtPlaces
<1>4. Enqueue(list, t, pr) = q
  BY DEF Enqueue, k
<1> HIDE DEF q
<1>5. q # << >>
  BY <1>1, <1>3, EmptySeq
<1>6. /\ DOMAIN q = 1..Len(q) /\ DOMAIN list = 1..Len(list)
      /\ \A x : x \in Range(list) <=> \E i \in 1..Len(list) : list[i] = x
      /\ \A x : x \in Range(q) <=> \E i \in 1..Len(q) : q[i] = x
  <2>1. DOMAIN list = 1..Len(list) /\ \A x : x \in Range(list) <=> \E i \in 1..Len(list) : list[i] = x
    BY InRange
  <2>2. DOMAIN q = 1..Len(q) /\ \A x : x \in Range(q) <=> \E i \in 1..Len(q) : q[i] = x
    BY <1>3, InRange
  <2> QED
    BY <2>1, <2>2
(* Where each place of the new list comes from.                            *)
<1> DEFINE from(i) == IF i < k THEN i ELSE i - 1
<1>7. \A i \in 1..Len(q) : i = k \/ (from(i) \in 1..Len(list) /\ q[i] = list[from(i)])
  BY <1>1, <1>2, <1>3
<1>8. Range(q) = Range(list) \cup {t}
  <2>1. ASSUME NEW x \in Range(q) PROVE x \in Range(list) \cup {t}
    <3>1. PICK i \in 1..Len(q) : q[i] = x
      BY <2>1, <1>6
    <3> HIDE DEF from
    <3> QED
      BY <3>1, <1>2, <1>3, <1>6, <1>7
  <2>2. ASSUME NEW x \in Range(list) PROVE x \in Range(q)
    <3>1. PICK i \in 1..Len(list) : list[i] = x
      BY <2>2, <1>6
    <3>2. CASE i < k
      BY <1>1, <1>2, <1>3, <1>6, <3>1, <3>2
    <3>3. CASE i >= k
      <4>1. i + 1 \in 1..Len(q) /\ ~(i + 1 < k) /\ i + 1 # k /\ (i + 1) - 1 = i
        BY <1>1, <1>2, <1>3, <3>3
      <4>2. q[i + 1] = list[i]
        BY <1>3, <4>1
      <4> QED
        BY <1>6, <3>1, <4>1, <4>2
    <3> QED
      BY <1>1, <1>2, <3>2, <3>3
  <2>3. t \in Range(q)
    <3>1. k \in 1..Len(q) /\ q[k] = t
      BY <1>1, <1>2, <1>3
    <3> QED
      BY <1>6, <3>1
  <2> QED
    BY <2>1, <2>2, <2>3
<1>9. ASSUME IsInjective(list), t \notin Range(list) PROVE IsInjective(q)
  <2>1. ASSUME NEW i \in 1..Len(q), NEW j \in 1..Len(q), q[i] = q[j] PROVE i = j
    <3>1. ASSUME NEW n \in 1..Len(q), n # k PROVE q[n] # t
      <4>1. from(n) \in 1..Len(list) /\ q[n] = list[from(n)]
        BY <3>1, <1>7
      <4> HIDE DEF from
      <4> QED
        BY <4>1, <1>6, <1>9
    <3>2. q[k] = t
      BY <1>1, <1>2, <1>3
    <3>3. CASE i = k \/ j = k
      BY <2>1, <3>1, <3>2, <3>3
    <3>4. CASE i # k /\ j # k
      <4>1. from(i) \in 1..Len(list) /\ from(j) \in 1..Len(list) /\ list[from(i)] = list[from(j)]
        BY <2>1, <1>7, <3>4
      <4>2. from(i) = from(j)
        <5> HIDE DEF from
        <5> QED
          BY <4>1, <1>6, <1>9 DEF IsInjective
      <4> QED
        BY <1>1, <1>2, <1>3, <3>4, <4>2
    <3> QED
      BY <3>3, <3>4
  <2> QED
    BY <2>1, <1>6 DEF IsInjective
<1>10. ASSUME SortedBy(list, pr) PROVE SortedBy(q, pr)
  <2>1. ASSUME NEW i \in 1..Len(q), NEW j \in 1..Len(q), i < j PROVE pr[q[i]] <= pr[q[j]]
    <3>1. CASE i = k
      <4>1. j > k /\ q[i] = t /\ q[j] = list[j - 1] /\ j - 1 \in 1..Len(list) /\ k <= j - 1
        BY <1>1, <1>2, <1>3, <2>1, <3>1
      <4>2. k \in 1..Len(list) /\ pr[t] < pr[list[k]]
        BY <1>1, <1>2, <4>1
      <4>3. pr[list[k]] <= pr[list[j - 1]]
        <5>1. CASE k = j - 1
          <6>1. pr[list[k]] \in Int
            BY <1>0, <1>1, <4>2
          <6> QED
            BY <5>1, <6>1
        <5>2. CASE k < j - 1
          BY <1>10, <4>1, <4>2, <5>2 DEF SortedBy
        <5> QED
          BY <1>2, <4>1, <5>1, <5>2
      <4>4. pr[t] \in Int /\ pr[list[k]] \in Int /\ pr[list[j - 1]] \in Int
        BY <1>0, <1>1, <4>1, <4>2
      <4> QED
        BY <4>1, <4>2, <4>3, <4>4
    <3>2. CASE j = k
      <4>1. i < k /\ q[i] = list[i] /\ q[j] = t /\ i \in 1..Len(list)
        BY <1>1, <1>2, <1>3, <2>1, <3>2
      <4> QED
        BY <1>2, <4>1
    <3>3. CASE i # k /\ j # k
      <4>1. /\ from(i) \in 1..Len(list) /\ q[i] = list[from(i)]
            /\ from(j) \in 1..Len(list) /\ q[j] = list[from(j)]
        BY <1>7, <3>3
      <4>2. from(i) < from(j)
        BY <1>1, <1>2, <1>3, <2>1, <3>3
      <4> HIDE DEF from
      <4> QED
        BY <1>10, <4>1, <4>2 DEF SortedBy
    <3> QED
      BY <3>1, <3>2, <3>3
  <2> QED
    BY <2>1 DEF SortedBy
<1> QED
  BY <1>3, <1>4, <1>5, <1>8, <1>9, <1>10

(* The head of a sorted list has the highest priority on it.               *)
LEMMA SortedHead ==
  ASSUME NEW list \in Seq(Threads), NEW pr \in [Threads -> Prios]
  PROVE  /\ HeadPrio(list, pr) \in MPrios
         /\ list # << >> => /\ Head(list) \in Range(list) /\ Range(list) \subseteq Threads
                            /\ HeadPrio(list, pr) = pr[Head(list)]
         /\ SortedBy(list, pr) => \A u \in Range(list) : HeadPrio(list, pr) <= pr[u]
<1>0. \A u \in Threads : pr[u] \in Int
  BY PriosAreNumbers
<1>1. CASE list = << >>
  <2>1. Range(list) = {}
    <3>1. 1..Len(list) = {}
      BY <1>1, LenProperties, EmptySeq
    <3> QED
      BY <3>1, InRange
  <2> QED
    BY <1>1, <2>1 DEF HeadPrio, MPrios
<1>2. CASE list # << >>
  <2>1. Head(list) \in Range(list) /\ Range(list) \subseteq Threads /\ HeadPrio(list, pr) = pr[Head(list)]
    BY <1>2, TailRange, InRange DEF HeadPrio
  <2>2. Len(list) \in Nat \ {0} /\ Head(list) = list[1]
    BY <1>2, LenProperties, EmptySeq, HeadTailProperties
  <2>3. ASSUME SortedBy(list, pr), NEW u \in Range(list) PROVE pr[Head(list)] <= pr[u]
    <3>1. PICK i \in 1..Len(list) : list[i] = u
      BY <2>3, InRange
    <3>2. CASE i = 1
      <4>1. pr[u] \in Int
        BY <1>0, <2>1, <2>3
      <4> QED
        BY <3>1, <3>2, <2>2, <4>1
    <3>3. CASE i # 1
      BY <3>1, <3>3, <2>2, <2>3 DEF SortedBy
    <3> QED
      BY <3>2, <3>3
  <2> QED
    BY <2>1, <2>3 DEF MPrios
<1> QED
  BY <1>1, <1>2

(* Threads taken off a sorted list leave it sorted.                        *)
LEMMA WithoutSorted ==
  ASSUME NEW list \in Seq(Threads), NEW T, NEW pr, SortedBy(list, pr)
  PROVE  SortedBy(Without(list, T), pr)
<1>1. \A m, n \in 1..Len(Without(list, T)) : m < n =>
        \E i, j \in 1..Len(list) : /\ i < j /\ Without(list, T)[m] = list[i]
                                   /\ Without(list, T)[n] = list[j]
  BY WithoutList
<1> QED
  BY <1>1 DEF SortedBy

(* Only the priorities of the threads of the list matter.                  *)
LEMMA SortedSame ==
  ASSUME NEW list \in Seq(Threads), NEW pr, NEW pr2,
         \A u \in Range(list) : pr2[u] = pr[u]
  PROVE  /\ SortedBy(list, pr) <=> SortedBy(list, pr2)
         /\ HeadPrio(list, pr) = HeadPrio(list, pr2)
<1>1. \A i \in 1..Len(list) : pr2[list[i]] = pr[list[i]]
  BY InRange
<1>2. list # << >> => Head(list) \in Range(list)
  BY TailRange
<1> QED
  BY <1>1, <1>2 DEF SortedBy, HeadPrio

-----------------------------------------------------------------------------
(* Priorities.                                                             *)

(* The priority a thread owes to its mutexes is its own, or that of one of *)
(* them, and none is more urgent.                                          *)
LEMMA MutexPriorityIs ==
  ASSUME NEW t \in Threads, NEW taken \in SUBSET Mutexes,
         NEW mp \in [Mutexes -> MPrios], NEW ceil \in [Mutexes -> MPrios]
  PROVE  LET p == MutexPriority(t, taken, mp, ceil) IN
         /\ p \in Prios /\ p \in Nat /\ p <= InitPrio[t]
         /\ \A m \in taken : p <= mp[m] /\ p <= ceil[m]
         /\ p = InitPrio[t] \/ \E m \in taken : p = mp[m] \/ p = ceil[m]
<1> DEFINE S == {InitPrio[t]} \cup {mp[m] : m \in taken} \cup {ceil[m] : m \in taken}
           p == Min(S)
<1>1. InitPrio[t] \in Prios /\ \A m \in taken : mp[m] \in MPrios /\ ceil[m] \in MPrios
  BY PrioAssumption DEF Prios
<1>2. MPrios \subseteq Nat /\ Prios \subseteq MPrios /\ \A q \in MPrios : q < NoPrio => q \in Prios
  BY DEF MPrios, Prios, NoPrio
<1>3. \A q \in Prios : q < NoPrio
  BY DEF Prios, NoPrio
<1>4. S \subseteq MPrios /\ S \subseteq Nat /\ InitPrio[t] \in S
  BY <1>1, <1>2
<1>5. p \in S /\ \A y \in S : p <= y
  BY <1>4, LeastOf
<1>6. p \in Prios
  <2> HIDE DEF p, S
  <2>1. p \in MPrios /\ p \in Nat /\ p <= InitPrio[t] /\ InitPrio[t] \in Nat /\ InitPrio[t] < NoPrio
    BY <1>1, <1>2, <1>3, <1>4, <1>5
  <2>2. p < NoPrio
    BY <2>1 DEF NoPrio
  <2> QED
    BY <1>2, <2>1, <2>2
<1>7. \A m \in taken : mp[m] \in S /\ ceil[m] \in S
  OBVIOUS
<1>8. p = InitPrio[t] \/ \E m \in taken : p = mp[m] \/ p = ceil[m]
  <2> HIDE DEF p
  <2> QED
    BY <1>5
<1>9. MutexPriority(t, taken, mp, ceil) = p
  BY DEF MutexPriority
<1> HIDE DEF p, S
<1> QED
  BY <1>2, <1>4, <1>5, <1>6, <1>7, <1>8, <1>9

(* The less urgent the mutexes, the less urgent it is; and of two sets of  *)
(* them the smaller.                                                       *)
LEMMA MutexPriorityGrows ==
  ASSUME NEW t \in Threads, NEW A \in SUBSET Mutexes, NEW B \in SUBSET Mutexes, A \subseteq B,
         NEW mp \in [Mutexes -> MPrios], NEW ceil \in [Mutexes -> MPrios],
         NEW mq \in [Mutexes -> MPrios], NEW ceil2 \in [Mutexes -> MPrios],
         \A m \in A : mq[m] <= mp[m] /\ ceil2[m] <= ceil[m]
  PROVE  MutexPriority(t, B, mq, ceil2) <= MutexPriority(t, A, mp, ceil)
<1> DEFINE p == MutexPriority(t, A, mp, ceil)
           q == MutexPriority(t, B, mq, ceil2)
<1>1. /\ p \in Nat
      /\ p = InitPrio[t] \/ \E m \in A : p = mp[m] \/ p = ceil[m]
  BY MutexPriorityIs
<1>2. /\ q \in Nat /\ q <= InitPrio[t]
      /\ \A m \in B : q <= mq[m] /\ q <= ceil2[m]
  BY MutexPriorityIs
<1>3. \A x \in MPrios : x \in Nat
  BY DEF MPrios, Prios, NoPrio
<1>4. \A m \in A : /\ mp[m] \in MPrios /\ mq[m] \in MPrios /\ ceil[m] \in MPrios /\ ceil2[m] \in MPrios
  OBVIOUS
<1> HIDE DEF p, q
<1>5. q <= p
  BY <1>1, <1>2, <1>3, <1>4
<1> QED
  BY <1>5 DEF p, q

-----------------------------------------------------------------------------
(* The loop of _thread_update_priority.                                    *)

(* What does not change in the loop: owners, ceilings, who waits for what. *)
(* Nobody waits for a mutex of his own, or for one that has no owner.      *)
ChainOf(pend, ceil) ==
  /\ owner \in [Mutexes -> Threads \cup {NoThread}]
  /\ pend \in [Threads -> Mutexes \cup {NoMutex}]
  /\ \A t \in Threads : pend[t] # NoMutex => owner[pend[t]] \in Threads \ {t}
  /\ ceil \in [Mutexes -> MPrios]

LoopType(s) ==
  /\ s.waiters \in [Mutexes -> Seq(Threads)]
  /\ s.mprio \in [Mutexes -> MPrios]
  /\ s.prio \in [Threads -> Prios]
  /\ s.at \in Threads /\ s.more \in BOOLEAN

(* Each waits on one list, the one of the mutex it waits for.              *)
Listed(ws, pend) ==
  \A m \in Mutexes : /\ IsInjective(ws[m])
                     /\ Range(ws[m]) = {t \in Threads : pend[t] = m}

(* An owner runs at least at the priority kept in its mutex.               *)
Heeded(pr, mp) == \A m \in Mutexes : owner[m] # NoThread => pr[owner[m]] <= mp[m]

(* The waiters are sorted and the priority kept is the first one's, or too *)
(* high where a waiter is late: its time is up and it has not run since.   *)
HeadKnown(list, pr, p, isLate) ==
  p # HeadPrio(list, pr) => p < HeadPrio(list, pr) /\ isLate
InOrder(s, m, late) ==
  /\ SortedBy(s.waiters[m], s.prio)
  /\ HeadKnown(s.waiters[m], s.prio, s.mprio[m], m \in late)

BoostedIn(pr, mp, ceil) ==
  {t \in Threads : pr[t] < MutexPriority(t, TakenBy(t), mp, ceil)}

(* All is in order but the list of the thread whose priority has changed,  *)
(* and that one is but for this thread.                                    *)
LoopInv(s, pend, ceil, late, boosted) ==
  /\ LoopType(s) /\ Listed(s.waiters, pend) /\ Heeded(s.prio, s.mprio)
  /\ \A m \in Mutexes : ~(s.more /\ pend[s.at] = m) => InOrder(s, m, late)
  /\ s.more /\ pend[s.at] # NoMutex =>
       SortedBy(Without(s.waiters[pend[s.at]], {s.at}), s.prio)
  /\ BoostedIn(s.prio, s.mprio, ceil) \subseteq boosted

Going(s, pend) == s.more /\ pend[s.at] # NoMutex

(* What a round needs.                                                     *)
LoopReady(s, pend) ==
  /\ LoopType(s) /\ Listed(s.waiters, pend) /\ Going(s, pend)
  /\ SortedBy(Without(s.waiters[pend[s.at]], {s.at}), s.prio)

(* What Follow does to the list, the mutex and its owner.                  *)
Followed(s, f, pend, ceil) ==
  LET m == pend[s.at]
      o == owner[m]
      p == MutexPriority(o, TakenBy(o), f.mprio, ceil)
  IN  /\ m \in Mutexes /\ o \in Threads /\ pend[o] # m /\ o # s.at
      /\ LoopType(f) /\ Listed(f.waiters, pend)
      /\ f.at = o /\ (f.more <=> p # s.prio[o]) /\ f.prio = [s.prio EXCEPT ![o] = p]
      /\ \A n \in Mutexes \ {m} : f.mprio[n] = s.mprio[n] /\ f.waiters[n] = s.waiters[n]
      /\ f.mprio[m] = HeadPrio(f.waiters[m], s.prio)
      /\ SortedBy(f.waiters[m], s.prio) /\ f.waiters[m] # << >>

LEMMA FollowDoes ==
  ASSUME NEW pend, NEW ceil, ChainOf(pend, ceil), NEW s, LoopReady(s, pend)
  PROVE  Followed(s, Follow(s, pend, ceil), pend, ceil)
<1> DEFINE f == Follow(s, pend, ceil)
           m == pend[s.at]
           o == owner[m]
           w == Without(s.waiters[m], {s.at})
           q == Enqueue(w, s.at, s.prio)
           mp == [s.mprio EXCEPT ![m] = HeadPrio(q, s.prio)]
           p == MutexPriority(o, TakenBy(o), mp, ceil)
<1>1. m \in Mutexes /\ o \in Threads /\ o # s.at /\ s.at \in Threads
  BY DEF ChainOf, Going, LoopType, LoopReady
<1>2. pend[o] # m
  BY <1>1 DEF ChainOf, Going, LoopReady
<1>3. s.waiters[m] \in Seq(Threads) /\ IsInjective(s.waiters[m]) /\ Range(s.waiters[m]) = {t \in Threads : pend[t] = m}
  BY <1>1 DEF LoopType, Listed, LoopReady
<1>4. w \in Seq(Threads) /\ Range(w) = Range(s.waiters[m]) \ {s.at} /\ IsInjective(w)
  BY <1>3, WithoutList
<1>5. SortedBy(w, s.prio) /\ s.prio \in [Threads -> Prios]
  BY DEF LoopType, LoopReady
<1> HIDE DEF w
<1>6. /\ q \in Seq(Threads) /\ q # << >> /\ Range(q) = Range(w) \cup {s.at}
      /\ IsInjective(q) /\ SortedBy(q, s.prio)
  BY <1>1, <1>4, <1>5, EnqueueSorts
<1>7. HeadPrio(q, s.prio) \in MPrios
  BY <1>5, <1>6, SortedHead
<1> HIDE DEF q
<1>8. mp \in [Mutexes -> MPrios] /\ mp[m] = HeadPrio(q, s.prio) /\ \A n \in Mutexes \ {m} : mp[n] = s.mprio[n]
  BY <1>1, <1>7 DEF LoopType, LoopReady
<1>9. p \in Prios
  <2>1. TakenBy(o) \in SUBSET Mutexes
    BY DEF TakenBy
  <2>2. ceil \in [Mutexes -> MPrios]
    BY DEF ChainOf
  <2> HIDE DEF mp
  <2> QED
    BY <1>1, <1>8, <2>1, <2>2, MutexPriorityIs
<1>10. /\ f.waiters = [s.waiters EXCEPT ![m] = q] /\ f.mprio = mp /\ f.at = o
       /\ f.prio = [s.prio EXCEPT ![o] = p] /\ f.more = (p # s.prio[o])
  BY DEF Follow, q, w
<1> HIDE DEF f, p, mp, o, m
<1>11. /\ f.waiters \in [Mutexes -> Seq(Threads)] /\ f.waiters[m] = q
       /\ \A n \in Mutexes \ {m} : f.waiters[n] = s.waiters[n]
  BY <1>1, <1>6, <1>10 DEF LoopType, LoopReady
<1>12. LoopType(f)
  <2>1. s.prio \in [Threads -> Prios] /\ (p # s.prio[o]) \in BOOLEAN
    BY DEF LoopType, LoopReady
  <2> QED
    BY <1>1, <1>8, <1>9, <1>10, <1>11, <2>1 DEF LoopType
<1>13. Listed(f.waiters, pend)
  <2>1. Range(q) = {t \in Threads : pend[t] = m}
    BY <1>1, <1>3, <1>4, <1>6 DEF m
  <2>2. \A n \in Mutexes \ {m} : /\ IsInjective(s.waiters[n])
                                 /\ Range(s.waiters[n]) = {t \in Threads : pend[t] = n}
    BY DEF Listed, LoopReady
  <2> QED
    BY <1>6, <1>11, <2>1, <2>2 DEF Listed
<1> QED
  BY <1>1, <1>2, <1>6, <1>8, <1>10, <1>11, <1>12, <1>13 DEF f, p, o, m, Followed

(* A thread that is not boosted before is not afterwards, where its        *)
(* priority stays and its mutexes become no less urgent.                   *)
LEMMA NotBoosted ==
  ASSUME NEW t \in Threads, NEW pr, NEW pr2, pr2[t] = pr[t], pr[t] \in Nat,
         NEW mp \in [Mutexes -> MPrios], NEW mq \in [Mutexes -> MPrios],
         NEW ceil \in [Mutexes -> MPrios], NEW ceil2 \in [Mutexes -> MPrios],
         \A m \in TakenBy(t) : mq[m] <= mp[m] /\ ceil2[m] <= ceil[m],
         t \in BoostedIn(pr2, mq, ceil2)
  PROVE  t \in BoostedIn(pr, mp, ceil)
<1> DEFINE a == MutexPriority(t, TakenBy(t), mp, ceil)
           b == MutexPriority(t, TakenBy(t), mq, ceil2)
<1>1. TakenBy(t) \in SUBSET Mutexes
  BY DEF TakenBy
<1>2. b <= a
  BY <1>1, MutexPriorityGrows
<1>3. a \in Nat /\ b \in Nat
  BY <1>1, MutexPriorityIs
<1>4. pr[t] < b
  BY DEF BoostedIn
<1> HIDE DEF a, b
<1>5. pr[t] < a
  BY <1>2, <1>3, <1>4
<1> QED
  BY <1>5 DEF BoostedIn, a

(* A round leaves all in order but the list of the owner, if that has got  *)
(* another priority.                                                       *)
LEMMA FollowKeeps ==
  ASSUME NEW pend, NEW ceil, ChainOf(pend, ceil), NEW late, NEW boosted, NEW s,
         LoopInv(s, pend, ceil, late, boosted), Going(s, pend)
  PROVE  LoopInv(Follow(s, pend, ceil), pend, ceil, late, boosted)
<1> DEFINE f == Follow(s, pend, ceil)
           m == pend[s.at]
           o == owner[m]
           p == MutexPriority(o, TakenBy(o), f.mprio, ceil)
<1>1. /\ m \in Mutexes /\ o \in Threads /\ pend[o] # m /\ owner[m] = o
      /\ LoopType(f) /\ Listed(f.waiters, pend)
      /\ f.at = o /\ (f.more <=> p # s.prio[o]) /\ f.prio = [s.prio EXCEPT ![o] = p]
      /\ \A n \in Mutexes \ {m} : f.mprio[n] = s.mprio[n] /\ f.waiters[n] = s.waiters[n]
      /\ f.mprio[m] = HeadPrio(f.waiters[m], s.prio)
      /\ SortedBy(f.waiters[m], s.prio)
  <2>1. LoopReady(s, pend)
    BY DEF LoopInv, Going, LoopReady
  <2> QED
    BY <2>1, FollowDoes DEF Followed
<1>2. ceil \in [Mutexes -> MPrios] /\ TakenBy(o) \in SUBSET Mutexes /\ f.mprio \in [Mutexes -> MPrios]
  BY <1>1 DEF ChainOf, TakenBy, LoopType
<1>3. p \in Nat /\ \A n \in TakenBy(o) : p <= f.mprio[n]
  BY <1>1, <1>2, MutexPriorityIs
<1>4. /\ LoopType(s) /\ Listed(s.waiters, pend) /\ Heeded(s.prio, s.mprio) /\ s.more
      /\ \A n \in Mutexes \ {m} : InOrder(s, n, late)
      /\ BoostedIn(s.prio, s.mprio, ceil) \subseteq boosted
  BY DEF LoopInv, Going
<1>5. /\ f.prio[o] = p /\ \A t \in Threads \ {o} : f.prio[t] = s.prio[t]
      /\ p = s.prio[o] => f.prio = s.prio
  BY <1>1, <1>4 DEF LoopType
<1>6. /\ \A n \in Mutexes : s.waiters[n] \in Seq(Threads) /\ f.waiters[n] \in Seq(Threads)
      /\ \A n \in Mutexes : Range(f.waiters[n]) = {t \in Threads : pend[t] = n}
  BY <1>1, <1>4 DEF LoopType, Listed
<1> HIDE DEF f, p
<1>7. Heeded(f.prio, f.mprio)
  <2>1. ASSUME NEW n \in Mutexes, owner[n] # NoThread PROVE f.prio[owner[n]] <= f.mprio[n]
    <3>1. owner[n] \in Threads
      BY <2>1 DEF ChainOf
    <3>2. CASE owner[n] = o
      <4>1. n \in TakenBy(o)
        BY <3>2 DEF TakenBy
      <4> QED
        BY <1>3, <1>5, <3>2, <4>1
    <3>3. CASE owner[n] # o
      <4>1. n # m /\ f.prio[owner[n]] = s.prio[owner[n]] /\ f.mprio[n] = s.mprio[n]
        BY <1>1, <1>5, <3>1, <3>3
      <4> QED
        BY <1>4, <2>1, <4>1 DEF Heeded
    <3> QED
      BY <3>2, <3>3
  <2> QED
    BY <2>1 DEF Heeded
<1>8. ASSUME NEW n \in Mutexes, ~(f.more /\ pend[f.at] = n) PROVE InOrder(f, n, late)
  <2>1. CASE n = m
    <3>1. \A u \in Range(f.waiters[m]) : f.prio[u] = s.prio[u]
      BY <1>1, <1>5, <1>6
    <3>2. f.waiters[m] \in Seq(Threads)
      BY <1>1, <1>6
    <3>3. /\ SortedBy(f.waiters[m], s.prio) <=> SortedBy(f.waiters[m], f.prio)
          /\ HeadPrio(f.waiters[m], s.prio) = HeadPrio(f.waiters[m], f.prio)
      BY <3>1, <3>2, SortedSame
    <3>4. SortedBy(f.waiters[m], f.prio) /\ f.mprio[m] = HeadPrio(f.waiters[m], f.prio)
      BY <1>1, <3>3
    <3> QED
      BY <2>1, <3>4 DEF InOrder, HeadKnown
  <2>2. CASE n # m
    <3>1. InOrder(s, n, late) /\ f.waiters[n] = s.waiters[n] /\ f.mprio[n] = s.mprio[n]
      BY <1>1, <1>4, <2>2
    <3>2. \A u \in Range(f.waiters[n]) : f.prio[u] = s.prio[u]
      <4>1. CASE pend[o] = n
        BY <1>1, <1>5, <1>8, <4>1
      <4>2. CASE pend[o] # n
        <5>1. \A u \in Range(f.waiters[n]) : u \in Threads /\ u # o
          BY <1>6, <4>2
        <5> QED
          BY <1>5, <5>1
      <4> QED
        BY <4>1, <4>2
    <3>3. /\ SortedBy(f.waiters[n], s.prio) <=> SortedBy(f.waiters[n], f.prio)
          /\ HeadPrio(f.waiters[n], s.prio) = HeadPrio(f.waiters[n], f.prio)
      BY <1>6, <3>2, SortedSame
    <3> QED
      BY <3>1, <3>3 DEF InOrder, HeadKnown
  <2> QED
    BY <2>1, <2>2
<1>9. ASSUME f.more, pend[f.at] # NoMutex
      PROVE  SortedBy(Without(f.waiters[pend[f.at]], {f.at}), f.prio)
  <2> DEFINE n == pend[o]
             w == Without(s.waiters[n], {o})
  <2>1. n \in Mutexes \ {m} /\ f.at = o
    BY <1>1, <1>9 DEF ChainOf
  <2>2. f.waiters[n] = s.waiters[n] /\ SortedBy(s.waiters[n], s.prio) /\ s.waiters[n] \in Seq(Threads)
    BY <1>1, <1>4, <1>6, <2>1 DEF InOrder
  <2>3. SortedBy(w, s.prio) /\ w \in Seq(Threads) /\ Range(w) = Range(s.waiters[n]) \ {o}
    <3>1. SortedBy(w, s.prio)
      BY <2>2, WithoutSorted
    <3> HIDE DEF n, o
    <3>2. w \in Seq(Threads) /\ Range(w) = Range(s.waiters[n]) \ {o}
      BY <2>2, WithoutList
    <3> QED
      BY <3>1, <3>2
  <2>4. Range(s.waiters[n]) \subseteq Threads
    BY <2>2, InRange
  <2> HIDE DEF w, n
  <2>5. \A u \in Range(w) : f.prio[u] = s.prio[u]
    BY <1>5, <2>3, <2>4
  <2>6. SortedBy(w, f.prio)
    BY <2>3, <2>5, SortedSame
  <2> QED
    BY <2>1, <2>2, <2>6 DEF w, n
<1>10. BoostedIn(f.prio, f.mprio, ceil) \subseteq boosted
  <2>1. ASSUME NEW t \in BoostedIn(f.prio, f.mprio, ceil) PROVE t \in boosted
    <3>1. t \in Threads /\ f.prio[t] < MutexPriority(t, TakenBy(t), f.mprio, ceil)
      BY <2>1 DEF BoostedIn
    <3>2. t # o
      <4>1. t = o => f.prio[t] = p /\ MutexPriority(t, TakenBy(t), f.mprio, ceil) = p
        BY <1>5 DEF p
      <4> QED
        BY <1>3, <3>1, <4>1
    <3>3. f.prio[t] = s.prio[t] /\ s.prio[t] \in Nat
      BY <1>4, <1>5, <3>1, <3>2, PriosAreNumbers DEF LoopType
    <3>4. \A n \in TakenBy(t) : n \in Mutexes \ {m}
      BY <1>1, <3>2 DEF TakenBy
    <3>5. \A n \in Mutexes : s.mprio[n] \in Nat
      <4>1. \A n \in Mutexes : s.mprio[n] \in MPrios
        BY <1>4 DEF LoopType
      <4> QED
        BY <4>1 DEF MPrios, Prios, NoPrio
    <3>6. \A n \in TakenBy(t) : f.mprio[n] <= s.mprio[n] /\ ceil[n] <= ceil[n]
      <4>1. \A n \in Mutexes : ceil[n] \in Nat
        BY <1>2 DEF MPrios, Prios, NoPrio
      <4> QED
        BY <1>1, <3>4, <3>5, <4>1
    <3>7. s.mprio \in [Mutexes -> MPrios]
      BY <1>4 DEF LoopType
    <3>8. t \in BoostedIn(s.prio, s.mprio, ceil)
      BY <1>2, <2>1, <3>1, <3>3, <3>6, <3>7, NotBoosted
    <3> QED
      BY <1>4, <3>8
  <2> QED
    BY <2>1
<1>11. LoopInv(f, pend, ceil, late, boosted)
  BY <1>1, <1>7, <1>8, <1>9, <1>10 DEF LoopInv
<1> QED
  BY <1>11 DEF f

-----------------------------------------------------------------------------
(* The loop ends.                                                          *)

(* From i on A goes round in a circle of L members.                        *)
Circles(A, i, L) ==
  \A k \in (i + L)..(i + 2 * L) : /\ A[k] = A[k - L]
                                  /\ \A l \in (k - L + 1)..(k - 1) : A[l] # A[k]

(* A walk along the chain of owners comes round within as many steps as    *)
(* there are threads, and meets no thread twice on a round.                *)
LEMMA ComesRound ==
  ASSUME NEW N \in Nat, N = Cardinality(Threads), NEW A \in [0..(2 * N) -> Threads],
         \A k, l \in 1..(2 * N) : A[k - 1] = A[l - 1] => A[k] = A[l]
  PROVE  \E i \in Nat, L \in Nat \ {0} : i + 2 * L <= 2 * N /\ Circles(A, i, L)
<1> DEFINE D == {j \in 1..N : \E i \in 0..(j - 1) : A[i] = A[j]}
           j == Min(D)
<1>1. D # {}
  <2> DEFINE S == 0..N
             B == [k \in S |-> A[k]]
  <2>1. IsFiniteSet(S) /\ Cardinality(S) = N + 1
    BY FS_Interval
  <2>2. IsFiniteSet(Threads) /\ Cardinality(Threads) < Cardinality(S)
    BY <2>1, NamesAssumption
  <2>3. B \in [S -> Threads]
    OBVIOUS
  <2>4. PICK x \in S, y \in S : x # y /\ B[x] = B[y]
    <3> HIDE DEF B, S
    <3> QED
      BY <2>1, <2>2, <2>3, FS_PigeonHole
  <2>5. A[x] = A[y]
    BY <2>4
  <2>6. CASE x < y
    <3>1. y \in 1..N /\ x \in 0..(y - 1)
      BY <2>6
    <3> QED
      BY <2>5, <3>1
  <2>7. CASE y < x
    <3>1. x \in 1..N /\ y \in 0..(x - 1)
      BY <2>7
    <3> QED
      BY <2>5, <3>1
  <2> QED
    BY <2>4, <2>6, <2>7
<1>2. j \in D /\ \A x \in D : j <= x
  <2>1. D \subseteq Nat
    OBVIOUS
  <2> HIDE DEF D
  <2> QED
    BY <1>1, <2>1, LeastOf
<1> HIDE DEF j
<1>3. PICK i \in 0..(j - 1) : A[i] = A[j]
  BY <1>2
<1> DEFINE L == j - i
<1>4. j \in 1..N /\ i \in Nat /\ L \in Nat \ {0} /\ i + L = j /\ i + 2 * L <= 2 * N
  BY <1>2, <1>3
<1>5. ASSUME NEW x \in 0..(j - 1), NEW y \in 0..(j - 1), x < y PROVE A[x] # A[y]
  <2>1. y \in 1..N /\ x \in 0..(y - 1)
    BY <1>4, <1>5
  <2>2. y \notin D
    BY <1>2, <1>4, <1>5
  <2> QED
    BY <2>1, <2>2
<1> HIDE DEF D, L
<1>6. \A k \in j..(i + 2 * L) : A[k] = A[k - L]
  <2> DEFINE S == {k \in j..(i + 2 * L) : A[k] = A[k - L]}
  <2>1. j \in S
    BY <1>3, <1>4
  <2>2. ASSUME NEW k \in j..(i + 2 * L), k \in S, k + 1 \in j..(i + 2 * L) PROVE k + 1 \in S
    <3>1. /\ k + 1 \in 1..(2 * N) /\ (k + 1) - L \in 1..(2 * N)
          /\ (k + 1) - 1 = k /\ ((k + 1) - L) - 1 = k - L
      BY <1>4, <2>2
    <3>2. A[k] = A[k - L]
      BY <2>2
    <3>3. A[k + 1] = A[(k + 1) - L]
      BY <3>1, <3>2
    <3> QED
      BY <2>2, <3>3
  <2>3. j \in Nat /\ i + 2 * L \in Nat
    BY <1>4
  <2> HIDE DEF S
  <2>4. j..(i + 2 * L) \subseteq S
    BY <2>1, <2>2, <2>3, Climb
  <2> QED
    BY <2>4 DEF S
<1>7. ASSUME NEW k \in j..(i + 2 * L), NEW l \in (k - L + 1)..(k - 1) PROVE A[l] # A[k]
  <2>0. l \in Int /\ k \in Int /\ i \in Int /\ L \in Int /\ k - L < l /\ l < k /\ k - L \in i..j
    BY <1>4, <1>7
  <2>1. A[k] = A[k - L] /\ k - L \in i..j /\ k - L < l /\ l < k
    BY <1>6, <2>0
  <2>2. CASE l < j
    BY <1>4, <1>5, <1>7, <2>1, <2>2
  <2>3. CASE l >= j /\ k - L < j
    <3>0. l \in j..(i + 2 * L)
      BY <1>4, <1>7, <2>0, <2>3
    <3>1. A[l] = A[l - L]
      BY <1>6, <3>0
    <3>2. l - L \in 0..(j - 1) /\ k - L \in 0..(j - 1) /\ l - L < k - L
      BY <1>4, <1>7, <2>0, <2>3
    <3> QED
      BY <1>5, <2>1, <3>1, <3>2
  <2>4. CASE l >= j /\ k - L = j
    <3>0. l \in j..(i + 2 * L) /\ l # j
      BY <1>4, <1>7, <2>0, <2>4
    <3>1. A[l] = A[l - L] /\ A[k] = A[i]
      BY <1>3, <1>6, <2>1, <2>4, <3>0
    <3>2. l - L \in 0..(j - 1) /\ i \in 0..(j - 1) /\ i < l - L
      BY <1>4, <2>0, <2>4, <3>0
    <3> QED
      BY <1>5, <3>1, <3>2
  <2> QED
    BY <1>4, <2>0, <2>2, <2>3, <2>4
<1>8. Circles(A, i, L)
  BY <1>4, <1>6, <1>7 DEF Circles
<1> QED
  BY <1>4, <1>8

(* Once round, each thread's priority comes from the one before it or is   *)
(* no more urgent than it was; then it cannot change on the whole round.   *)
LEMMA NoChangeAllRound ==
  ASSUME NEW H \in Nat, NEW P \in [0..H -> Nat], NEW i \in Nat, NEW L \in Nat \ {0}, i + 2 * L <= H,
         \A k \in (i + L)..(i + 2 * L) : P[k] # P[k - L],
         \A k \in (i + L + 1)..(i + 2 * L) :
            /\ P[k] <= P[k - 1] /\ P[k - L] <= P[k - 1 - L]
            /\ P[k] = P[k - 1] \/ P[k] >= P[k - L]
            /\ P[k - L] = P[k - 1 - L] \/ P[k - L] >= P[k]
  PROVE  FALSE
<1> DEFINE lo == i + L
           hi == i + 2 * L
<1>0. lo \in Nat /\ hi \in Nat /\ lo <= hi /\ lo - L = i /\ hi - L = lo /\ i \in 0..H
  OBVIOUS
<1>1. \A k \in lo..hi : P[k] \in Nat /\ P[k - L] \in Nat /\ P[k] # P[k - L]
  OBVIOUS
<1>2. ASSUME NEW k \in lo..hi, k + 1 \in lo..hi
      PROVE  /\ P[k + 1] <= P[k] /\ P[(k + 1) - L] <= P[k - L]
             /\ P[k + 1] = P[k] \/ P[k + 1] >= P[(k + 1) - L]
             /\ P[(k + 1) - L] = P[k - L] \/ P[(k + 1) - L] >= P[k + 1]
             /\ P[k + 1] # P[(k + 1) - L]
             /\ P[k + 1] \in Nat /\ P[(k + 1) - L] \in Nat /\ P[k] \in Nat /\ P[k - L] \in Nat
  <2>1. k + 1 \in (i + L + 1)..(i + 2 * L) /\ (k + 1) - 1 = k /\ (k + 1) - 1 - L = k - L
    BY <1>0, <1>2
  <2>2. /\ P[k + 1] <= P[(k + 1) - 1] /\ P[(k + 1) - L] <= P[(k + 1) - 1 - L]
        /\ P[k + 1] = P[(k + 1) - 1] \/ P[k + 1] >= P[(k + 1) - L]
        /\ P[(k + 1) - L] = P[(k + 1) - 1 - L] \/ P[(k + 1) - L] >= P[k + 1]
    BY <2>1
  <2>3. P[k + 1] # P[(k + 1) - L] /\ P[k + 1] \in Nat /\ P[(k + 1) - L] \in Nat /\ P[k] \in Nat /\ P[k - L] \in Nat
    BY <1>1, <1>2
  <2> QED
    BY <2>1, <2>2, <2>3
<1>3. CASE P[lo] > P[i]
  <2> DEFINE S == {k \in lo..hi : P[k] > P[k - L] /\ P[k - L] = P[i]}
  <2>1. lo \in S
    BY <1>0, <1>3
  <2>2. ASSUME NEW k \in lo..hi, k \in S, k + 1 \in lo..hi PROVE k + 1 \in S
    <3>1. P[k] > P[k - L] /\ P[k - L] = P[i]
      BY <2>2
    <3>2. P[k + 1] > P[(k + 1) - L] /\ P[(k + 1) - L] = P[k - L]
      <4> HIDE DEF S, lo, hi
      <4> QED
        BY <1>2, <2>2, <3>1
    <3> QED
      BY <2>2, <3>1, <3>2
  <2> HIDE DEF S, lo, hi
  <2>3. lo..hi \subseteq S
    BY <1>0, <2>1, <2>2, Climb
  <2>4. hi \in S
    BY <1>0, <2>3
  <2>5. P[hi - L] = P[i]
    BY <2>4 DEF S
  <2>6. P[lo] \in Nat /\ P[i] \in Nat
    BY <1>0, <1>1
  <2> QED
    BY <1>0, <1>3, <2>5, <2>6
<1>4. CASE P[lo] < P[i]
  <2> DEFINE S == {k \in lo..hi : P[k] < P[k - L] /\ P[k] = P[lo]}
  <2>1. lo \in S
    BY <1>0, <1>4
  <2>2. ASSUME NEW k \in lo..hi, k \in S, k + 1 \in lo..hi PROVE k + 1 \in S
    <3>1. P[k] < P[k - L] /\ P[k] = P[lo]
      BY <2>2
    <3>2. P[k + 1] < P[(k + 1) - L] /\ P[k + 1] = P[k]
      <4> HIDE DEF S, lo, hi
      <4>1. /\ P[k + 1] <= P[k]
            /\ P[k + 1] = P[k] \/ P[k + 1] >= P[(k + 1) - L]
            /\ P[(k + 1) - L] = P[k - L] \/ P[(k + 1) - L] >= P[k + 1]
            /\ P[k + 1] # P[(k + 1) - L]
            /\ P[k + 1] \in Nat /\ P[(k + 1) - L] \in Nat /\ P[k] \in Nat /\ P[k - L] \in Nat
        BY <1>2, <2>2
      <4> QED
        BY <3>1, <4>1
    <3> QED
      BY <2>2, <3>1, <3>2
  <2> HIDE DEF S, lo, hi
  <2>3. lo..hi \subseteq S
    BY <1>0, <2>1, <2>2, Climb
  <2>4. hi \in S
    BY <1>0, <2>3
  <2>5. P[hi] < P[hi - L] /\ P[hi] = P[lo]
    BY <2>4 DEF S
  <2>6. P[lo] \in Nat
    BY <1>0, <1>1
  <2> QED
    BY <1>0, <2>5, <2>6
<1>5. P[lo] \in Nat /\ P[i] \in Nat /\ P[lo] # P[i]
  BY <1>0, <1>1
<1> HIDE DEF lo
<1> QED
  BY <1>3, <1>4, <1>5

(* One round of the loop, which does nothing once the loop has ended.      *)
Round(s, pend, ceil) ==
  IF s.more /\ pend[s.at] # NoMutex THEN Follow(s, pend, ceil) ELSE s

IsRun(run, hi, start, pend, ceil) ==
  run = [n \in 0..hi |-> IF n = 0 THEN start ELSE Round(run[n - 1], pend, ceil)]

LEMMA RunExists ==
  ASSUME NEW hi \in Nat, NEW start, NEW pend, NEW ceil
  PROVE  \E run : IsRun(run, hi, start, pend, ceil)
<1> DEFINE S == {h \in 0..hi : \E run : IsRun(run, h, start, pend, ceil)}
<1>1. 0 \in S
  <2> DEFINE run == [n \in 0..0 |-> start]
  <2>1. run = [n \in 0..0 |-> IF n = 0 THEN start ELSE Round(run[n - 1], pend, ceil)]
    OBVIOUS
  <2> HIDE DEF run
  <2>2. IsRun(run, 0, start, pend, ceil)
    BY <2>1 DEF IsRun
  <2> QED
    BY <2>2
<1>2. ASSUME NEW k \in 0..hi, k \in S, k + 1 \in 0..hi PROVE k + 1 \in S
  <2>1. PICK r : IsRun(r, k, start, pend, ceil)
    BY <1>2
  <2> DEFINE run == [n \in 0..(k + 1) |-> IF n <= k THEN r[n] ELSE Round(r[k], pend, ceil)]
  <2>2. ASSUME NEW n \in 0..(k + 1)
        PROVE  run[n] = IF n = 0 THEN start ELSE Round(run[n - 1], pend, ceil)
    <3>1. CASE n = 0
      <4>1. run[n] = r[0] /\ r[0] = start
        BY <3>1, <2>1 DEF IsRun
      <4> QED
        BY <3>1, <4>1
    <3>2. CASE n \in 1..k
      <4>1. n \in 0..k /\ n - 1 \in 0..(k + 1) /\ n - 1 <= k /\ n <= k /\ n # 0
        BY <3>2
      <4>2. r[n] = Round(r[n - 1], pend, ceil)
        BY <4>1, <2>1 DEF IsRun
      <4>3. run[n] = r[n] /\ run[n - 1] = r[n - 1]
        BY <4>1
      <4> HIDE DEF run
      <4> QED
        BY <4>1, <4>2, <4>3
    <3>3. CASE n = k + 1
      <4>1. ~(n <= k) /\ n - 1 = k /\ k \in 0..(k + 1) /\ k <= k /\ n # 0
        BY <3>3
      <4>2. run[n] = Round(r[k], pend, ceil) /\ run[n - 1] = r[k]
        BY <4>1
      <4> HIDE DEF run
      <4> QED
        BY <4>1, <4>2
    <3>4. n = 0 \/ n \in 1..k \/ n = k + 1
      OBVIOUS
    <3> QED
      BY <3>1, <3>2, <3>3, <3>4
  <2>3. DOMAIN run = 0..(k + 1) /\ run = [n \in 0..(k + 1) |-> run[n]]
    OBVIOUS
  <2> HIDE DEF run
  <2>4. IsRun(run, k + 1, start, pend, ceil)
    BY <2>2, <2>3 DEF IsRun
  <2> QED
    BY <1>2, <2>4
<1> HIDE DEF S
<1>3. 0..hi \subseteq S
  BY <1>1, <1>2, Climb
<1> QED
  BY <1>3 DEF S

(* Updated is the state after as many rounds.                              *)
LEMMA UpdatedIsRun ==
  ASSUME NEW t, NEW p, NEW ws, NEW mp, NEW ceil, NEW pend
  PROVE  LET hi == 2 * Cardinality(Threads)
             start == [waiters |-> ws, mprio |-> mp, prio |-> [prio EXCEPT ![t] = p],
                       at |-> t, more |-> TRUE]
         IN  \E run : /\ IsRun(run, hi, start, pend, ceil)
                      /\ Updated(t, p, ws, mp, ceil, pend) = run[hi]
<1> DEFINE hi == 2 * Cardinality(Threads)
           start == [waiters |-> ws, mprio |-> mp, prio |-> [prio EXCEPT ![t] = p],
                     at |-> t, more |-> TRUE]
           run == CHOOSE run : IsRun(run, hi, start, pend, ceil)
<1>1. Cardinality(Threads) \in Nat
  BY NamesAssumption, FS_CardinalityType
<1>2. hi \in Nat
  BY <1>1
<1>3. IsRun(run, hi, start, pend, ceil)
  <2> HIDE DEF hi, start
  <2> QED
    BY <1>2, RunExists
<1>4. Updated(t, p, ws, mp, ceil, pend) = run[hi]
  BY DEF Updated, IsRun, Round
<1> HIDE DEF run
<1> QED
  BY <1>3, <1>4

(* Two rounds from the same thread: its owner gets the priority of this    *)
(* thread or one that does not depend on it.                               *)
LEMMA RoundsCompared ==
  ASSUME NEW pend, NEW ceil, ChainOf(pend, ceil), NEW a, NEW c,
         LoopReady(a, pend), LoopReady(c, pend),
         NEW y, y = a.at, y = c.at, NEW x, x = owner[pend[y]],
         \A n \in TakenBy(x) \ {pend[y]} :
            Follow(a, pend, ceil).mprio[n] = Follow(c, pend, ceil).mprio[n],
         \A u \in Threads \ {y} : pend[u] = pend[y] => a.prio[u] = c.prio[u]
  PROVE  LET b == Follow(a, pend, ceil)
             d == Follow(c, pend, ceil)
         IN  /\ b.prio[x] <= a.prio[y]
             /\ b.prio[x] = a.prio[y] \/ b.prio[x] >= d.prio[x]
<1> DEFINE b == Follow(a, pend, ceil)
           d == Follow(c, pend, ceil)
           m == pend[y]
           p == MutexPriority(x, TakenBy(x), b.mprio, ceil)
           q == MutexPriority(x, TakenBy(x), d.mprio, ceil)
<1>1. /\ m \in Mutexes /\ x \in Threads /\ owner[m] = x
      /\ LoopType(b) /\ Listed(b.waiters, pend) /\ b.prio = [a.prio EXCEPT ![x] = p]
      /\ b.mprio[m] = HeadPrio(b.waiters[m], a.prio)
      /\ SortedBy(b.waiters[m], a.prio) /\ b.waiters[m] # << >>
  <2>1. Followed(a, b, pend, ceil)
    BY FollowDoes
  <2>2. m = pend[a.at] /\ x = owner[pend[a.at]]
    OBVIOUS
  <2> HIDE DEF b, m
  <2> QED
    BY <2>1, <2>2 DEF Followed
<1>2. /\ LoopType(d) /\ Listed(d.waiters, pend) /\ d.prio = [c.prio EXCEPT ![x] = q]
      /\ d.mprio[m] = HeadPrio(d.waiters[m], c.prio)
      /\ SortedBy(d.waiters[m], c.prio)
  <2>1. Followed(c, d, pend, ceil)
    BY FollowDoes
  <2>2. m = pend[c.at] /\ x = owner[pend[c.at]]
    OBVIOUS
  <2> HIDE DEF d, m
  <2> QED
    BY <2>1, <2>2 DEF Followed
<1>3. /\ a.prio \in [Threads -> Prios] /\ c.prio \in [Threads -> Prios] /\ y \in Threads
      /\ b.waiters[m] \in Seq(Threads) /\ d.waiters[m] \in Seq(Threads)
      /\ b.mprio \in [Mutexes -> MPrios] /\ d.mprio \in [Mutexes -> MPrios]
      /\ ceil \in [Mutexes -> MPrios] /\ TakenBy(x) \in SUBSET Mutexes /\ m \in TakenBy(x)
  BY <1>1, <1>2 DEF LoopType, LoopReady, ChainOf, TakenBy
<1>4. /\ Range(b.waiters[m]) = {u \in Threads : pend[u] = m}
      /\ Range(d.waiters[m]) = {u \in Threads : pend[u] = m}
  BY <1>1, <1>2 DEF Listed
<1>5. /\ Head(b.waiters[m]) \in Range(b.waiters[m])
      /\ b.mprio[m] = a.prio[Head(b.waiters[m])]
      /\ \A u \in Range(b.waiters[m]) : b.mprio[m] <= a.prio[u]
  BY <1>1, <1>3, SortedHead
<1>6. \A u \in Range(d.waiters[m]) : d.mprio[m] <= c.prio[u]
  BY <1>2, <1>3, SortedHead
<1>7. /\ p \in Nat /\ p <= b.mprio[m]
      /\ p = InitPrio[x] \/ \E n \in TakenBy(x) : p = b.mprio[n] \/ p = ceil[n]
  BY <1>1, <1>3, MutexPriorityIs
<1>8. /\ q \in Nat /\ q <= InitPrio[x]
      /\ \A n \in TakenBy(x) : q <= d.mprio[n] /\ q <= ceil[n]
  BY <1>1, <1>3, MutexPriorityIs
<1>9. b.prio[x] = p /\ d.prio[x] = q
  BY <1>1, <1>2, <1>3
<1>10. \A u \in Threads : a.prio[u] \in Nat /\ c.prio[u] \in Nat
  BY <1>3, PriosAreNumbers
<1>11. \A n \in Mutexes : b.mprio[n] \in Nat /\ d.mprio[n] \in Nat
  <2>1. \A n \in Mutexes : b.mprio[n] \in MPrios /\ d.mprio[n] \in MPrios
    BY <1>3
  <2> QED
    BY <2>1 DEF MPrios, Prios, NoPrio
<1>12. \A n \in TakenBy(x) \ {m} : b.mprio[n] = d.mprio[n]
  OBVIOUS
<1>13. \A u \in Threads \ {y} : pend[u] = m => a.prio[u] = c.prio[u]
  OBVIOUS
<1> HIDE DEF b, d, p, q, m
<1>14. p <= a.prio[y]
  <2>1. y \in Range(b.waiters[m])
    BY <1>3, <1>4 DEF m
  <2>2. b.mprio[m] <= a.prio[y]
    BY <1>5, <2>1
  <2> QED
    BY <1>1, <1>3, <1>7, <1>10, <1>11, <2>2
<1>15. ASSUME p # a.prio[y] PROVE p >= q
  <2>1. CASE p = InitPrio[x]
    BY <1>7, <1>8, <2>1
  <2>2. CASE \E n \in TakenBy(x) : p = ceil[n]
    BY <1>7, <1>8, <2>2
  <2>3. CASE \E n \in TakenBy(x) \ {m} : p = b.mprio[n]
    BY <1>7, <1>8, <1>12, <2>3
  <2>4. CASE p = b.mprio[m]
    <3> DEFINE u == Head(b.waiters[m])
    <3>1. u \in Threads \ {y} /\ pend[u] = m /\ p = a.prio[u] /\ u \in Range(d.waiters[m])
      BY <1>4, <1>5, <1>15, <2>4
    <3>2. a.prio[u] = c.prio[u] /\ d.mprio[m] <= c.prio[u] /\ q <= d.mprio[m]
      BY <1>3, <1>6, <1>8, <1>13, <3>1
    <3> HIDE DEF u
    <3> QED
      BY <1>1, <1>7, <1>8, <1>10, <1>11, <3>1, <3>2
  <2> QED
    BY <1>7, <2>1, <2>2, <2>3, <2>4
<1> QED
  BY <1>9, <1>14, <1>15 DEF b, d

(* The loop has ended by then: on a way without a round there are not so   *)
(* many threads, and on a round the changes die out.                       *)
LEMMA RunStops ==
  ASSUME NEW pend, NEW ceil, ChainOf(pend, ceil), NEW start, NEW late, NEW boosted, NEW run,
         IsRun(run, 2 * Cardinality(Threads), start, pend, ceil),
         \A n \in 0..(2 * Cardinality(Threads)) : LoopInv(run[n], pend, ceil, late, boosted)
  PROVE  ~Going(run[2 * Cardinality(Threads)], pend)
<1> DEFINE N == Cardinality(Threads)
           hi == 2 * N
<1>0. N \in Nat /\ hi \in Nat
  BY NamesAssumption, FS_CardinalityType
<1> SUFFICES ASSUME Going(run[hi], pend)
             PROVE  FALSE
  OBVIOUS
<1> HIDE DEF N, hi
<1> USE <1>0
<1>1. \A n \in 0..hi : LoopInv(run[n], pend, ceil, late, boosted)
  BY DEF N, hi
<1>2. \A n \in 1..hi : run[n] = Round(run[n - 1], pend, ceil)
  <2>1. run = [n \in 0..hi |-> IF n = 0 THEN start ELSE Round(run[n - 1], pend, ceil)]
    BY DEF N, hi, IsRun
  <2> QED
    BY <2>1
<1>3. \A k \in 0..hi : Going(run[k], pend)
  <2>1. ASSUME NEW k \in 0..hi, ~Going(run[k], pend) PROVE FALSE
    <3> DEFINE S == {n \in k..hi : ~Going(run[n], pend)}
    <3>1. k \in S
      BY <2>1
    <3>2. ASSUME NEW n \in k..hi, n \in S, n + 1 \in k..hi PROVE n + 1 \in S
      <4>1. n + 1 \in 1..hi /\ (n + 1) - 1 = n
        BY <3>2
      <4>2. run[n + 1] = Round(run[n], pend, ceil)
        BY <1>2, <4>1
      <4>3. run[n + 1] = run[n]
        BY <3>2, <4>2 DEF Round, Going
      <4> QED
        BY <3>2, <4>3
    <3> HIDE DEF S
    <3>3. k..hi \subseteq S
      BY <3>1, <3>2, Climb
    <3>4. hi \in S
      BY <3>3
    <3> QED
      BY <3>4 DEF S
  <2> QED
    BY <2>1
<1>4. \A k \in 1..hi : run[k] = Follow(run[k - 1], pend, ceil)
  <2>1. ASSUME NEW k \in 1..hi PROVE run[k] = Follow(run[k - 1], pend, ceil)
    <3>1. run[k] = Round(run[k - 1], pend, ceil) /\ Going(run[k - 1], pend)
      BY <1>2, <1>3
    <3> QED
      BY <3>1 DEF Round, Going
  <2> QED
    BY <2>1
<1>5. \A k \in 0..hi : LoopReady(run[k], pend)
  BY <1>1, <1>3 DEF LoopInv, Going, LoopReady
<1> DEFINE A == [k \in 0..hi |-> run[k].at]
           P == [k \in 0..hi |-> run[k].prio[run[k].at]]
<1>6. A \in [0..hi -> Threads] /\ P \in [0..hi -> Nat]
  <2>1. ASSUME NEW k \in 0..hi PROVE run[k].at \in Threads /\ run[k].prio[run[k].at] \in Nat
    BY <1>5, PriosAreNumbers DEF LoopType, LoopReady
  <2> QED
    BY <2>1
<1>7. \A k \in 0..hi : /\ A[k] = run[k].at /\ P[k] = run[k].prio[A[k]]
                       /\ pend[A[k]] \in Mutexes /\ owner[pend[A[k]]] \in Threads
  BY <1>5 DEF Going, LoopType, LoopReady, ChainOf
<1> HIDE DEF A, P
(* What the round to k does.                                               *)
<1>8. ASSUME NEW k \in 1..hi
      PROVE  /\ k - 1 \in 0..hi /\ k \in 0..hi
             /\ A[k] = owner[pend[A[k - 1]]] /\ P[k] # run[k - 1].prio[A[k]]
             /\ \A t \in Threads \ {A[k]} : run[k].prio[t] = run[k - 1].prio[t]
             /\ \A n \in Mutexes \ {pend[A[k - 1]]} : run[k].mprio[n] = run[k - 1].mprio[n]
  <2> DEFINE s == run[k - 1]
             f == Follow(s, pend, ceil)
             o == owner[pend[s.at]]
             p == MutexPriority(o, TakenBy(o), f.mprio, ceil)
  <2>1. k - 1 \in 0..hi /\ k \in 0..hi /\ run[k] = f
    BY <1>4
  <2>2. /\ o \in Threads
        /\ f.at = o /\ (f.more <=> p # s.prio[o]) /\ f.prio = [s.prio EXCEPT ![o] = p]
        /\ \A n \in Mutexes \ {pend[s.at]} : f.mprio[n] = s.mprio[n]
    <3>1. LoopReady(s, pend)
      BY <1>5, <2>1
    <3>2. Followed(s, f, pend, ceil)
      BY <3>1, FollowDoes
    <3> QED
      BY <3>2 DEF Followed
  <2>3. s.prio \in [Threads -> Prios] /\ f.more /\ A[k - 1] = s.at /\ A[k] = f.at /\ P[k] = f.prio[f.at]
    BY <1>5, <1>7, <2>1 DEF LoopType, LoopReady, Going
  <2> HIDE DEF f, p, s, o
  <2>4. /\ P[k] # s.prio[A[k]]
        /\ \A t \in Threads \ {A[k]} : f.prio[t] = s.prio[t]
    BY <2>2, <2>3
  <2>5. A[k] = owner[pend[A[k - 1]]]
    BY <2>2, <2>3 DEF o
  <2> QED
    BY <2>1, <2>2, <2>3, <2>4, <2>5 DEF s
<1>9. \A k, l \in 1..hi : A[k - 1] = A[l - 1] => A[k] = A[l]
  <2>1. \A k \in 1..hi : A[k] = owner[pend[A[k - 1]]]
    BY <1>8
  <2> QED
    BY <2>1
<1>10. PICK i \in Nat, L \in Nat \ {0} :
           /\ i + 2 * L <= hi
           /\ \A k \in (i + L)..(i + 2 * L) : /\ A[k] = A[k - L]
                                              /\ \A l \in (k - L + 1)..(k - 1) : A[l] # A[k]
  <2>1. N = Cardinality(Threads) /\ hi = 2 * N
    BY DEF hi, N
  <2>2. /\ A \in [0..(2 * N) -> Threads]
        /\ \A k, l \in 1..(2 * N) : A[k - 1] = A[l - 1] => A[k] = A[l]
    BY <1>6, <1>9, <2>1
  <2>3. \E i \in Nat, L \in Nat \ {0} : i + 2 * L <= 2 * N /\ Circles(A, i, L)
    BY <2>1, <2>2, ComesRound
  <2>4. PICK i \in Nat, L \in Nat \ {0} : i + 2 * L <= 2 * N /\ Circles(A, i, L)
    BY <2>3
  <2> QED
    BY <2>1, <2>4 DEF Circles
(* Until it is met again, a thread keeps its priority.                     *)
<1>11. ASSUME NEW k \in (i + L)..(i + 2 * L) PROVE P[k] # P[k - L]
  <2>1. k \in 1..hi /\ k - L \in 0..hi /\ k - 1 \in 0..hi /\ k - L \in Nat /\ k - 1 \in Nat
    BY <1>10
  <2> DEFINE S == {l \in (k - L)..(k - 1) : run[l].prio[A[k]] = P[k - L]}
  <2>2. k - L \in S
    BY <1>7, <1>10, <2>1
  <2>3. ASSUME NEW l \in (k - L)..(k - 1), l \in S, l + 1 \in (k - L)..(k - 1) PROVE l + 1 \in S
    <3>1. l + 1 \in 1..hi /\ l + 1 \in (k - L + 1)..(k - 1) /\ (l + 1) - 1 = l
      BY <1>10, <2>1, <2>3
    <3>2. A[l + 1] # A[k] /\ A[k] \in Threads
      BY <1>6, <1>10, <2>1, <3>1
    <3>3. run[l + 1].prio[A[k]] = run[l].prio[A[k]]
      BY <1>8, <3>1, <3>2
    <3> QED
      BY <2>3, <3>3
  <2> DEFINE from == k - L
             to == k - 1
  <2> HIDE DEF S, from, to
  <2>4. from..to \subseteq S
    <3>1. from \in Nat /\ to \in Nat /\ from \in S
      BY <2>1, <2>2 DEF from, to
    <3>2. \A l \in from..to : l \in S /\ l + 1 \in from..to => l + 1 \in S
      BY <2>3 DEF from, to
    <3> QED
      BY <3>1, <3>2, Climb
  <2>5. k - 1 \in S
    BY <1>10, <2>1, <2>4 DEF from, to
  <2> QED
    BY <1>8, <2>1, <2>5 DEF S
<1>12. ASSUME NEW k \in (i + L + 1)..(i + 2 * L)
       PROVE  /\ P[k] <= P[k - 1] /\ P[k - L] <= P[k - 1 - L]
              /\ P[k] = P[k - 1] \/ P[k] >= P[k - L]
              /\ P[k - L] = P[k - 1 - L] \/ P[k - L] >= P[k]
  <2> DEFINE k2 == k - L
             y == A[k - 1]
             x == A[k]
             m == pend[y]
             a == run[k - 1]
             c == run[k2 - 1]
  <2>1. /\ k \in 1..hi /\ k2 \in 1..hi /\ k - 1 \in 0..hi /\ k2 - 1 \in 0..hi
        /\ k \in (i + L)..(i + 2 * L) /\ k - 1 \in (i + L)..(i + 2 * L)
        /\ (k - 1) - L = k2 - 1 /\ k - 1 - L = k2 - 1 /\ k2 < k /\ k2 \in Nat /\ k - 1 \in Nat
        /\ k2 - 1 \in Nat /\ k \in Nat
    BY <1>10
  <2>2. /\ x = A[k2] /\ y = A[k2 - 1] /\ x = owner[m] /\ m \in Mutexes /\ x \in Threads /\ y \in Threads
    BY <1>6, <1>7, <1>8, <1>10, <2>1
  <2>3. run[k] = Follow(a, pend, ceil) /\ run[k2] = Follow(c, pend, ceil) /\ a.at = y /\ c.at = y
    BY <1>4, <1>7, <2>1, <2>2
  <2> HIDE DEF k2
  <2>4. /\ P[k] = run[k].prio[x] /\ P[k2] = run[k2].prio[x]
        /\ P[k - 1] = a.prio[y] /\ P[k2 - 1] = c.prio[y]
    <3>1. \A l \in 0..hi : P[l] = run[l].prio[A[l]]
      BY <1>7
    <3>2. k \in 0..hi /\ k2 \in 0..hi
      BY <2>1
    <3> QED
      BY <2>1, <2>2, <3>1, <3>2
  <2> HIDE DEF x, y, m
  <2>5. \A l \in (k2 + 1)..(k - 1) : A[l] # x
    <3>1. k - L + 1 = k2 + 1
      BY <2>1 DEF k2
    <3> QED
      BY <1>10, <2>1, <3>1 DEF x
  <2>6. ASSUME NEW u \in Threads \ {y}, pend[u] = m PROVE a.prio[u] = c.prio[u]
    <3> DEFINE S == {l \in (k2 - 1)..(k - 1) : run[l].prio[u] = c.prio[u]}
    <3>1. k2 - 1 \in S
      BY <2>1
    <3>2. ASSUME NEW l \in (k2 - 1)..(k - 1), l \in S, l + 1 \in (k2 - 1)..(k - 1) PROVE l + 1 \in S
      <4>1. /\ l + 1 \in 1..hi /\ (l + 1) - 1 = l
            /\ l + 1 < k - 1 => l + 2 \in (k2 + 1)..(k - 1) /\ l + 2 \in 1..hi /\ (l + 2) - 1 = l + 1
            /\ l + 1 < k - 1 \/ l + 1 = k - 1
        BY <2>1, <3>2
      <4>2. A[l + 1] # u
        <5>1. CASE l + 1 = k - 1
          BY <2>6, <5>1 DEF y
        <5>2. CASE l + 1 < k - 1
          <6>1. A[l + 2] # x /\ A[l + 2] = owner[pend[A[l + 1]]]
            BY <1>8, <2>5, <4>1, <5>2
          <6> QED
            BY <2>2, <2>6, <6>1
        <5> QED
          BY <4>1, <5>1, <5>2
      <4>3. run[l + 1].prio[u] = run[l].prio[u]
        BY <1>8, <2>6, <4>1, <4>2
      <4> QED
        BY <3>2, <4>3
    <3> DEFINE from == k2 - 1
               to == k - 1
    <3> HIDE DEF S, from, to
    <3>3. from..to \subseteq S
      <4>1. from \in Nat /\ to \in Nat /\ from \in S
        BY <2>1, <3>1 DEF from, to
      <4>2. \A l \in from..to : l \in S /\ l + 1 \in from..to => l + 1 \in S
        BY <3>2 DEF from, to
      <4> QED
        BY <4>1, <4>2, Climb
    <3>4. k - 1 \in S
      BY <2>1, <3>3 DEF from, to
    <3> QED
      BY <3>4 DEF S
  <2>7. ASSUME NEW n \in TakenBy(x) \ {m} PROVE run[k].mprio[n] = run[k2].mprio[n]
    <3> DEFINE S == {l \in k2..k : run[l].mprio[n] = run[k2].mprio[n]}
    <3>1. k2 \in S
      BY <2>1
    <3>2. ASSUME NEW l \in k2..k, l \in S, l + 1 \in k2..k PROVE l + 1 \in S
      <4>1. /\ l + 1 \in 1..hi /\ (l + 1) - 1 = l
            /\ l + 1 < k => l + 1 \in (k2 + 1)..(k - 1)
            /\ l + 1 < k \/ l + 1 = k
        BY <2>1, <3>2
      <4>2. pend[A[l]] # n /\ n \in Mutexes /\ owner[n] = x
        <5>1. n \in Mutexes /\ owner[n] = x /\ n # m
          BY <2>7 DEF TakenBy
        <5>2. CASE l + 1 = k
          <6>1. A[l] = y
            BY <4>1, <5>2 DEF y
          <6> QED
            BY <5>1, <6>1 DEF m
        <5>3. CASE l + 1 < k
          <6>1. A[l + 1] # x /\ A[l + 1] = owner[pend[A[l]]]
            BY <1>8, <2>5, <4>1, <5>3
          <6> QED
            BY <5>1, <6>1
        <5> QED
          BY <4>1, <5>1, <5>2, <5>3
      <4>3. run[l + 1].mprio[n] = run[l].mprio[n]
        BY <1>8, <4>1, <4>2
      <4> QED
        BY <3>2, <4>3
    <3> HIDE DEF S
    <3>3. k2..k \subseteq S
      BY <2>1, <3>1, <3>2, Climb
    <3>4. k \in S
      BY <2>1, <3>3
    <3> QED
      BY <3>4 DEF S
  <2>8. LoopReady(a, pend) /\ LoopReady(c, pend)
    BY <1>5, <2>1
  <2> HIDE DEF a, c
  <2>9. x = owner[pend[y]] /\ m = pend[y]
    BY <2>2 DEF m
  <2>12. \A n \in TakenBy(x) \ {pend[y]} : Follow(a, pend, ceil).mprio[n] = Follow(c, pend, ceil).mprio[n]
    BY <2>3, <2>7, <2>9
  <2>13. \A u \in Threads \ {y} : pend[u] = pend[y] => a.prio[u] = c.prio[u]
    BY <2>6, <2>9
  <2>14. \A n \in TakenBy(x) \ {pend[y]} : Follow(c, pend, ceil).mprio[n] = Follow(a, pend, ceil).mprio[n]
    BY <2>12
  <2>15. \A u \in Threads \ {y} : pend[u] = pend[y] => c.prio[u] = a.prio[u]
    BY <2>13
  <2>10. /\ Follow(a, pend, ceil).prio[x] <= a.prio[y]
         /\ \/ Follow(a, pend, ceil).prio[x] = a.prio[y]
            \/ Follow(a, pend, ceil).prio[x] >= Follow(c, pend, ceil).prio[x]
    BY <2>3, <2>8, <2>9, <2>12, <2>13, RoundsCompared
  <2>11. /\ Follow(c, pend, ceil).prio[x] <= c.prio[y]
         /\ \/ Follow(c, pend, ceil).prio[x] = c.prio[y]
            \/ Follow(c, pend, ceil).prio[x] >= Follow(a, pend, ceil).prio[x]
    BY <2>3, <2>8, <2>9, <2>14, <2>15, RoundsCompared
  <2> QED
    BY <2>1, <2>3, <2>4, <2>10, <2>11 DEF k2
<1> QED
  BY <1>6, <1>10, <1>11, <1>12, NoChangeAllRound
-----------------------------------------------------------------------------
(* The whole of _thread_update_priority.                                   *)

(* All lists are in order, and all owners heed their mutexes.              *)
Settled(s, pend, late) ==
  /\ Listed(s.waiters, pend) /\ Heeded(s.prio, s.mprio)
  /\ \A m \in Mutexes : InOrder(s, m, late)

(* The loop of _thread_update_priority, for a thread that is given a       *)
(* priority at which it heeds its mutexes: it has come to its end within   *)
(* the rounds Updated gives it, also where owners wait for one another in  *)
(* a circle, leaves every list in order and boosts nobody.                 *)
THEOREM UpdatedSettles ==
  ASSUME NEW pend, NEW ceil, ChainOf(pend, ceil), NEW late, NEW boosted,
         NEW o \in Threads, NEW p \in Prios, prio \in [Threads -> Prios],
         NEW ws \in [Mutexes -> Seq(Threads)], NEW mp \in [Mutexes -> MPrios],
         Listed(ws, pend),
         \A m \in Mutexes : InOrder([waiters |-> ws, mprio |-> mp, prio |-> prio], m, late),
         Heeded([prio EXCEPT ![o] = p], mp),
         BoostedIn([prio EXCEPT ![o] = p], mp, ceil) \subseteq boosted
  PROVE  LET s == Updated(o, p, ws, mp, ceil, pend)
         IN  /\ ~Going(s, pend) /\ LoopType(s) /\ Settled(s, pend, late)
             /\ BoostedIn(s.prio, s.mprio, ceil) \subseteq boosted
<1> DEFINE hi == 2 * Cardinality(Threads)
           pr == [prio EXCEPT ![o] = p]
           start == [waiters |-> ws, mprio |-> mp, prio |-> pr, at |-> o, more |-> TRUE]
<1>1. Cardinality(Threads) \in Nat
  BY NamesAssumption, FS_CardinalityType
<1>2. hi \in Nat
  BY <1>1
<1>3. PICK run : IsRun(run, hi, start, pend, ceil) /\ Updated(o, p, ws, mp, ceil, pend) = run[hi]
  BY UpdatedIsRun
<1>4. /\ start.waiters = ws /\ start.mprio = mp /\ start.prio = pr /\ start.at = o /\ start.more
      /\ pr \in [Threads -> Prios] /\ \A u \in Threads \ {o} : pr[u] = prio[u]
  OBVIOUS
<1>5. LoopType(start)
  BY <1>4 DEF LoopType
<1> HIDE DEF start, pr
<1>6. \A m \in Mutexes : /\ ws[m] \in Seq(Threads) /\ SortedBy(ws[m], prio)
                         /\ HeadKnown(ws[m], prio, mp[m], m \in late)
                         /\ Range(ws[m]) = {t \in Threads : pend[t] = m}
  BY DEF InOrder, Listed
<1>7. ASSUME NEW m \in Mutexes, pend[o] # m PROVE InOrder(start, m, late)
  <2>1. \A u \in Range(ws[m]) : pr[u] = prio[u]
    BY <1>4, <1>6, <1>7
  <2>2. /\ SortedBy(ws[m], prio) <=> SortedBy(ws[m], pr)
        /\ HeadPrio(ws[m], prio) = HeadPrio(ws[m], pr)
    BY <1>6, <2>1, SortedSame
  <2> QED
    BY <1>4, <1>6, <2>2 DEF InOrder, HeadKnown
<1>8. ASSUME pend[o] # NoMutex
      PROVE  SortedBy(Without(ws[pend[o]], {o}), pr)
  <2> DEFINE m == pend[o]
             w == Without(ws[m], {o})
  <2>1. m \in Mutexes
    BY <1>8 DEF ChainOf
  <2> HIDE DEF m
  <2>2. SortedBy(w, prio)
    BY <1>6, <2>1, WithoutSorted
  <2>3. w \in Seq(Threads) /\ Range(w) = Range(ws[m]) \ {o}
    BY <1>6, <2>1, WithoutList
  <2> HIDE DEF w
  <2>4. \A u \in Range(w) : pr[u] = prio[u]
    BY <1>4, <1>6, <2>1, <2>3
  <2>5. SortedBy(w, pr)
    BY <2>2, <2>3, <2>4, SortedSame
  <2> QED
    BY <2>5 DEF w, m
<1>9. LoopInv(start, pend, ceil, late, boosted)
  BY <1>4, <1>5, <1>7, <1>8 DEF LoopInv, pr
<1>10. ASSUME NEW k \in 0..hi PROVE LoopInv(run[k], pend, ceil, late, boosted)
  <2> DEFINE S == {n \in 0..hi : LoopInv(run[n], pend, ceil, late, boosted)}
  <2>1. run[0] = start /\ 0 \in 0..hi
    BY <1>2, <1>3 DEF IsRun
  <2>2. 0 \in S
    BY <1>9, <2>1
  <2>3. ASSUME NEW n \in 0..hi, n \in S, n + 1 \in 0..hi PROVE n + 1 \in S
    <3>1. n + 1 # 0 /\ (n + 1) - 1 = n
      BY <2>3
    <3>2. run[n + 1] = Round(run[n], pend, ceil)
      BY <1>3, <2>3, <3>1 DEF IsRun
    <3>3. LoopInv(run[n], pend, ceil, late, boosted)
      BY <2>3
    <3>4. LoopInv(run[n + 1], pend, ceil, late, boosted)
      BY <3>2, <3>3, FollowKeeps DEF Round, Going
    <3> QED
      BY <2>3, <3>4
  <2> HIDE DEF S, hi
  <2>4. 0..hi \subseteq S
    BY <1>2, <2>2, <2>3, Climb
  <2> QED
    BY <2>4 DEF S
<1>11. ~Going(run[hi], pend) /\ LoopInv(run[hi], pend, ceil, late, boosted)
  <2>1. IsRun(run, 2 * Cardinality(Threads), start, pend, ceil)
    BY <1>3
  <2>2. \A n \in 0..(2 * Cardinality(Threads)) : LoopInv(run[n], pend, ceil, late, boosted)
    BY <1>10
  <2>3. ~Going(run[2 * Cardinality(Threads)], pend)
    <3> HIDE DEF hi
    <3> QED
      BY <2>1, <2>2, RunStops
  <2>4. hi \in 0..hi
    BY <1>2
  <2> HIDE DEF hi
  <2>5. LoopInv(run[hi], pend, ceil, late, boosted)
    BY <2>4, <1>10
  <2> QED
    BY <2>3, <2>5 DEF hi
<1>12. ASSUME NEW m \in Mutexes PROVE InOrder(run[hi], m, late)
  <2>1. m # NoMutex
    BY NamesAssumption
  <2> QED
    BY <1>11, <2>1 DEF LoopInv, Going
<1> QED
  BY <1>3, <1>11, <1>12 DEF LoopInv, Settled

-----------------------------------------------------------------------------
(* The invariant.                                                          *)

Now == [waiters |-> waiters, mprio |-> mprio, prio |-> prio]
Late == {m \in Mutexes : \E u \in Threads : pc[u] = "timedOut" /\ wants[u] = m}

(* Where a thread is in rt_mutex_take, and whose the mutex is it wants.    *)
Places ==
  \A t \in Threads : /\ pc[t] = "run" <=> wants[t] = NoMutex
                     /\ pc[t] = "asleep" => owner[wants[t]] \in Threads \ {t}
                     /\ pc[t] = "handed" => owner[wants[t]] = t
                     /\ pc[t] = "timedOut" => owner[wants[t]] # t

Counted == \A m \in Mutexes : hold[m] = 0 <=> owner[m] = NoThread

IInv == TypeOK /\ Places /\ Counted /\ Settled(Now, Pending, Late)

(* What the proofs of the actions use of it.                               *)
LEMMA InvFacts ==
  ASSUME IInv
  PROVE  /\ owner \in [Mutexes -> Threads \cup {NoThread}]
         /\ waiters \in [Mutexes -> Seq(Threads)]
         /\ mprio \in [Mutexes -> MPrios] /\ prio \in [Threads -> Prios]
         /\ ceiling \in [Mutexes -> MPrios]
         /\ Pending \in [Threads -> Mutexes \cup {NoMutex}]
         /\ \A t \in Threads : /\ Pending[t] # NoMutex <=> pc[t] = "asleep"
                               /\ pc[t] = "asleep" => Pending[t] = wants[t]
                               /\ pc[t] # "run" => wants[t] \in Mutexes
         /\ ChainOf(Pending, ceiling)
         /\ \A m \in Mutexes :
              /\ IsInjective(waiters[m])
              /\ Range(waiters[m]) = {t \in Threads : pc[t] = "asleep" /\ wants[t] = m}
              /\ Range(waiters[m]) = {t \in Threads : Pending[t] = m}
              /\ SortedBy(waiters[m], prio)
              /\ HeadKnown(waiters[m], prio, mprio[m], m \in Late)
         /\ Heeded(prio, mprio)
<1>1. 0..31 = Prios /\ 0..31 \cup {NoPrio} = MPrios /\ Ceilings \cup {NoPrio} \subseteq MPrios
  BY PrioAssumption DEF Prios, MPrios
<1>2. /\ owner \in [Mutexes -> Threads \cup {NoThread}]
      /\ waiters \in [Mutexes -> Seq(Threads)]
      /\ mprio \in [Mutexes -> MPrios] /\ prio \in [Threads -> Prios]
      /\ ceiling \in [Mutexes -> MPrios]
  BY <1>1 DEF IInv, TypeOK
<1>3. \A t \in Threads : /\ pc[t] = "run" <=> wants[t] = NoMutex
                         /\ wants[t] \in Mutexes \cup {NoMutex}
                         /\ Pending[t] = IF pc[t] = "asleep" THEN wants[t] ELSE NoMutex
                         /\ pc[t] = "asleep" => owner[wants[t]] \in Threads \ {t}
  BY DEF IInv, TypeOK, Places, Pending
<1>4. NoMutex \notin Mutexes
  BY NamesAssumption
<1>5. Pending \in [Threads -> Mutexes \cup {NoMutex}]
  BY <1>3 DEF Pending
<1>6. \A t \in Threads : /\ Pending[t] # NoMutex <=> pc[t] = "asleep"
                         /\ pc[t] = "asleep" => Pending[t] = wants[t]
                         /\ pc[t] # "run" => wants[t] \in Mutexes
                         /\ \A m \in Mutexes : Pending[t] = m <=> pc[t] = "asleep" /\ wants[t] = m
  BY <1>3, <1>4
<1>7. ChainOf(Pending, ceiling)
  BY <1>2, <1>3, <1>5, <1>6 DEF ChainOf
<1>8. /\ Heeded(prio, mprio) /\ Listed(waiters, Pending)
      /\ \A m \in Mutexes : /\ SortedBy(waiters[m], prio)
                            /\ HeadKnown(waiters[m], prio, mprio[m], m \in Late)
  BY DEF IInv, Settled, Now, InOrder
<1>9. ASSUME NEW m \in Mutexes
      PROVE  {t \in Threads : pc[t] = "asleep" /\ wants[t] = m} = {t \in Threads : Pending[t] = m}
  BY <1>6
<1> QED
  BY <1>2, <1>5, <1>6, <1>7, <1>8, <1>9 DEF Listed

(* The priorities are numbers.                                             *)
LEMMA InvNumbers ==
  ASSUME IInv
  PROVE  /\ \A t \in Threads : prio[t] \in Nat /\ prio[t] \in Prios /\ prio[t] < NoPrio
         /\ \A m \in Mutexes : /\ mprio[m] \in Nat /\ mprio[m] <= NoPrio
                               /\ ceiling[m] \in Nat /\ ceiling[m] <= NoPrio
<1>1. \A x \in MPrios : x \in Nat /\ x <= NoPrio
  BY DEF MPrios, Prios, NoPrio
<1> QED
  BY <1>1, InvFacts, PriosAreNumbers

(* A list stays in order where the priorities of its threads stay.         *)
LEMMA InOrderSame ==
  ASSUME NEW s, NEW s2, NEW m, NEW late, NEW late2, s.waiters[m] \in Seq(Threads),
         s2.waiters[m] = s.waiters[m], s2.mprio[m] = s.mprio[m],
         \A u \in Range(s.waiters[m]) : s2.prio[u] = s.prio[u],
         m \in late => m \in late2, InOrder(s, m, late)
  PROVE  InOrder(s2, m, late2)
<1>1. /\ SortedBy(s.waiters[m], s.prio) <=> SortedBy(s.waiters[m], s2.prio)
      /\ HeadPrio(s.waiters[m], s.prio) = HeadPrio(s.waiters[m], s2.prio)
  BY SortedSame
<1> QED
  BY <1>1 DEF InOrder, HeadKnown

(* What is settled for the next lists and priorities is so in the next     *)
(* state.                                                                  *)
LEMMA SettledNext ==
  ASSUME NEW s, waiters' = s.waiters, mprio' = s.mprio, prio' = s.prio,
         Listed(s.waiters, Pending'), \A m \in Mutexes : InOrder(s, m, Late'),
         Heeded(prio, mprio)'
  PROVE  Settled(Now, Pending, Late)'
<1>1. Now'.waiters = s.waiters /\ Now'.mprio = s.mprio /\ Now'.prio = s.prio
  BY DEF Now
<1>2. \A m \in Mutexes : InOrder(Now', m, Late')
  BY <1>1 DEF InOrder
<1>3. Listed(waiters', Pending')
  OBVIOUS
<1> QED
  BY <1>1, <1>2, <1>3 DEF Settled

(* Nobody owns, waits or is late at first.                                 *)
LEMMA InitInv == Init => IInv
<1> SUFFICES ASSUME Init
             PROVE  IInv
  OBVIOUS
<1>1. 0 \in 0..HoldMax
  BY PrioAssumption
<1>2. TypeOK
  BY <1>1, PrioAssumption DEF Init, TypeOK, Ready
<1>3. Places /\ Counted
  BY NamesAssumption DEF Init, Places, Counted
<1>4. << >> \in Seq(Threads) /\ Range(<< >>) = {} /\ IsInjective(<< >>) /\ Len(<< >>) = 0
  BY DEF Range, IsInjective
<1>5. Listed(waiters, Pending)
  BY <1>4, NamesAssumption DEF Init, Listed, Pending
<1>6. Heeded(prio, mprio)
  BY DEF Init, Heeded
<1>7. \A m \in Mutexes : InOrder(Now, m, Late)
  <2>1. 1..0 = {}
    OBVIOUS
  <2> QED
    BY <1>4, <2>1 DEF Init, Now, InOrder, SortedBy, HeadKnown, HeadPrio
<1> QED
  BY <1>2, <1>3, <1>5, <1>6, <1>7 DEF IInv, Settled, Now

-----------------------------------------------------------------------------
(* Each action keeps it, and boosts nobody.                                *)

Keeps == IInv' /\ Boosted' \subseteq Boosted

(* Where no list and no priority changes, all stays settled.               *)
LEMMA Unmoved ==
  ASSUME IInv, UNCHANGED << owner, ceiling, mprio, waiters, prio >>,
         Pending' = Pending, Late \subseteq Late'
  PROVE  Settled(Now, Pending, Late)' /\ Boosted' = Boosted
<1>1. \A m \in Mutexes : InOrder(Now, m, Late')
  BY DEF IInv, Settled, InOrder, HeadKnown
<1>2. Heeded(prio, mprio)' /\ Listed(waiters, Pending')
  BY InvFacts DEF Heeded, IInv, Settled, Now
<1>3. Settled(Now, Pending, Late)'
  BY <1>1, <1>2, SettledNext DEF Now
<1>4. Boosted' = Boosted
  BY DEF Boosted, TakenBy, MutexPriority
<1> QED
  BY <1>3, <1>4

(* The count of holds changes, and stays above zero and within the bound.  *)
LEMMA KeepsHold ==
  ASSUME IInv, NEW t \in Threads, NEW m \in Mutexes, TakeAgain(t, m) \/ ReleaseOne(t, m)
  PROVE  Keeps
<1>1. /\ UNCHANGED << owner, ceiling, mprio, waiters, prio, pc, wants, timed >>
      /\ owner[m] = t /\ hold[m] \in 0..HoldMax /\ HoldMax \in Nat
  BY PrioAssumption DEF TakeAgain, ReleaseOne, IInv, TypeOK
<1>2. PICK h \in 1..HoldMax : hold' = [hold EXCEPT ![m] = h]
  <2>1. hold[m] + 1 \in 1..HoldMax \/ ~(hold[m] < HoldMax)
    BY <1>1
  <2>2. hold[m] - 1 \in 1..HoldMax \/ ~(hold[m] > 1)
    BY <1>1
  <2> QED
    BY <2>1, <2>2 DEF TakeAgain, ReleaseOne
<1>3. TypeOK'
  BY <1>1, <1>2 DEF IInv, TypeOK
<1>4. Places' /\ Counted'
  <2>1. t # NoThread
    BY NamesAssumption
  <2> QED
    BY <1>1, <1>2, <2>1 DEF IInv, Places, Counted, TypeOK
<1>5. Pending' = Pending /\ Late' = Late
  BY <1>1 DEF Pending, Late
<1> QED
  BY <1>1, <1>3, <1>4, <1>5, Unmoved DEF IInv, Keeps

(* Who was handed the mutex goes on.                                       *)
LEMMA KeepsResumeOwner ==
  ASSUME IInv, NEW t \in Threads, ResumeOwner(t)
  PROVE  Keeps
<1>1. /\ pc[t] = "handed" /\ pc' = [pc EXCEPT ![t] = "run"] /\ wants' = [wants EXCEPT ![t] = NoMutex]
      /\ UNCHANGED << owner, hold, ceiling, mprio, waiters, prio, timed >>
      /\ pc \in [Threads -> {"run", "asleep"} \cup Ready]
      /\ wants \in [Threads -> Mutexes \cup {NoMutex}]
  BY DEF ResumeOwner, mutexVars, IInv, TypeOK
<1>2. TypeOK'
  BY <1>1 DEF IInv, TypeOK
<1>3. Places' /\ Counted'
  BY <1>1 DEF IInv, Places, Counted
<1>4. Pending' = Pending
  BY <1>1 DEF Pending
<1>5. Late' = Late
  BY <1>1 DEF Late
<1> QED
  BY <1>1, <1>2, <1>3, <1>4, <1>5, Unmoved DEF IInv, Keeps

(* A list that gets shorter gets no more urgent.                           *)
LEMMA ShorterHead ==
  ASSUME NEW list \in Seq(Threads), NEW list2 \in Seq(Threads), NEW pr \in [Threads -> Prios],
         SortedBy(list, pr), Range(list2) \subseteq Range(list)
  PROVE  HeadPrio(list, pr) <= HeadPrio(list2, pr)
<1>1. HeadPrio(list, pr) \in MPrios /\ \A u \in Range(list) : HeadPrio(list, pr) <= pr[u]
  BY SortedHead
<1>2. \A x \in MPrios : x <= NoPrio
  BY DEF MPrios, Prios, NoPrio
<1>3. CASE list2 = << >>
  BY <1>1, <1>2, <1>3 DEF HeadPrio
<1>4. CASE list2 # << >>
  <2>1. Head(list2) \in Range(list2) /\ HeadPrio(list2, pr) = pr[Head(list2)]
    BY <1>4, SortedHead
  <2> QED
    BY <1>1, <2>1
<1> QED
  BY <1>3, <1>4

(* The one whose time is up leaves its list, and the mutex is late.        *)
LEMMA KeepsTimeout ==
  ASSUME IInv, NEW t \in Threads, Timeout(t)
  PROVE  Keeps
<1> DEFINE m == wants[t]
           w == Without(waiters[m], {t})
           s == [waiters |-> waiters', mprio |-> mprio, prio |-> prio]
<1>1. /\ pc[t] = "asleep" /\ waiters' = [waiters EXCEPT ![m] = w]
      /\ pc' = [pc EXCEPT ![t] = "timedOut"] /\ timed' = [timed EXCEPT ![t] = FALSE]
      /\ UNCHANGED << owner, hold, ceiling, mprio, prio, wants >>
      /\ pc \in [Threads -> {"run", "asleep"} \cup Ready]
      /\ wants \in [Threads -> Mutexes \cup {NoMutex}] /\ waiters \in [Mutexes -> Seq(Threads)]
      /\ prio \in [Threads -> Prios]
  BY InvFacts DEF Timeout, IInv, TypeOK
<1>2. m \in Mutexes /\ owner[m] # t
  BY <1>1, InvFacts DEF IInv, Places
<1>3. /\ waiters[m] \in Seq(Threads) /\ IsInjective(waiters[m]) /\ SortedBy(waiters[m], prio)
      /\ HeadKnown(waiters[m], prio, mprio[m], m \in Late)
  BY <1>1, <1>2, InvFacts
<1> HIDE DEF m
<1>4. w \in Seq(Threads) /\ IsInjective(w) /\ Range(w) = Range(waiters[m]) \ {t} /\ SortedBy(w, prio)
  BY <1>3, WithoutList, WithoutSorted
<1> HIDE DEF w
<1>5. waiters' \in [Mutexes -> Seq(Threads)] /\ waiters'[m] = w /\ \A n \in Mutexes \ {m} : waiters'[n] = waiters[n]
  BY <1>1, <1>2, <1>4
<1>6. TypeOK'
  BY <1>1, <1>5 DEF IInv, TypeOK, Ready
<1>7. Places' /\ Counted'
  BY <1>1, <1>2 DEF IInv, Places, Counted, m
<1>8. /\ Pending' = [Pending EXCEPT ![t] = NoMutex] /\ Pending[t] = m
      /\ Pending \in [Threads -> Mutexes \cup {NoMutex}] /\ NoMutex \notin Mutexes
  BY <1>1, NamesAssumption, InvFacts DEF Pending, m
<1>9. m \in Late' /\ Late \subseteq Late'
  BY <1>1, <1>2 DEF Late, m
<1>10. Listed(waiters', Pending')
  <2>1. ASSUME NEW n \in Mutexes
        PROVE  IsInjective(waiters'[n]) /\ Range(waiters'[n]) = {u \in Threads : Pending'[u] = n}
    <3>1. IsInjective(waiters[n]) /\ Range(waiters[n]) = {u \in Threads : Pending[u] = n}
      BY InvFacts
    <3>2. {u \in Threads : Pending'[u] = n} = {u \in Threads : Pending[u] = n} \ {t}
      BY <1>8
    <3> QED
      BY <1>4, <1>5, <1>8, <3>1, <3>2
  <2> QED
    BY <2>1 DEF Listed
<1>11. ASSUME NEW n \in Mutexes PROVE InOrder(s, n, Late')
  <2>1. s.waiters = waiters' /\ s.prio = prio /\ s.mprio = mprio
    OBVIOUS
  <2> HIDE DEF s
  <2>2. CASE n = m
    <3>1. HeadPrio(waiters[m], prio) <= HeadPrio(w, prio)
      BY <1>1, <1>3, <1>4, ShorterHead
    <3>2. /\ HeadPrio(waiters[m], prio) \in Nat /\ HeadPrio(w, prio) \in Nat /\ mprio[m] \in Nat
      <4>1. \A x \in MPrios : x \in Nat
        BY DEF MPrios, Prios, NoPrio
      <4>2. HeadPrio(waiters[m], prio) \in MPrios /\ HeadPrio(w, prio) \in MPrios
        BY <1>1, <1>3, <1>4, SortedHead
      <4> QED
        BY <1>2, <4>1, <4>2, InvNumbers
    <3>3. HeadKnown(w, prio, mprio[m], TRUE)
      BY <1>3, <3>1, <3>2 DEF HeadKnown
    <3> QED
      BY <1>4, <1>5, <1>9, <2>1, <2>2, <3>3 DEF InOrder, HeadKnown
  <2>3. CASE n # m
    <3>1. SortedBy(waiters[n], prio) /\ HeadKnown(waiters[n], prio, mprio[n], n \in Late)
      BY InvFacts
    <3> QED
      BY <1>5, <1>9, <2>1, <2>3, <3>1 DEF InOrder, HeadKnown
  <2> QED
    BY <2>2, <2>3
<1>12. Heeded(prio, mprio)'
  BY <1>1, InvFacts DEF Heeded
<1>13. Settled(Now, Pending, Late)'
  BY <1>1, <1>10, <1>11, <1>12, SettledNext
<1>14. Boosted' = Boosted
  BY <1>1 DEF Boosted, TakenBy, MutexPriority
<1> QED
  BY <1>6, <1>7, <1>13, <1>14 DEF IInv, Keeps
LEMMA MinOfTwo ==
  ASSUME NEW a \in Nat, NEW b \in Nat
  PROVE  Min({a, b}) \in {a, b} /\ Min({a, b}) <= a /\ Min({a, b}) <= b
  BY LeastOf

(* Nobody waits for a mutex that is free.                                  *)
LEMMA FreeHasNoWaiters ==
  ASSUME IInv, NEW m \in Mutexes, owner[m] = NoThread
  PROVE  waiters[m] = << >> /\ \A u \in Threads : pc[u] = "asleep" => wants[u] # m
<1>1. \A u \in Threads : pc[u] = "asleep" => wants[u] # m
  BY NamesAssumption DEF IInv, Places
<1>2. Range(waiters[m]) = {} /\ waiters[m] \in Seq(Threads)
  BY <1>1, InvFacts
<1>3. waiters[m] # << >> => Head(waiters[m]) \in Range(waiters[m])
  BY <1>2, TailRange
<1> QED
  BY <1>1, <1>2, <1>3

(* A thread that runs is on no list.                                       *)
LEMMA RunnerNotListed ==
  ASSUME IInv, NEW t \in Threads, pc[t] = "run", NEW n \in Mutexes
  PROVE  t \notin Range(waiters[n])
  BY InvFacts

(* The new owner runs at the ceiling, if that is higher, and heeds it.     *)
LEMMA KeepsTakeFree ==
  ASSUME IInv, NEW t \in Threads, NEW m \in Mutexes, TakeFree(t, m)
  PROVE  Keeps
<1> DEFINE p == Min({prio[t], ceiling[m]})
           s == [waiters |-> waiters, mprio |-> mprio', prio |-> prio']
<1>1. /\ pc[t] = "run" /\ owner[m] = NoThread /\ owner' = [owner EXCEPT ![m] = t]
      /\ hold' = [hold EXCEPT ![m] = 1] /\ mprio' = [mprio EXCEPT ![m] = NoPrio]
      /\ prio' = [prio EXCEPT ![t] = p]
      /\ UNCHANGED << ceiling, waiters, pc, wants, timed >>
  BY DEF TakeFree
<1>2. /\ owner \in [Mutexes -> Threads \cup {NoThread}] /\ prio \in [Threads -> Prios]
      /\ mprio \in [Mutexes -> MPrios] /\ ceiling \in [Mutexes -> MPrios]
      /\ \A u \in Threads : prio[u] \in Nat /\ prio[u] < NoPrio
      /\ \A n \in Mutexes : /\ mprio[n] \in Nat /\ mprio[n] <= NoPrio
                            /\ ceiling[n] \in Nat /\ ceiling[n] <= NoPrio
  BY InvFacts, InvNumbers
<1>3. p \in {prio[t], ceiling[m]} /\ p <= prio[t] /\ p <= ceiling[m] /\ p \in Nat
  BY <1>2, MinOfTwo
<1> HIDE DEF p
<1>4. p \in Prios
  <2>1. \A x \in MPrios : x < NoPrio => x \in Prios
    BY DEF MPrios, Prios, NoPrio
  <2>2. p \in MPrios /\ p < NoPrio
    BY <1>2, <1>3 DEF MPrios, NoPrio
  <2> QED
    BY <2>1, <2>2
<1>5. /\ owner'[m] = t /\ mprio'[m] = NoPrio /\ prio'[t] = p
      /\ \A n \in Mutexes \ {m} : owner'[n] = owner[n] /\ mprio'[n] = mprio[n]
      /\ \A u \in Threads \ {t} : prio'[u] = prio[u]
      /\ mprio' \in [Mutexes -> MPrios] /\ prio' \in [Threads -> Prios]
      /\ owner' \in [Mutexes -> Threads \cup {NoThread}] /\ t # NoThread
  BY <1>1, <1>2, <1>4, NamesAssumption DEF MPrios
<1>6. TypeOK'
  <2>1. 0..31 = Prios /\ 0..31 \cup {NoPrio} = MPrios /\ 1 \in 0..HoldMax
    BY PrioAssumption DEF Prios, MPrios
  <2> QED
    BY <1>1, <1>5, <2>1 DEF IInv, TypeOK
<1>7. Places' /\ Counted'
  <2>1. Counted'
    BY <1>1, <1>5 DEF IInv, Counted, TypeOK
  <2>2. Places'
    BY <1>1, <1>5, NamesAssumption DEF IInv, Places, TypeOK
  <2> QED
    BY <2>1, <2>2
<1>8. Pending' = Pending /\ Late' = Late
  BY <1>1 DEF Pending, Late
<1>9. waiters[m] = << >>
  BY <1>1, FreeHasNoWaiters
<1>10. ASSUME NEW n \in Mutexes PROVE InOrder(s, n, Late')
  <2>1. s.waiters = waiters /\ s.prio = prio' /\ s.mprio = mprio'
    OBVIOUS
  <2> HIDE DEF s
  <2>2. CASE n = m
    <3>1. 1..Len(waiters[m]) = {}
      BY <1>9
    <3> QED
      BY <1>5, <1>9, <2>1, <2>2, <3>1 DEF InOrder, SortedBy, HeadKnown, HeadPrio
  <2>3. CASE n # m
    <3>1. waiters[n] \in Seq(Threads) /\ Range(waiters[n]) \subseteq Threads /\ t \notin Range(waiters[n])
      BY <1>1, InvFacts, RunnerNotListed
    <3>2. InOrder(Now, n, Late)
      BY DEF IInv, Settled
    <3>3. Now.waiters = waiters /\ Now.prio = prio /\ Now.mprio = mprio
      BY DEF Now
    <3>4. \A u \in Range(waiters[n]) : prio'[u] = prio[u]
      BY <1>5, <3>1
    <3>5. mprio'[n] = mprio[n]
      BY <1>5, <2>3
    <3> QED
      BY <1>8, <2>1, <3>1, <3>2, <3>3, <3>4, <3>5, InOrderSame
  <2> QED
    BY <2>2, <2>3
<1>11. Heeded(prio, mprio)'
  <2>1. ASSUME NEW n \in Mutexes, owner'[n] # NoThread PROVE prio'[owner'[n]] <= mprio'[n]
    <3>1. CASE n = m
      <4>1. p <= ceiling[m] /\ ceiling[m] <= NoPrio /\ p \in Nat /\ ceiling[m] \in Nat /\ NoPrio \in Nat
        BY <1>2, <1>3 DEF NoPrio
      <4>2. p <= NoPrio
        BY <4>1
      <4> QED
        BY <1>5, <3>1, <4>2
    <3>2. CASE n # m
      <4>1. owner'[n] = owner[n] /\ mprio'[n] = mprio[n] /\ owner[n] \in Threads /\ prio[owner[n]] <= mprio[n]
        BY <1>2, <1>5, <2>1, <3>2, InvFacts DEF Heeded
      <4>2. CASE owner[n] = t
        <5>1. prio'[owner'[n]] = p /\ p <= prio[t] /\ prio[t] <= mprio[n] /\ mprio'[n] = mprio[n]
          BY <1>3, <1>5, <4>1, <4>2
        <5>2. p \in Nat /\ prio[t] \in Nat /\ mprio[n] \in Nat
          BY <1>2, <1>3
        <5> QED
          BY <5>1, <5>2
      <4>3. CASE owner[n] # t
        BY <1>5, <4>1, <4>3
      <4> QED
        BY <4>2, <4>3
    <3> QED
      BY <3>1, <3>2
  <2> QED
    BY <2>1 DEF Heeded
<1>12. Settled(Now, Pending, Late)'
  <2>1. Listed(waiters, Pending')
    BY <1>8 DEF IInv, Settled, Now
  <2> QED
    BY <1>1, <1>10, <1>11, <2>1, SettledNext
<1>13. ASSUME NEW u \in Boosted' PROVE u \in Boosted
  <2> DEFINE a == MutexPriority(u, TakenBy(u), mprio, ceiling)
             b == MutexPriority(u, TakenBy(u)', mprio', ceiling)
  <2>0. u \in Threads /\ TakenBy(u) \in SUBSET Mutexes /\ TakenBy(u)' \in SUBSET Mutexes
    BY DEF Boosted, TakenBy
  <2>1. prio'[u] < b
    BY <1>1 DEF Boosted, MutexPriority
  <2>2. m \notin TakenBy(u) /\ TakenBy(u) \subseteq TakenBy(u)'
    BY <1>1, <1>5, <2>0, NamesAssumption DEF TakenBy
  <2>3. b <= a
    <3>1. \A n \in TakenBy(u) : mprio'[n] <= mprio[n] /\ ceiling[n] <= ceiling[n]
      BY <1>2, <1>5, <2>0, <2>2
    <3> QED
      BY <1>2, <1>5, <2>0, <2>2, <3>1, MutexPriorityGrows
  <2>4. a \in Nat /\ b \in Nat /\ \A n \in TakenBy(u)' : b <= ceiling[n]
    BY <1>2, <1>5, <2>0, MutexPriorityIs
  <2> HIDE DEF a, b
  <2>5. prio[u] < a
    <3>1. CASE u # t
      <4>1. prio'[u] = prio[u] /\ prio[u] \in Nat
        BY <1>2, <1>5, <2>0, <3>1
      <4> QED
        BY <2>1, <2>3, <2>4, <4>1
    <3>2. CASE u = t
      <4>1. m \in TakenBy(u)'
        BY <1>5, <3>2 DEF TakenBy
      <4>2. b <= ceiling[m] /\ p < b
        BY <1>5, <2>1, <2>4, <3>2, <4>1
      <4>3. p = prio[t]
        BY <1>2, <1>3, <2>4, <4>2
      <4> QED
        BY <1>2, <2>3, <2>4, <3>2, <4>2, <4>3
    <3> QED
      BY <3>1, <3>2
  <2> QED
    BY <2>0, <2>5 DEF a, Boosted
<1> QED
  BY <1>6, <1>7, <1>12, <1>13 DEF IInv, Keeps
(* The head of the list with one thread more: the old head or that thread. *)
LEMMA EnqueueHead ==
  ASSUME NEW list \in Seq(Threads), NEW t \in Threads, NEW pr \in [Threads -> Prios],
         SortedBy(list, pr)
  PROVE  HeadPrio(Enqueue(list, t, pr), pr) = Min({HeadPrio(list, pr), pr[t]})
<1> DEFINE q == Enqueue(list, t, pr)
           a == HeadPrio(list, pr)
           b == HeadPrio(q, pr)
<1>1. q \in Seq(Threads) /\ q # << >> /\ Range(q) = Range(list) \cup {t} /\ SortedBy(q, pr)
  BY EnqueueSorts
<1> HIDE DEF q
<1>2. \A x \in MPrios : x \in Nat /\ x <= NoPrio
  BY DEF MPrios, Prios, NoPrio
<1>3. \A u \in Threads : pr[u] \in Nat /\ pr[u] < NoPrio
  BY PriosAreNumbers
<1>4. a \in Nat /\ a <= NoPrio /\ \A u \in Range(list) : a <= pr[u]
  BY <1>2, SortedHead
<1>5. list # << >> => a = pr[Head(list)] /\ Head(list) \in Range(list)
  BY SortedHead
<1>6. list = << >> => a = NoPrio
  BY DEF HeadPrio
<1>7. b \in Nat /\ b = pr[Head(q)] /\ Head(q) \in Range(q) /\ \A u \in Range(q) : b <= pr[u]
  BY <1>1, <1>2, SortedHead
<1> HIDE DEF a, b
<1>8. b <= pr[t]
  BY <1>1, <1>7
<1>9. b <= a
  <2>1. CASE list = << >>
    BY <1>3, <1>6, <1>7, <1>8, <2>1 DEF NoPrio
  <2>2. CASE list # << >>
    BY <1>1, <1>5, <1>7, <2>2
  <2> QED
    BY <2>1, <2>2
<1>10. b = pr[t] \/ b >= a
  BY <1>1, <1>4, <1>7
<1>11. Min({a, pr[t]}) \in {a, pr[t]} /\ Min({a, pr[t]}) <= a /\ Min({a, pr[t]}) <= pr[t]
  BY <1>3, <1>4, MinOfTwo
<1>12. b = Min({a, pr[t]})
  <2> DEFINE x == Min({a, pr[t]})
  <2>1. x \in {a, pr[t]} /\ x <= a /\ x <= pr[t]
    BY <1>11
  <2> HIDE DEF x
  <2>2. b = x
    BY <1>3, <1>4, <1>7, <1>8, <1>9, <1>10, <2>1
  <2> QED
    BY <2>2 DEF x
<1> QED
  BY <1>12 DEF a, b, q

(* The waiter is queued and the mutex raised: all is in order but, maybe,  *)
(* that the owner heeds it.                                                *)
LEMMA QueuedInOrder ==
  ASSUME IInv, NEW t \in Threads, pc[t] = "run", NEW m \in Mutexes, owner[m] \in Threads \ {t}
  PROVE  LET queued == [waiters EXCEPT ![m] = Enqueue(@, t, prio)]
             raised == [mprio EXCEPT ![m] = Min({@, prio[t]})]
             pend   == [Pending EXCEPT ![t] = m]
         IN  /\ queued \in [Mutexes -> Seq(Threads)] /\ raised \in [Mutexes -> MPrios]
             /\ ChainOf(pend, ceiling) /\ Listed(queued, pend)
             /\ \A n \in Mutexes :
                  InOrder([waiters |-> queued, mprio |-> raised, prio |-> prio], n, Late)
             /\ \A n \in Mutexes \ {m} : raised[n] = mprio[n]
             /\ raised[m] = (IF prio[t] < mprio[m] THEN prio[t] ELSE mprio[m])
<1> DEFINE q == Enqueue(waiters[m], t, prio)
           r == Min({mprio[m], prio[t]})
           queued == [waiters EXCEPT ![m] = q]
           raised == [mprio EXCEPT ![m] = r]
           pend   == [Pending EXCEPT ![t] = m]
           s == [waiters |-> queued, mprio |-> raised, prio |-> prio]
<1>1. /\ waiters \in [Mutexes -> Seq(Threads)] /\ mprio \in [Mutexes -> MPrios]
      /\ prio \in [Threads -> Prios] /\ Pending \in [Threads -> Mutexes \cup {NoMutex}]
      /\ prio[t] \in Nat /\ mprio[m] \in Nat /\ mprio[m] \in MPrios /\ prio[t] \in MPrios
  BY InvFacts, InvNumbers DEF MPrios
<1>2. /\ IsInjective(waiters[m]) /\ Range(waiters[m]) = {u \in Threads : Pending[u] = m}
      /\ SortedBy(waiters[m], prio) /\ HeadKnown(waiters[m], prio, mprio[m], m \in Late)
      /\ t \notin Range(waiters[m])
  BY InvFacts, RunnerNotListed
<1>3. /\ q \in Seq(Threads) /\ Range(q) = Range(waiters[m]) \cup {t} /\ IsInjective(q) /\ SortedBy(q, prio)
      /\ HeadPrio(q, prio) = Min({HeadPrio(waiters[m], prio), prio[t]})
  BY <1>1, <1>2, EnqueueSorts, EnqueueHead
<1>4. r \in {mprio[m], prio[t]} /\ r <= mprio[m] /\ r <= prio[t]
  BY <1>1, MinOfTwo
<1> HIDE DEF q, r
<1>5. /\ queued \in [Mutexes -> Seq(Threads)] /\ queued[m] = q
      /\ \A n \in Mutexes \ {m} : queued[n] = waiters[n]
      /\ raised \in [Mutexes -> MPrios] /\ raised[m] = r
      /\ \A n \in Mutexes \ {m} : raised[n] = mprio[n]
  BY <1>1, <1>3, <1>4
<1>6. /\ pend \in [Threads -> Mutexes \cup {NoMutex}] /\ pend[t] = m
      /\ \A u \in Threads \ {t} : pend[u] = Pending[u]
      /\ Pending[t] = NoMutex /\ NoMutex \notin Mutexes
  BY <1>1, InvFacts, NamesAssumption
<1> HIDE DEF queued, raised, pend
<1>7. ChainOf(pend, ceiling)
  BY <1>6, InvFacts DEF ChainOf
<1>8. Listed(queued, pend)
  <2>1. ASSUME NEW n \in Mutexes
        PROVE  IsInjective(queued[n]) /\ Range(queued[n]) = {u \in Threads : pend[u] = n}
    <3>1. CASE n = m
      <4>1. {u \in Threads : pend[u] = m} = {u \in Threads : Pending[u] = m} \cup {t}
        BY <1>6
      <4> QED
        BY <1>2, <1>3, <1>5, <3>1, <4>1
    <3>2. CASE n # m
      <4>1. {u \in Threads : pend[u] = n} = {u \in Threads : Pending[u] = n}
        BY <1>6, <3>2
      <4> QED
        BY <1>5, <3>2, <4>1, InvFacts
    <3> QED
      BY <3>1, <3>2
  <2> QED
    BY <2>1 DEF Listed
<1>9. ASSUME NEW n \in Mutexes PROVE InOrder(s, n, Late)
  <2>1. s.waiters = queued /\ s.prio = prio /\ s.mprio = raised
    OBVIOUS
  <2> HIDE DEF s
  <2>2. CASE n = m
    <3> DEFINE a == HeadPrio(waiters[m], prio)
               b == HeadPrio(q, prio)
    <3>1. a \in Nat
      <4>1. a \in MPrios
        BY <1>1, SortedHead
      <4> QED
        BY <4>1 DEF MPrios, Prios, NoPrio
    <3>2. b \in {a, prio[t]} /\ b <= a /\ b <= prio[t]
      BY <1>1, <1>3, <3>1, MinOfTwo
    <3>3. mprio[m] # a => mprio[m] < a /\ m \in Late
      BY <1>2 DEF HeadKnown
    <3> HIDE DEF a, b
    <3>4. r # b => r < b /\ m \in Late
      BY <1>1, <1>4, <3>1, <3>2, <3>3
    <3> QED
      BY <1>3, <1>5, <2>1, <2>2, <3>4 DEF InOrder, HeadKnown, b
  <2>3. CASE n # m
    <3>1. SortedBy(waiters[n], prio) /\ HeadKnown(waiters[n], prio, mprio[n], n \in Late)
      BY InvFacts
    <3> QED
      BY <1>5, <2>1, <2>3, <3>1 DEF InOrder, HeadKnown
  <2> QED
    BY <2>2, <2>3
<1>10. raised[m] = (IF prio[t] < mprio[m] THEN prio[t] ELSE mprio[m])
  BY <1>1, <1>4, <1>5
<1> QED
  BY <1>5, <1>7, <1>8, <1>9, <1>10 DEF queued, raised, pend, q, r
(* The waiter raises the owner, and all along the chain is set right.      *)
LEMMA KeepsTakeWait ==
  ASSUME IInv, NEW t \in Threads, NEW m \in Mutexes, NEW withTimeout \in BOOLEAN,
         TakeWait(t, m, withTimeout)
  PROVE  Keeps
<1> DEFINE o == owner[m]
           queued == [waiters EXCEPT ![m] = Enqueue(@, t, prio)]
           raised == [mprio EXCEPT ![m] = Min({@, prio[t]})]
           pend == [Pending EXCEPT ![t] = m]
           upd == Updated(o, prio[t], queued, raised, ceiling, pend)
           s == [waiters |-> waiters', mprio |-> mprio', prio |-> prio']
<1>1. /\ pc[t] = "run" /\ o \in Threads \ {t}
      /\ IF prio[t] < mprio[m] /\ prio[t] < prio[o]
           THEN SetPriorities(upd)
           ELSE waiters' = queued /\ mprio' = raised /\ UNCHANGED prio
      /\ pc' = [pc EXCEPT ![t] = "asleep"] /\ wants' = [wants EXCEPT ![t] = m]
      /\ timed' = [timed EXCEPT ![t] = withTimeout]
      /\ UNCHANGED << owner, hold, ceiling >>
  BY DEF TakeWait
<1>2. /\ queued \in [Mutexes -> Seq(Threads)] /\ raised \in [Mutexes -> MPrios]
      /\ ChainOf(pend, ceiling) /\ Listed(queued, pend)
      /\ \A n \in Mutexes :
           InOrder([waiters |-> queued, mprio |-> raised, prio |-> prio], n, Late)
      /\ \A n \in Mutexes \ {m} : raised[n] = mprio[n]
      /\ raised[m] = (IF prio[t] < mprio[m] THEN prio[t] ELSE mprio[m])
  BY <1>1, QueuedInOrder
<1>3. /\ prio \in [Threads -> Prios] /\ mprio \in [Mutexes -> MPrios] /\ ceiling \in [Mutexes -> MPrios]
      /\ \A u \in Threads : prio[u] \in Nat /\ prio[u] \in Prios
      /\ \A n \in Mutexes : mprio[n] \in Nat /\ ceiling[n] \in Nat
      /\ owner \in [Mutexes -> Threads \cup {NoThread}]
      /\ \A n \in Mutexes : owner[n] # NoThread => prio[owner[n]] <= mprio[n]
  BY InvFacts, InvNumbers DEF Heeded
<1>4. Pending' = pend
  BY <1>1, InvFacts DEF Pending, IInv, TypeOK
<1>5. Late' = Late
  BY <1>1, InvFacts DEF Late, IInv, TypeOK
<1>6. Boosted = BoostedIn(prio, mprio, ceiling)
  BY DEF Boosted, BoostedIn
<1> HIDE DEF o, queued, raised, pend
<1>0. raised \in [Mutexes -> MPrios] /\ mprio \in [Mutexes -> MPrios] /\ ceiling \in [Mutexes -> MPrios]
  BY <1>2, <1>3
<1>7. ASSUME NEW n \in Mutexes PROVE raised[n] <= mprio[n] /\ ceiling[n] <= ceiling[n]
  <2>1. CASE n = m
    BY <1>2, <1>3, <2>1
  <2>2. CASE n # m
    <3>1. raised[n] = mprio[n]
      BY <1>2, <2>2
    <3> QED
      BY <1>3, <3>1
  <2> QED
    BY <2>1, <2>2
<1>8. /\ s.waiters \in [Mutexes -> Seq(Threads)] /\ s.mprio \in [Mutexes -> MPrios]
      /\ s.prio \in [Threads -> Prios]
      /\ Settled(s, pend, Late) /\ BoostedIn(s.prio, s.mprio, ceiling) \subseteq Boosted
  <2>1. CASE prio[t] < mprio[m] /\ prio[t] < prio[o]
    <3> DEFINE pr == [prio EXCEPT ![o] = prio[t]]
    <3>1. /\ pr[o] = prio[t] /\ \A u \in Threads \ {o} : pr[u] = prio[u]
      BY <1>1, <1>3
    <3> HIDE DEF pr
    <3>2. Heeded(pr, raised)
      <4>1. ASSUME NEW n \in Mutexes, owner[n] # NoThread PROVE pr[owner[n]] <= raised[n]
        <5>1. owner[n] \in Threads /\ prio[owner[n]] <= mprio[n]
          BY <1>3, <4>1
        <5>2. CASE n = m
          <6>1. raised[m] = prio[t] /\ owner[n] = o
            BY <1>2, <2>1, <5>2 DEF o
          <6> QED
            BY <1>3, <3>1, <5>2, <6>1
        <5>3. CASE n # m /\ owner[n] = o
          BY <1>2, <1>3, <2>1, <3>1, <5>1, <5>3
        <5>4. CASE n # m /\ owner[n] # o
          BY <1>2, <3>1, <5>1, <5>4
        <5> QED
          BY <5>2, <5>3, <5>4
      <4> QED
        BY <4>1 DEF Heeded
    <3>3. BoostedIn(pr, raised, ceiling) \subseteq Boosted
      <4>1. ASSUME NEW u \in BoostedIn(pr, raised, ceiling) PROVE u \in Boosted
        <5>1. /\ u \in Threads /\ pr[u] < MutexPriority(u, TakenBy(u), raised, ceiling)
              /\ TakenBy(u) \in SUBSET Mutexes
          BY <4>1 DEF BoostedIn, TakenBy
        <5>2. u # o
          <6>1. /\ MutexPriority(o, TakenBy(o), raised, ceiling) <= prio[t]
                /\ MutexPriority(o, TakenBy(o), raised, ceiling) \in Nat
            <7>1. m \in TakenBy(o) /\ TakenBy(o) \in SUBSET Mutexes
              BY DEF TakenBy, o
            <7>2. raised[m] = prio[t]
              BY <1>2, <2>1
            <7>3. o \in Threads
              BY <1>1
            <7> QED
              BY <1>0, <7>1, <7>2, <7>3, MutexPriorityIs
          <6> QED
            BY <1>3, <3>1, <5>1, <6>1
        <5>3. pr[u] = prio[u] /\ prio[u] \in Nat /\ \A n \in TakenBy(u) : raised[n] <= mprio[n] /\ ceiling[n] <= ceiling[n]
          BY <1>3, <1>7, <3>1, <5>1, <5>2
        <5> QED
          BY <1>2, <1>3, <1>6, <4>1, <5>1, <5>3, NotBoosted
      <4> QED
        BY <4>1
    <3>4. /\ LoopType(upd) /\ Settled(upd, pend, Late)
          /\ BoostedIn(upd.prio, upd.mprio, ceiling) \subseteq Boosted
      <4>1. o \in Threads /\ prio[t] \in Prios
        BY <1>1, <1>3
      <4> HIDE DEF upd
      <4> QED
        BY <1>2, <1>3, <3>2, <3>3, <4>1, UpdatedSettles DEF pr, upd
    <3> HIDE DEF upd
    <3>5. s.waiters = upd.waiters /\ s.mprio = upd.mprio /\ s.prio = upd.prio
      BY <1>1, <2>1 DEF SetPriorities
    <3> HIDE DEF s
    <3> QED
      BY <3>4, <3>5 DEF LoopType, Settled, InOrder
  <2>2. CASE ~(prio[t] < mprio[m] /\ prio[t] < prio[o])
    <3>1. s.waiters = queued /\ s.mprio = raised /\ s.prio = prio
      BY <1>1, <2>2
    <3>2. Heeded(prio, raised)
      <4>1. ASSUME NEW n \in Mutexes, owner[n] # NoThread PROVE prio[owner[n]] <= raised[n]
        <5>1. owner[n] \in Threads /\ prio[owner[n]] <= mprio[n] /\ prio[owner[n]] \in Nat
          BY <1>3, <4>1
        <5>2. CASE n = m
          BY <1>2, <1>3, <2>2, <5>1, <5>2 DEF o
        <5>3. CASE n # m
          BY <1>2, <5>1, <5>3
        <5> QED
          BY <5>2, <5>3
      <4> QED
        BY <4>1 DEF Heeded
    <3>3. BoostedIn(prio, raised, ceiling) \subseteq Boosted
      <4>1. ASSUME NEW u \in BoostedIn(prio, raised, ceiling) PROVE u \in Boosted
        <5>1. u \in Threads /\ TakenBy(u) \in SUBSET Mutexes
          BY <4>1 DEF BoostedIn, TakenBy
        <5>2. prio[u] \in Nat /\ \A n \in TakenBy(u) : raised[n] <= mprio[n] /\ ceiling[n] <= ceiling[n]
          BY <1>3, <1>7, <5>1
        <5>3. u \in BoostedIn(prio, mprio, ceiling)
          BY <1>0, <4>1, <5>1, <5>2, NotBoosted
        <5> QED
          BY <1>6, <5>3
      <4> QED
        BY <4>1
    <3> HIDE DEF s
    <3> QED
      BY <1>2, <1>3, <3>1, <3>2, <3>3 DEF Settled, InOrder
  <2> QED
    BY <2>1, <2>2
<1>9. s.waiters = waiters' /\ s.mprio = mprio' /\ s.prio = prio'
  OBVIOUS
<1> HIDE DEF s, upd
<1>10. TypeOK'
  <2>1. 0..31 = Prios /\ 0..31 \cup {NoPrio} = MPrios
    BY DEF Prios, MPrios
  <2> QED
    BY <1>1, <1>8, <1>9, <2>1 DEF IInv, TypeOK
<1>11. Places' /\ Counted'
  <2>1. m # NoMutex
    BY NamesAssumption
  <2> QED
    BY <1>1, <2>1 DEF IInv, Places, Counted, TypeOK, o
<1>12. Heeded(prio, mprio)'
  BY <1>1, <1>8, <1>9 DEF Settled, Heeded
<1>13. Settled(Now, Pending, Late)'
  BY <1>4, <1>5, <1>8, <1>9, <1>12, SettledNext DEF Settled
<1>14. Boosted' \subseteq Boosted
  <2>1. Boosted' = BoostedIn(s.prio, s.mprio, ceiling)
    BY <1>1, <1>9 DEF Boosted, BoostedIn, TakenBy, MutexPriority
  <2> QED
    BY <1>8, <2>1
<1> QED
  BY <1>10, <1>11, <1>13, <1>14 DEF IInv, Keeps
(* Its way out does not keep Boosted: NeedUpdate may miss an owner.        *)
LEMMA KeepsResumeTimedOut ==
  ASSUME IInv, NEW t \in Threads, ResumeTimedOut(t)
  PROVE  IInv'
<1> DEFINE m == wants[t]
           o == owner[m]
           mp == [mprio EXCEPT ![m] = HeadPrio(waiters[m], prio)]
           p == MutexPriority(o, TakenBy(o), mp, ceiling)
           upd == Updated(o, p, waiters, mp, ceiling, Pending)
           s == [waiters |-> waiters', mprio |-> mprio', prio |-> prio']
           settled == [waiters |-> waiters, mprio |-> mp, prio |-> prio]
<1>1. /\ pc[t] = "timedOut" /\ m \in Mutexes
      /\ IF NeedUpdate(t, m) /\ p # prio[o]
           THEN SetPriorities(upd)
           ELSE mprio' = mp /\ UNCHANGED << prio, waiters >>
      /\ pc' = [pc EXCEPT ![t] = "run"] /\ wants' = [wants EXCEPT ![t] = NoMutex]
      /\ UNCHANGED << owner, hold, ceiling, timed >>
  BY InvFacts DEF ResumeTimedOut
<1>2. /\ prio \in [Threads -> Prios] /\ mprio \in [Mutexes -> MPrios] /\ ceiling \in [Mutexes -> MPrios]
      /\ waiters \in [Mutexes -> Seq(Threads)] /\ ChainOf(Pending, ceiling) /\ Listed(waiters, Pending)
      /\ owner \in [Mutexes -> Threads \cup {NoThread}]
      /\ \A n \in Mutexes : /\ SortedBy(waiters[n], prio)
                            /\ HeadKnown(waiters[n], prio, mprio[n], n \in Late)
      /\ \A n \in Mutexes : owner[n] # NoThread => prio[owner[n]] <= mprio[n]
  BY InvFacts DEF Heeded, Listed
<1>3. /\ pc \in [Threads -> {"run", "asleep"} \cup Ready] /\ wants \in [Threads -> Mutexes \cup {NoMutex}]
  BY DEF IInv, TypeOK
<1>4. Pending' = Pending
  BY <1>1, <1>3 DEF Pending
<1>5. Late \ {m} \subseteq Late'
  <2>1. ASSUME NEW n \in Late, n # m PROVE n \in Late'
    <3>1. n \in Mutexes
      BY DEF Late
    <3>2. PICK u \in Threads : pc[u] = "timedOut" /\ wants[u] = n
      BY DEF Late
    <3>3. pc'[u] = "timedOut" /\ wants'[u] = n
      BY <1>1, <1>3, <2>1, <3>2
    <3> QED
      BY <3>1, <3>3 DEF Late
  <2> QED
    BY <2>1
<1> HIDE DEF m
<1>6. HeadPrio(waiters[m], prio) \in MPrios
  BY <1>1, <1>2, SortedHead
<1>7. /\ mp \in [Mutexes -> MPrios] /\ mp[m] = HeadPrio(waiters[m], prio)
      /\ \A n \in Mutexes \ {m} : mp[n] = mprio[n]
  BY <1>1, <1>2, <1>6
<1> HIDE DEF mp
<1>8. ASSUME NEW n \in Mutexes PROVE InOrder(settled, n, Late')
  <2>1. HeadKnown(waiters[n], prio, mp[n], n \in Late')
    BY <1>2, <1>5, <1>7 DEF HeadKnown
  <2> QED
    BY <1>2, <2>1 DEF InOrder
<1>9. ASSUME NEW n \in Mutexes, owner[n] # NoThread PROVE prio[owner[n]] <= mp[n]
  <2>1. prio[owner[n]] <= mprio[n] /\ owner[n] \in Threads
    BY <1>2, <1>9
  <2>2. CASE n # m
    BY <1>7, <2>1, <2>2
  <2>3. CASE n = m
    <3>1. mprio[m] = mp[m] \/ mprio[m] < mp[m]
      BY <1>1, <1>2, <1>7 DEF HeadKnown
    <3>2. prio[owner[n]] \in Nat /\ mprio[m] \in Nat /\ mp[m] \in Nat
      <4>1. \A x \in MPrios : x \in Nat
        BY DEF MPrios, Prios, NoPrio
      <4> QED
        BY <1>1, <1>7, <2>1, <4>1, InvNumbers
    <3> QED
      BY <2>1, <2>3, <3>1, <3>2
  <2> QED
    BY <2>2, <2>3
<1>10. /\ s.waiters \in [Mutexes -> Seq(Threads)] /\ s.mprio \in [Mutexes -> MPrios]
       /\ s.prio \in [Threads -> Prios] /\ Settled(s, Pending, Late')
  <2>1. CASE NeedUpdate(t, m) /\ p # prio[o]
    <3> DEFINE pr == [prio EXCEPT ![o] = p]
    <3>1. o \in Threads
      BY <1>1, <1>2, <2>1 DEF NeedUpdate
    <3>2. /\ p \in Prios /\ \A n \in TakenBy(o) : p <= mp[n]
      <4>1. TakenBy(o) \in SUBSET Mutexes
        BY DEF TakenBy
      <4> HIDE DEF o
      <4> QED
        BY <1>2, <1>7, <3>1, <4>1, MutexPriorityIs
    <3> HIDE DEF p, o
    <3>3. pr[o] = p /\ \A u \in Threads \ {o} : pr[u] = prio[u]
      BY <1>2, <3>1
    <3> HIDE DEF pr
    <3>4. Heeded(pr, mp)
      <4>1. ASSUME NEW n \in Mutexes, owner[n] # NoThread PROVE pr[owner[n]] <= mp[n]
        <5>1. CASE owner[n] = o
          <6>1. n \in TakenBy(o)
            BY <5>1 DEF TakenBy
          <6> QED
            BY <3>2, <3>3, <5>1, <6>1
        <5>2. CASE owner[n] # o
          <6>1. owner[n] \in Threads
            BY <1>2, <4>1
          <6> QED
            BY <1>9, <3>3, <4>1, <5>2, <6>1
        <5> QED
          BY <5>1, <5>2
      <4> QED
        BY <4>1 DEF Heeded
    <3>5. BoostedIn(pr, mp, ceiling) \subseteq Threads
      BY DEF BoostedIn
    <3>6. LoopType(upd) /\ Settled(upd, Pending, Late')
      <4> HIDE DEF upd
      <4> QED
        BY <1>2, <1>7, <1>8, <3>1, <3>2, <3>4, <3>5, UpdatedSettles DEF pr, upd
    <3> HIDE DEF upd
    <3>7. s.waiters = upd.waiters /\ s.mprio = upd.mprio /\ s.prio = upd.prio
      BY <1>1, <2>1 DEF SetPriorities, p, o
    <3> HIDE DEF s
    <3> QED
      BY <3>6, <3>7 DEF LoopType, Settled, InOrder
  <2>2. CASE ~(NeedUpdate(t, m) /\ p # prio[o])
    <3>1. s.waiters = waiters /\ s.mprio = mp /\ s.prio = prio
      BY <1>1, <2>2
    <3>2. Heeded(prio, mp)
      BY <1>9 DEF Heeded
    <3>3. settled.waiters = waiters /\ settled.mprio = mp /\ settled.prio = prio
      OBVIOUS
    <3> HIDE DEF s, settled
    <3> QED
      BY <1>2, <1>7, <1>8, <3>1, <3>2, <3>3 DEF Settled, InOrder
  <2> QED
    BY <2>1, <2>2
<1>11. s.waiters = waiters' /\ s.mprio = mprio' /\ s.prio = prio'
  OBVIOUS
<1> HIDE DEF s, upd, settled
<1>12. TypeOK'
  <2>1. 0..31 = Prios /\ 0..31 \cup {NoPrio} = MPrios
    BY DEF Prios, MPrios
  <2> QED
    BY <1>1, <1>10, <1>11, <2>1 DEF IInv, TypeOK
<1>13. Places' /\ Counted'
  BY <1>1 DEF IInv, Places, Counted, TypeOK
<1>14. Heeded(prio, mprio)'
  BY <1>1, <1>10, <1>11 DEF Settled, Heeded
<1>15. Settled(Now, Pending, Late)'
  BY <1>4, <1>10, <1>11, <1>14, SettledNext DEF Settled
<1> QED
  BY <1>12, <1>13, <1>15 DEF IInv

(* A ceiling concerns the owner of the mutex, and the chain from there.    *)
LEMMA KeepsSetPrioCeiling ==
  ASSUME IInv, NEW t \in Threads, NEW m \in Mutexes, NEW c \in Ceilings, SetPrioCeiling(t, m, c)
  PROVE  Keeps
<1> DEFINE o == owner[m]
           cs == [ceiling EXCEPT ![m] = c]
           p == MutexPriority(o, TakenBy(o), mprio, cs)
           upd == Updated(o, p, waiters, mprio, cs, Pending)
           s == [waiters |-> waiters', mprio |-> mprio', prio |-> prio']
<1>1. /\ ceiling' = cs
      /\ IF o # NoThread /\ p # prio[o]
           THEN SetPriorities(upd)
           ELSE UNCHANGED << prio, waiters, mprio >>
      /\ UNCHANGED << owner, hold, pc, wants, timed >>
  BY DEF SetPrioCeiling
<1>2. /\ prio \in [Threads -> Prios] /\ mprio \in [Mutexes -> MPrios] /\ ceiling \in [Mutexes -> MPrios]
      /\ waiters \in [Mutexes -> Seq(Threads)] /\ ChainOf(Pending, ceiling) /\ Listed(waiters, Pending)
      /\ owner \in [Mutexes -> Threads \cup {NoThread}]
      /\ \A u \in Threads : prio[u] \in Nat
      /\ \A n \in Mutexes : mprio[n] \in Nat /\ ceiling[n] \in Nat
      /\ \A n \in Mutexes : owner[n] # NoThread => prio[owner[n]] <= mprio[n]
      /\ Heeded(prio, mprio)
  BY InvFacts, InvNumbers DEF Heeded, Listed
<1>3. c \in MPrios /\ c \in Ceilings
  BY PrioAssumption DEF MPrios, Prios
<1>4. /\ cs \in [Mutexes -> MPrios] /\ \A n \in Mutexes \ {m} : cs[n] = ceiling[n]
  BY <1>2, <1>3
<1>5. cs \in [Mutexes -> Ceilings \cup {NoPrio}]
  BY <1>3 DEF IInv, TypeOK
<1> HIDE DEF cs
<1>6. Pending' = Pending /\ Late' = Late
  BY <1>1 DEF Pending, Late
<1>7. ChainOf(Pending, cs)
  BY <1>2, <1>4 DEF ChainOf
<1>8. \A n \in Mutexes : InOrder([waiters |-> waiters, mprio |-> mprio, prio |-> prio], n, Late)
  BY DEF IInv, Settled, Now
<1>9. Boosted = BoostedIn(prio, mprio, ceiling)
  BY DEF Boosted, BoostedIn
(* A thread that does not own the mutex owes what it owed.                 *)
<1>10. ASSUME NEW u \in Threads, u # o, NEW pr, pr[u] = prio[u], u \in BoostedIn(pr, mprio, cs)
       PROVE  u \in Boosted
  <2>1. ASSUME NEW n \in TakenBy(u) PROVE mprio[n] <= mprio[n] /\ cs[n] <= ceiling[n]
    <3>1. n \in Mutexes \ {m}
      BY <1>10 DEF TakenBy
    <3> QED
      BY <1>2, <1>4, <3>1
  <2>2. u \in BoostedIn(prio, mprio, ceiling)
    BY <1>2, <1>4, <1>10, <2>1, NotBoosted
  <2> QED
    BY <1>9, <2>2
<1>11. o \in Threads => /\ p \in Prios /\ p \in Nat /\ \A n \in TakenBy(o) : p <= mprio[n]
  <2>1. TakenBy(o) \in SUBSET Mutexes
    BY DEF TakenBy
  <2> HIDE DEF o
  <2> QED
    BY <1>2, <1>4, <2>1, MutexPriorityIs
<1>12. /\ s.waiters \in [Mutexes -> Seq(Threads)] /\ s.mprio \in [Mutexes -> MPrios]
       /\ s.prio \in [Threads -> Prios] /\ Settled(s, Pending, Late)
       /\ BoostedIn(s.prio, s.mprio, cs) \subseteq Boosted
  <2>1. CASE o # NoThread /\ p # prio[o]
    <3> DEFINE pr == [prio EXCEPT ![o] = p]
    <3>1. o \in Threads
      BY <1>2, <2>1, InvFacts DEF SetPrioCeiling
    <3>2. p = MutexPriority(o, TakenBy(o), mprio, cs)
      OBVIOUS
    <3> HIDE DEF p
    <3>3. pr[o] = p /\ \A u \in Threads \ {o} : pr[u] = prio[u]
      BY <1>2, <3>1
    <3> HIDE DEF pr
    <3>4. Heeded(pr, mprio)
      <4>1. ASSUME NEW n \in Mutexes, owner[n] # NoThread PROVE pr[owner[n]] <= mprio[n]
        <5>1. CASE owner[n] = o
          <6>1. n \in TakenBy(o)
            BY <5>1 DEF TakenBy
          <6> QED
            BY <1>11, <3>1, <3>3, <5>1, <6>1
        <5>2. CASE owner[n] # o
          <6>1. owner[n] \in Threads /\ prio[owner[n]] <= mprio[n]
            BY <1>2, <4>1
          <6> QED
            BY <3>3, <5>2, <6>1
        <5> QED
          BY <5>1, <5>2
      <4> QED
        BY <4>1 DEF Heeded
    <3>5. BoostedIn(pr, mprio, cs) \subseteq Boosted
      <4>1. ASSUME NEW u \in BoostedIn(pr, mprio, cs) PROVE u \in Boosted
        <5>1. u \in Threads /\ pr[u] < MutexPriority(u, TakenBy(u), mprio, cs)
          BY <4>1 DEF BoostedIn
        <5>2. u # o
          BY <1>11, <3>1, <3>2, <3>3, <5>1
        <5> QED
          BY <1>10, <3>3, <4>1, <5>1, <5>2
      <4> QED
        BY <4>1
    <3>6. /\ LoopType(upd) /\ Settled(upd, Pending, Late)
          /\ BoostedIn(upd.prio, upd.mprio, cs) \subseteq Boosted
      <4> HIDE DEF upd
      <4> QED
        BY <1>2, <1>7, <1>8, <1>11, <3>1, <3>4, <3>5, UpdatedSettles DEF pr, upd
    <3> HIDE DEF upd
    <3>7. s.waiters = upd.waiters /\ s.mprio = upd.mprio /\ s.prio = upd.prio
      BY <1>1, <2>1 DEF SetPriorities, p
    <3> HIDE DEF s
    <3> QED
      BY <3>6, <3>7 DEF LoopType, Settled, InOrder
  <2>2. CASE ~(o # NoThread /\ p # prio[o])
    <3>1. s.waiters = waiters /\ s.mprio = mprio /\ s.prio = prio
      BY <1>1, <2>2
    <3>2. BoostedIn(prio, mprio, cs) \subseteq Boosted
      <4>1. ASSUME NEW u \in BoostedIn(prio, mprio, cs) PROVE u \in Boosted
        <5>1. u \in Threads /\ prio[u] < MutexPriority(u, TakenBy(u), mprio, cs)
          BY <4>1 DEF BoostedIn
        <5>2. u # o
          BY <1>11, <2>2, <5>1, NamesAssumption, <1>2
        <5> QED
          BY <1>10, <4>1, <5>1, <5>2
      <4> QED
        BY <4>1
    <3>3. Now.waiters = waiters /\ Now.mprio = mprio /\ Now.prio = prio
      BY DEF Now
    <3>4. Settled(Now, Pending, Late)
      BY DEF IInv
    <3> HIDE DEF s
    <3> QED
      BY <1>2, <3>1, <3>2, <3>3, <3>4 DEF Settled, InOrder
  <2> QED
    BY <2>1, <2>2
<1>13. s.waiters = waiters' /\ s.mprio = mprio' /\ s.prio = prio'
  OBVIOUS
<1> HIDE DEF s, upd
<1>14. TypeOK'
  <2>1. 0..31 = Prios /\ 0..31 \cup {NoPrio} = MPrios
    BY DEF Prios, MPrios
  <2> QED
    BY <1>1, <1>5, <1>12, <1>13, <2>1 DEF IInv, TypeOK
<1>15. Places' /\ Counted'
  BY <1>1 DEF IInv, Places, Counted
<1>16. Heeded(prio, mprio)'
  BY <1>1, <1>12, <1>13 DEF Settled, Heeded
<1>17. Settled(Now, Pending, Late)'
  BY <1>6, <1>12, <1>13, <1>16, SettledNext DEF Settled
<1>18. Boosted' \subseteq Boosted
  <2>1. Boosted' = BoostedIn(s.prio, s.mprio, cs)
    BY <1>1, <1>13 DEF Boosted, BoostedIn, TakenBy, MutexPriority
  <2> QED
    BY <1>12, <2>1
<1> QED
  BY <1>14, <1>15, <1>17, <1>18 DEF IInv, Keeps
(* The priority a thread has without the mutex: it heeds the others it     *)
(* keeps, and is owed if what it had was.                                  *)
LEMMA LoweredIs ==
  ASSUME IInv, NEW t \in Threads, NEW m \in Mutexes, owner[m] = t
  PROVE  LET p == Lowered(t, m)
             kept == MutexPriority(t, TakenBy(t) \ {m}, mprio, ceiling)
         IN  /\ p \in Prios /\ p \in Nat /\ kept \in Nat
             /\ \A n \in TakenBy(t) \ {m} : p <= mprio[n]
             /\ p < kept => t \in Boosted
<1> DEFINE kept == MutexPriority(t, TakenBy(t) \ {m}, mprio, ceiling)
           all == MutexPriority(t, TakenBy(t), mprio, ceiling)
<1>1. /\ mprio \in [Mutexes -> MPrios] /\ ceiling \in [Mutexes -> MPrios]
      /\ TakenBy(t) \in SUBSET Mutexes /\ TakenBy(t) \ {m} \in SUBSET Mutexes
  BY InvFacts DEF TakenBy
<1>2. /\ kept \in Prios /\ kept \in Nat /\ kept <= InitPrio[t]
      /\ \A n \in TakenBy(t) \ {m} : kept <= mprio[n] /\ kept <= ceiling[n]
  BY <1>1, MutexPriorityIs
<1>3. /\ all \in Nat
      /\ all = InitPrio[t] \/ \E n \in TakenBy(t) : all = mprio[n] \/ all = ceiling[n]
  BY <1>1, MutexPriorityIs
<1>4. /\ prio[t] \in Nat /\ prio[t] \in Prios /\ prio[t] < NoPrio
      /\ \A n \in TakenBy(t) : prio[t] <= mprio[n] /\ mprio[n] \in Nat
      /\ m \in TakenBy(t)
  <2>1. \A n \in TakenBy(t) : n \in Mutexes /\ owner[n] = t /\ owner[n] # NoThread
    BY NamesAssumption DEF TakenBy
  <2>2. \A n \in Mutexes : owner[n] # NoThread => prio[owner[n]] <= mprio[n]
    BY InvFacts DEF Heeded
  <2>3. m \in TakenBy(t)
    BY DEF TakenBy
  <2> QED
    BY <2>1, <2>2, <2>3, InvNumbers
<1> HIDE DEF kept, all
<1>5. CASE ceiling[m] # NoPrio \/ prio[t] = mprio[m]
  <2>1. Lowered(t, m) = kept
    BY <1>5 DEF Lowered, kept
  <2> QED
    BY <1>2, <2>1 DEF kept
<1>6. CASE ~(ceiling[m] # NoPrio \/ prio[t] = mprio[m])
  <2>1. Lowered(t, m) = prio[t]
    BY <1>6 DEF Lowered
  <2>2. ASSUME prio[t] < kept PROVE prio[t] < all
    <3>1. prio[t] < InitPrio[t] /\ \A n \in TakenBy(t) \ {m} : prio[t] < mprio[n] /\ prio[t] < ceiling[n]
      <4>1. InitPrio[t] \in Nat /\ \A n \in Mutexes : mprio[n] \in Nat /\ ceiling[n] \in Nat
        BY PrioAssumption, InvNumbers
      <4> QED
        BY <1>1, <1>2, <1>4, <2>2, <4>1
    <3>2. prio[t] < mprio[m] /\ prio[t] < ceiling[m]
      BY <1>4, <1>6
    <3> QED
      BY <1>3, <3>1, <3>2
  <2>3. prio[t] < kept => t \in Boosted
    BY <2>2 DEF Boosted, all
  <2> QED
    BY <1>2, <1>4, <2>1, <2>3 DEF kept
<1> QED
  BY <1>5, <1>6

(* Nobody waits, and the mutex is free.                                    *)
LEMMA KeepsReleaseFree ==
  ASSUME IInv, NEW t \in Threads, NEW m \in Mutexes, ReleaseLast(t, m), waiters[m] = << >>
  PROVE  Keeps
<1> DEFINE p == Lowered(t, m)
           s == [waiters |-> waiters, mprio |-> mprio', prio |-> prio']
<1>1. /\ pc[t] = "run" /\ owner[m] = t /\ prio' = [prio EXCEPT ![t] = p]
      /\ owner' = [owner EXCEPT ![m] = NoThread]
      /\ hold' = [hold EXCEPT ![m] = 0] /\ mprio' = [mprio EXCEPT ![m] = NoPrio]
      /\ UNCHANGED << waiters, pc, timed, ceiling, wants >>
  BY DEF ReleaseLast
<1>2. /\ owner \in [Mutexes -> Threads \cup {NoThread}] /\ prio \in [Threads -> Prios]
      /\ mprio \in [Mutexes -> MPrios] /\ ceiling \in [Mutexes -> MPrios]
      /\ \A u \in Threads : prio[u] \in Nat
      /\ \A n \in Mutexes : mprio[n] \in Nat /\ ceiling[n] \in Nat
  BY InvFacts, InvNumbers
<1>3. /\ p \in Prios /\ p \in Nat
      /\ \A n \in TakenBy(t) \ {m} : p <= mprio[n]
      /\ p < MutexPriority(t, TakenBy(t) \ {m}, mprio, ceiling) => t \in Boosted
  BY <1>1, LoweredIs
<1> HIDE DEF p
<1>4. /\ owner'[m] = NoThread /\ mprio'[m] = NoPrio /\ prio'[t] = p
      /\ \A n \in Mutexes \ {m} : owner'[n] = owner[n] /\ mprio'[n] = mprio[n]
      /\ \A u \in Threads \ {t} : prio'[u] = prio[u]
      /\ mprio' \in [Mutexes -> MPrios] /\ prio' \in [Threads -> Prios]
      /\ owner' \in [Mutexes -> Threads \cup {NoThread}] /\ t # NoThread
  BY <1>1, <1>2, <1>3, NamesAssumption DEF MPrios
<1>5. TypeOK'
  <2>1. 0..31 = Prios /\ 0..31 \cup {NoPrio} = MPrios /\ 0 \in 0..HoldMax
    BY PrioAssumption DEF Prios, MPrios
  <2> QED
    BY <1>1, <1>4, <2>1 DEF IInv, TypeOK
<1>6. Counted'
  BY <1>1, <1>4 DEF IInv, Counted, TypeOK
<1>7. Places'
  <2>1. ASSUME NEW u \in Threads
        PROVE  /\ pc[u] = "asleep" => owner'[wants[u]] \in Threads \ {u}
               /\ pc[u] = "handed" => owner'[wants[u]] = u
               /\ pc[u] = "timedOut" => owner'[wants[u]] # u
    <3>1. pc[u] # "run" => wants[u] \in Mutexes
      BY InvFacts
    <3>2. /\ pc[u] = "asleep" => owner[wants[u]] \in Threads \ {u}
          /\ pc[u] = "handed" => owner[wants[u]] = u
          /\ pc[u] = "timedOut" => owner[wants[u]] # u
      BY DEF IInv, Places
    <3>3. CASE pc[u] # "run" /\ wants[u] = m
      <4>1. u \notin Range(waiters[m]) /\ u # NoThread
        <5>1. waiters[m] \in Seq(Threads) /\ 1..Len(waiters[m]) = {}
          BY InvFacts
        <5> QED
          BY <5>1, InRange, NamesAssumption
      <4>2. pc[u] # "asleep"
        BY <3>3, <4>1, InvFacts
      <4>3. pc[u] # "handed"
        BY <1>1, <3>2, <3>3
      <4> QED
        BY <1>4, <3>3, <4>1, <4>2, <4>3
    <3>4. CASE pc[u] # "run" /\ wants[u] # m
      <4>1. owner'[wants[u]] = owner[wants[u]]
        BY <1>4, <3>1, <3>4
      <4> QED
        BY <3>2, <4>1
    <3> QED
      BY <3>3, <3>4
  <2>2. \A u \in Threads : pc[u] = "run" <=> wants[u] = NoMutex
    BY DEF IInv, Places
  <2> QED
    BY <1>1, <2>1, <2>2 DEF Places
<1>8. Pending' = Pending /\ Late' = Late
  BY <1>1 DEF Pending, Late
<1>9. ASSUME NEW n \in Mutexes PROVE InOrder(s, n, Late')
  <2>1. s.waiters = waiters /\ s.prio = prio' /\ s.mprio = mprio'
    OBVIOUS
  <2> HIDE DEF s
  <2>2. CASE n = m
    <3>1. 1..Len(waiters[m]) = {}
      OBVIOUS
    <3> QED
      BY <1>4, <2>1, <2>2, <3>1 DEF InOrder, SortedBy, HeadKnown, HeadPrio
  <2>3. CASE n # m
    <3>1. waiters[n] \in Seq(Threads) /\ Range(waiters[n]) \subseteq Threads /\ t \notin Range(waiters[n])
      BY <1>1, InvFacts, RunnerNotListed
    <3>2. InOrder(Now, n, Late)
      BY DEF IInv, Settled
    <3>3. Now.waiters = waiters /\ Now.prio = prio /\ Now.mprio = mprio
      BY DEF Now
    <3>4. \A u \in Range(waiters[n]) : prio'[u] = prio[u]
      BY <1>4, <3>1
    <3>5. mprio'[n] = mprio[n]
      BY <1>4, <2>3
    <3> QED
      BY <1>8, <2>1, <3>1, <3>2, <3>3, <3>4, <3>5, InOrderSame
  <2> QED
    BY <2>2, <2>3
<1>10. Heeded(prio, mprio)'
  <2>1. ASSUME NEW n \in Mutexes, owner'[n] # NoThread PROVE prio'[owner'[n]] <= mprio'[n]
    <3>1. /\ n # m /\ owner'[n] = owner[n] /\ mprio'[n] = mprio[n] /\ owner[n] \in Threads
          /\ prio[owner[n]] <= mprio[n]
      BY <1>2, <1>4, <2>1, InvFacts DEF Heeded
    <3>2. CASE owner[n] = t
      <4>1. n \in TakenBy(t) \ {m}
        BY <3>1, <3>2 DEF TakenBy
      <4> QED
        BY <1>3, <1>4, <3>1, <3>2, <4>1
    <3>3. CASE owner[n] # t
      BY <1>4, <3>1, <3>3
    <3> QED
      BY <3>2, <3>3
  <2> QED
    BY <2>1 DEF Heeded
<1>11. Settled(Now, Pending, Late)'
  <2>1. Listed(waiters, Pending')
    BY <1>8 DEF IInv, Settled, Now
  <2> QED
    BY <1>1, <1>9, <1>10, <2>1, SettledNext
<1>12. ASSUME NEW u \in Boosted' PROVE u \in Boosted
  <2> DEFINE a == MutexPriority(u, TakenBy(u) \ {m}, mprio, ceiling)
             b == MutexPriority(u, TakenBy(u)', mprio', ceiling)
  <2>0. u \in Threads /\ TakenBy(u) \ {m} \in SUBSET Mutexes /\ TakenBy(u)' \in SUBSET Mutexes
    BY DEF Boosted, TakenBy
  <2>1. prio'[u] < b
    BY <1>1 DEF Boosted, MutexPriority
  <2>2. TakenBy(u)' = TakenBy(u) \ {m}
    BY <1>2, <1>4, <2>0, NamesAssumption DEF TakenBy
  <2>3. b <= a
    <3>1. \A n \in TakenBy(u) \ {m} : mprio'[n] <= mprio[n] /\ ceiling[n] <= ceiling[n]
      BY <1>2, <1>4, <2>0
    <3> QED
      BY <1>2, <1>4, <2>0, <2>2, <3>1, MutexPriorityGrows
  <2>4. a \in Nat /\ b \in Nat
    BY <1>2, <1>4, <2>0, MutexPriorityIs
  <2> HIDE DEF b
  <2>5. CASE u # t
    <3>1. prio'[u] = prio[u] /\ prio[u] \in Nat
      BY <1>2, <1>4, <2>0, <2>5
    <3>2. TakenBy(u) \ {m} = TakenBy(u)
      BY <1>1, <2>5 DEF TakenBy
    <3>3. prio[u] < MutexPriority(u, TakenBy(u), mprio, ceiling)
      <4>1. a = MutexPriority(u, TakenBy(u), mprio, ceiling)
        BY <3>2
      <4> HIDE DEF a
      <4> QED
        BY <2>1, <2>3, <2>4, <3>1, <4>1
    <3> QED
      BY <2>0, <3>3 DEF Boosted
  <2>6. CASE u = t
    <3>1. p < a
      <4> HIDE DEF a
      <4> QED
        BY <1>3, <1>4, <2>1, <2>3, <2>4, <2>6
    <3> QED
      BY <1>3, <2>6, <3>1
  <2> QED
    BY <2>5, <2>6
<1> QED
  BY <1>5, <1>6, <1>7, <1>11, <1>12 DEF IInv, Keeps
(* A list that loses its first stays sorted.                               *)
LEMMA TailSorted ==
  ASSUME NEW list \in Seq(Threads), list # << >>, NEW pr, SortedBy(list, pr)
  PROVE  Tail(list) \in Seq(Threads) /\ SortedBy(Tail(list), pr)
<1> DEFINE w == Tail(list)
<1>1. /\ w \in Seq(Threads) /\ Len(w) = Len(list) - 1 /\ Len(list) \in Nat \ {0}
      /\ \A i \in 1..Len(w) : w[i] = list[i + 1]
  BY LenProperties, EmptySeq, HeadTailProperties
<1> HIDE DEF w
<1>2. ASSUME NEW i \in 1..Len(w), NEW j \in 1..Len(w), i < j PROVE pr[w[i]] <= pr[w[j]]
  <2>1. i + 1 \in 1..Len(list) /\ j + 1 \in 1..Len(list) /\ i + 1 < j + 1
    BY <1>1, <1>2
  <2>2. pr[list[i + 1]] <= pr[list[j + 1]]
    BY <2>1 DEF SortedBy
  <2> QED
    BY <1>1, <2>2
<1>3. SortedBy(w, pr)
  BY <1>2 DEF SortedBy
<1> QED
  BY <1>1, <1>3 DEF w

(* The mutex goes to the first waiter.                                     *)
LEMMA KeepsReleaseHand ==
  ASSUME IInv, NEW t \in Threads, NEW m \in Mutexes, ReleaseLast(t, m), waiters[m] # << >>
  PROVE  Keeps
<1> DEFINE p == Lowered(t, m)
           next == Head(waiters[m])
           w == Tail(waiters[m])
           s == [waiters |-> waiters', mprio |-> mprio', prio |-> prio']
<1>1. /\ pc[t] = "run" /\ owner[m] = t /\ hold[m] = 1 /\ prio' = [prio EXCEPT ![t] = p]
      /\ owner' = [owner EXCEPT ![m] = next] /\ waiters' = [waiters EXCEPT ![m] = w]
      /\ mprio' = [mprio EXCEPT ![m] = HeadPrio(w, prio)]
      /\ pc' = [pc EXCEPT ![next] = "handed"] /\ timed' = [timed EXCEPT ![next] = FALSE]
      /\ UNCHANGED << hold, ceiling, wants >>
  BY DEF ReleaseLast
<1>2. /\ owner \in [Mutexes -> Threads \cup {NoThread}] /\ prio \in [Threads -> Prios]
      /\ mprio \in [Mutexes -> MPrios] /\ ceiling \in [Mutexes -> MPrios]
      /\ waiters \in [Mutexes -> Seq(Threads)]
      /\ \A u \in Threads : prio[u] \in Nat
      /\ \A n \in Mutexes : mprio[n] \in Nat /\ ceiling[n] \in Nat
      /\ pc \in [Threads -> {"run", "asleep"} \cup Ready]
  BY InvFacts, InvNumbers DEF IInv, TypeOK
<1>3. /\ p \in Prios /\ p \in Nat
      /\ \A n \in TakenBy(t) \ {m} : p <= mprio[n]
      /\ p < MutexPriority(t, TakenBy(t) \ {m}, mprio, ceiling) => t \in Boosted
  BY <1>1, LoweredIs
<1>4. /\ waiters[m] \in Seq(Threads) /\ IsInjective(waiters[m]) /\ SortedBy(waiters[m], prio)
      /\ Range(waiters[m]) = {u \in Threads : pc[u] = "asleep" /\ wants[u] = m}
      /\ Range(waiters[m]) = {u \in Threads : Pending[u] = m}
  BY <1>2, InvFacts
<1>5. /\ next \in Threads /\ pc[next] = "asleep" /\ wants[next] = m /\ next \in Range(waiters[m])
      /\ Pending[next] = m /\ next # t /\ next # NoThread
      /\ Range(waiters[m]) = Range(w) \cup {next}
      /\ IsInjective(w) /\ next \notin Range(w)
  BY <1>1, <1>4, TailRange, NamesAssumption
<1>6. w \in Seq(Threads) /\ SortedBy(w, prio)
  BY <1>4, TailSorted
<1>7. HeadPrio(w, prio) \in MPrios
  BY <1>2, <1>6, SortedHead
<1>8. prio[next] <= HeadPrio(w, prio)
  <2>1. HeadPrio(waiters[m], prio) = prio[next]
    BY DEF HeadPrio
  <2>2. HeadPrio(waiters[m], prio) <= HeadPrio(w, prio)
    BY <1>2, <1>4, <1>5, <1>6, ShorterHead
  <2> QED
    BY <2>1, <2>2
<1> HIDE DEF p, next, w
<1>9. /\ owner'[m] = next /\ mprio'[m] = HeadPrio(w, prio) /\ prio'[t] = p /\ waiters'[m] = w
      /\ \A n \in Mutexes \ {m} : /\ owner'[n] = owner[n] /\ mprio'[n] = mprio[n]
                                  /\ waiters'[n] = waiters[n]
      /\ \A u \in Threads \ {t} : prio'[u] = prio[u]
      /\ mprio' \in [Mutexes -> MPrios] /\ prio' \in [Threads -> Prios]
      /\ owner' \in [Mutexes -> Threads \cup {NoThread}]
      /\ waiters' \in [Mutexes -> Seq(Threads)]
      /\ pc'[next] = "handed" /\ \A u \in Threads \ {next} : pc'[u] = pc[u]
      /\ pc' \in [Threads -> {"run", "asleep"} \cup Ready]
  BY <1>1, <1>2, <1>3, <1>5, <1>6, <1>7 DEF Ready
<1>10. TypeOK'
  <2>1. 0..31 = Prios /\ 0..31 \cup {NoPrio} = MPrios
    BY DEF Prios, MPrios
  <2> QED
    BY <1>1, <1>9, <2>1 DEF IInv, TypeOK
<1>11. Counted'
  BY <1>1, <1>5, <1>9 DEF IInv, Counted
<1>12. Places'
  <2>1. ASSUME NEW u \in Threads
        PROVE  /\ pc'[u] = "run" <=> wants[u] = NoMutex
               /\ pc'[u] = "asleep" => owner'[wants[u]] \in Threads \ {u}
               /\ pc'[u] = "handed" => owner'[wants[u]] = u
               /\ pc'[u] = "timedOut" => owner'[wants[u]] # u
    <3>1. /\ pc[u] # "run" => wants[u] \in Mutexes
          /\ pc[u] = "run" <=> wants[u] = NoMutex
          /\ pc[u] = "asleep" => owner[wants[u]] \in Threads \ {u}
          /\ pc[u] = "handed" => owner[wants[u]] = u
          /\ pc[u] = "timedOut" => owner[wants[u]] # u
      BY InvFacts DEF IInv, Places
    <3>2. CASE u = next
      BY <1>5, <1>9, <3>1, <3>2
    <3>3. CASE u # next
      <4>1. pc'[u] = pc[u]
        BY <1>9, <3>3
      <4>2. CASE wants[u] = m
        <5>1. pc[u] # "handed"
          BY <1>1, <3>1, <4>2
        <5> QED
          BY <1>5, <1>9, <3>1, <3>3, <4>1, <4>2, <5>1
      <4>3. CASE wants[u] # m
        BY <1>9, <3>1, <4>1, <4>3
      <4> QED
        BY <4>2, <4>3
    <3> QED
      BY <3>2, <3>3
  <2> QED
    BY <1>1, <2>1 DEF Places
<1>13. /\ Pending' = [Pending EXCEPT ![next] = NoMutex]
       /\ Pending \in [Threads -> Mutexes \cup {NoMutex}] /\ NoMutex \notin Mutexes
  <2>1. Pending \in [Threads -> Mutexes \cup {NoMutex}] /\ NoMutex \notin Mutexes
    BY InvFacts, NamesAssumption
  <2>2. pc'[next] # "asleep" /\ \A u \in Threads \ {next} : pc'[u] = pc[u]
    BY <1>5, <1>9
  <2>3. Pending' = [u \in Threads |-> IF pc'[u] = "asleep" THEN wants[u] ELSE NoMutex]
    BY <1>1 DEF Pending
  <2>4. Pending = [u \in Threads |-> IF pc[u] = "asleep" THEN wants[u] ELSE NoMutex]
    BY DEF Pending
  <2>5. [Pending EXCEPT ![next] = NoMutex]
          = [u \in Threads |-> IF u = next THEN NoMutex ELSE Pending[u]]
    BY <2>4
  <2>6. \A u \in Threads : (IF pc'[u] = "asleep" THEN wants[u] ELSE NoMutex)
                            = (IF u = next THEN NoMutex ELSE Pending[u])
    BY <2>2, <2>4
  <2> QED
    BY <2>1, <2>3, <2>5, <2>6
<1>14. Late' = Late
  BY <1>1, <1>5, <1>9 DEF Late
<1>15. Listed(waiters', Pending')
  <2>1. ASSUME NEW n \in Mutexes
        PROVE  IsInjective(waiters'[n]) /\ Range(waiters'[n]) = {u \in Threads : Pending'[u] = n}
    <3>1. IsInjective(waiters[n]) /\ Range(waiters[n]) = {u \in Threads : Pending[u] = n}
      BY InvFacts
    <3>2. {u \in Threads : Pending'[u] = n} = {u \in Threads : Pending[u] = n} \ {next}
      BY <1>13
    <3>3. CASE n = m
      <4>1. Range(w) = Range(waiters[m]) \ {next}
        BY <1>5
      <4> QED
        BY <1>5, <1>9, <3>1, <3>2, <3>3, <4>1
    <3>4. CASE n # m
      BY <1>5, <1>9, <3>1, <3>2, <3>4
    <3> QED
      BY <3>3, <3>4
  <2> QED
    BY <2>1 DEF Listed
<1>16. ASSUME NEW n \in Mutexes PROVE InOrder(s, n, Late')
  <2>1. s.waiters = waiters' /\ s.prio = prio' /\ s.mprio = mprio'
    OBVIOUS
  <2> HIDE DEF s
  <2>2. t \notin Range(waiters[n]) /\ Range(waiters[n]) \subseteq Threads /\ waiters[n] \in Seq(Threads)
    BY <1>1, InvFacts, RunnerNotListed
  <2>3. CASE n = m
    <3>1. \A u \in Range(w) : prio'[u] = prio[u]
      BY <1>5, <1>9, <2>2, <2>3
    <3>2. SortedBy(w, prio') /\ HeadPrio(w, prio) = HeadPrio(w, prio')
      BY <1>6, <3>1, SortedSame
    <3> QED
      BY <1>9, <2>1, <2>3, <3>2 DEF InOrder, HeadKnown
  <2>4. CASE n # m
    <3>1. InOrder(Now, n, Late)
      BY DEF IInv, Settled
    <3>2. Now.waiters = waiters /\ Now.prio = prio /\ Now.mprio = mprio
      BY DEF Now
    <3>3. \A u \in Range(waiters[n]) : prio'[u] = prio[u]
      BY <1>9, <2>2
    <3>4. mprio'[n] = mprio[n] /\ waiters'[n] = waiters[n]
      BY <1>9, <2>4
    <3> QED
      BY <1>14, <2>1, <2>2, <3>1, <3>2, <3>3, <3>4, InOrderSame
  <2> QED
    BY <2>3, <2>4
<1>17. Heeded(prio, mprio)'
  <2>1. ASSUME NEW n \in Mutexes, owner'[n] # NoThread PROVE prio'[owner'[n]] <= mprio'[n]
    <3>1. CASE n = m
      BY <1>5, <1>8, <1>9, <3>1
    <3>2. CASE n # m
      <4>1. /\ owner'[n] = owner[n] /\ mprio'[n] = mprio[n] /\ owner[n] \in Threads
            /\ prio[owner[n]] <= mprio[n]
        BY <1>2, <1>9, <2>1, <3>2, InvFacts DEF Heeded
      <4>2. CASE owner[n] = t
        <5>1. n \in TakenBy(t) \ {m}
          BY <3>2, <4>2 DEF TakenBy
        <5> QED
          BY <1>3, <1>9, <4>1, <4>2, <5>1
      <4>3. CASE owner[n] # t
        BY <1>9, <4>1, <4>3
      <4> QED
        BY <4>2, <4>3
    <3> QED
      BY <3>1, <3>2
  <2> QED
    BY <2>1 DEF Heeded
<1>18. Settled(Now, Pending, Late)'
  BY <1>15, <1>16, <1>17, SettledNext
<1>19. ASSUME NEW u \in Boosted' PROVE u \in Boosted
  <2> DEFINE a == MutexPriority(u, TakenBy(u) \ {m}, mprio, ceiling)
             b == MutexPriority(u, TakenBy(u)', mprio', ceiling)
  <2>0. u \in Threads /\ TakenBy(u) \ {m} \in SUBSET Mutexes /\ TakenBy(u)' \in SUBSET Mutexes
    BY DEF Boosted, TakenBy
  <2>1. prio'[u] < b
    BY <1>1 DEF Boosted, MutexPriority
  <2>2. TakenBy(u) \ {m} \subseteq TakenBy(u)'
    BY <1>9 DEF TakenBy
  <2>3. b <= a
    <3>1. \A n \in TakenBy(u) \ {m} : mprio'[n] <= mprio[n] /\ ceiling[n] <= ceiling[n]
      BY <1>2, <1>9, <2>0
    <3> QED
      BY <1>2, <1>9, <2>0, <2>2, <3>1, MutexPriorityGrows
  <2>4. a \in Nat /\ b \in Nat
    BY <1>2, <1>9, <2>0, MutexPriorityIs
  <2> HIDE DEF b
  <2>5. CASE u # t
    <3>1. prio'[u] = prio[u] /\ prio[u] \in Nat
      BY <1>2, <1>9, <2>0, <2>5
    <3>2. TakenBy(u) \ {m} = TakenBy(u)
      BY <1>1, <2>5 DEF TakenBy
    <3>3. prio[u] < MutexPriority(u, TakenBy(u), mprio, ceiling)
      <4>1. a = MutexPriority(u, TakenBy(u), mprio, ceiling)
        BY <3>2
      <4> HIDE DEF a
      <4> QED
        BY <2>1, <2>3, <2>4, <3>1, <4>1
    <3> QED
      BY <2>0, <3>3 DEF Boosted
  <2>6. CASE u = t
    <3>1. p < a
      <4> HIDE DEF a
      <4> QED
        BY <1>3, <1>9, <2>1, <2>3, <2>4, <2>6
    <3> QED
      BY <1>3, <2>6, <3>1
  <2> QED
    BY <2>5, <2>6
<1> QED
  BY <1>10, <1>11, <1>12, <1>18, <1>19 DEF IInv, Keeps

-----------------------------------------------------------------------------
(* The theorems.                                                           *)

SomeoneLate == \E u \in Threads : pc[u] = "timedOut"

(* Every step keeps the invariant, and boosts nobody while none is late.   *)
LEMMA NextInv ==
  IInv /\ [Next]_vars => IInv' /\ [Boosted' \subseteq Boosted \/ SomeoneLate]_vars
<1> SUFFICES ASSUME IInv, [Next]_vars
             PROVE  IInv' /\ (Boosted' \subseteq Boosted \/ SomeoneLate)
  OBVIOUS
<1>1. CASE UNCHANGED vars
  <2>1. UNCHANGED << owner, hold, ceiling, mprio, waiters, prio, pc, wants, timed >>
    BY <1>1 DEF vars, mutexVars
  <2>2. Pending' = Pending /\ Late' = Late
    BY <2>1 DEF Pending, Late
  <2>3. Settled(Now, Pending, Late)' /\ Boosted' = Boosted
    BY <2>1, <2>2, Unmoved
  <2>4. TypeOK' /\ Places' /\ Counted'
    BY <2>1 DEF IInv, TypeOK, Places, Counted
  <2> QED
    BY <2>3, <2>4 DEF IInv
<1>2. ASSUME NEW t \in Threads, Timeout(t) \/ ResumeOwner(t) PROVE Keeps
  BY <1>2, KeepsTimeout, KeepsResumeOwner
<1>3. ASSUME NEW t \in Threads, ResumeTimedOut(t) PROVE IInv' /\ SomeoneLate
  BY <1>3, KeepsResumeTimedOut DEF SomeoneLate, ResumeTimedOut
<1>4. ASSUME NEW t \in Threads, NEW m \in Mutexes,
             \/ TakeAgain(t, m) \/ TakeFree(t, m)
             \/ \E withTimeout \in BOOLEAN : TakeWait(t, m, withTimeout)
             \/ ReleaseOne(t, m) \/ ReleaseLast(t, m)
             \/ \E c \in Ceilings : SetPrioCeiling(t, m, c)
      PROVE  Keeps
  BY <1>4, KeepsHold, KeepsTakeFree, KeepsTakeWait, KeepsReleaseFree, KeepsReleaseHand,
     KeepsSetPrioCeiling
<1> QED
  BY <1>1, <1>2, <1>3, <1>4 DEF Next, Keeps

(* IInv holds in every reachable state.                                    *)
THEOREM Invariant == Spec => []IInv
<1>1. IInv /\ [Next]_vars => IInv'
  BY NextInv
<1> QED
  BY InitInv, <1>1, PTL DEF Spec

(* Every variable of the mutexes stays within its type: a hold count never *)
(* passes RT_MUTEX_HOLD_MAX, a priority never leaves the priorities there  *)
(* are.                                                                    *)
THEOREM TypeCorrect == Spec => []TypeOK
<1>1. IInv => TypeOK
  BY DEF IInv
<1> QED
  BY <1>1, Invariant, PTL

(* A thread comes back from rt_mutex_take with the mutex exactly if it was *)
(* handed to it, who sleeps is on one list, and a mutex with waiters or a  *)
(* count has an owner.                                                     *)
THEOREM HandOverIsSound == Spec => []HandedOver
<1>1. ASSUME IInv PROVE HandedOver
  <2>1. ASSUME NEW m \in Mutexes, waiters[m] # << >> PROVE owner[m] # NoThread
    BY <1>1, <2>1, FreeHasNoWaiters
  <2>2. Places /\ Counted
    BY <1>1 DEF IInv
  <2>3. \A m \in Mutexes :
          /\ IsInjective(waiters[m])
          /\ Range(waiters[m]) = {t \in Threads : pc[t] = "asleep" /\ wants[t] = m}
    BY <1>1, InvFacts
  <2> QED
    BY <2>1, <2>2, <2>3 DEF HandedOver, Places, Counted
<1> QED
  BY <1>1, Invariant, PTL

(* The waiters stay sorted by the priorities they have, also when these    *)
(* are raised and lowered while they wait: a mutex goes to the most urgent *)
(* one.                                                                    *)
THEOREM WaitersStaySorted == Spec => []Sorted
<1>1. ASSUME IInv PROVE Sorted
  <2>1. ASSUME NEW m \in Mutexes
        PROVE  SortedBy(waiters[m], prio) /\ DOMAIN waiters[m] = 1..Len(waiters[m])
    BY <1>1, InvFacts, InRange
  <2> QED
    BY <2>1 DEF Sorted, SortedBy
<1> QED
  BY <1>1, Invariant, PTL

(* No priority inversion: an owner, and through it the owner of the mutex  *)
(* it waits for itself, runs at least at the priority of each waiter,      *)
(* however long the chain.                                                 *)
THEOREM PrioritiesAreInherited == Spec => []NoInversion
<1>1. ASSUME IInv PROVE NoInversion
  <2>1. ASSUME NEW m \in Mutexes, NEW u \in Range(waiters[m]) PROVE prio[owner[m]] <= prio[u]
    <3> DEFINE a == HeadPrio(waiters[m], prio)
    <3>1. /\ waiters[m] \in Seq(Threads) /\ prio \in [Threads -> Prios] /\ SortedBy(waiters[m], prio)
          /\ HeadKnown(waiters[m], prio, mprio[m], m \in Late) /\ Range(waiters[m]) \subseteq Threads
      BY <1>1, InvFacts
    <3>2. a \in MPrios /\ a <= prio[u]
      BY <2>1, <3>1, SortedHead
    <3>3. owner[m] \in Threads /\ prio[owner[m]] <= mprio[m]
      <4>1. pc[u] = "asleep" /\ wants[u] = m /\ u \in Threads
        BY <1>1, <2>1, InvFacts
      <4>2. owner[m] \in Threads
        BY <1>1, <4>1 DEF IInv, Places
      <4> QED
        BY <1>1, <4>2, InvFacts, NamesAssumption DEF Heeded
    <3>4. mprio[m] = a \/ mprio[m] < a
      BY <3>1 DEF HeadKnown
    <3>5. a \in Nat /\ mprio[m] \in Nat /\ prio[u] \in Nat /\ prio[owner[m]] \in Nat
      <4>1. \A x \in MPrios : x \in Nat
        BY DEF MPrios, Prios, NoPrio
      <4> HIDE DEF a
      <4> QED
        BY <1>1, <2>1, <3>1, <3>2, <3>3, <4>1, InvNumbers
    <3> HIDE DEF a
    <3> QED
      BY <3>2, <3>3, <3>4, <3>5
  <2> QED
    BY <2>1 DEF NoInversion
<1> QED
  BY <1>1, Invariant, PTL

(* The priority kept in a mutex is that of its first waiter, or too high   *)
(* while one whose time is up has not run since.                           *)
THEOREM MutexPrioIsHeads == Spec => []MutexPrioOfHead
<1>1. ASSUME IInv PROVE MutexPrioOfHead
  <2>1. \A m \in Mutexes : HeadKnown(waiters[m], prio, mprio[m], m \in Late)
    BY <1>1, InvFacts
  <2> QED
    BY <2>1 DEF MutexPrioOfHead, HeadKnown, Late
<1> QED
  BY <1>1, Invariant, PTL

(* No step brings a thread to a higher priority than its mutexes call for, *)
(* be it by raising it or by giving a mutex away, while no waiter has      *)
(* timed out and not run since.                                            *)
THEOREM BoostsEnd == Spec => BoostEnds
<1>1. IInv /\ [Next]_vars => [Boosted' \subseteq Boosted \/ \E u \in Threads : pc[u] = "timedOut"]_vars
  BY NextInv DEF SomeoneLate
<1> QED
  BY <1>1, Invariant, PTL DEF Spec, BoostEnds
=============================================================================
