---------------------------- MODULE CanTx_proofs ----------------------------
(***************************************************************************)
(* Proofs about the transmit path of the CAN device, for every number of   *)
(* writers and of writes and one to three send boxes: a box has one holder, *)
(* and a write reports success exactly when its message went out.          *)
(***************************************************************************)
EXTENDS CanTx, SeqLemmas, FiniteSetTheorems

LEMMA Constants ==
  /\ NBoxes \in Nat \ {0} /\ MaxWrites \in Nat
  /\ IsFiniteSet(Writers) /\ NoWriter \notin Writers /\ 0 \in Boxes
  BY BoxesAssumption, BoundAssumption, WritersAssumption DEF Boxes

-----------------------------------------------------------------------------
(* Type correctness, and what it rests on.                                 *)

(* A thread that is past its first step has begun a write.                 *)
Started == \A w \in Writers : pc[w] # "idle" => count[w] >= 1

(* The threads queued at the semaphore wait for it, each once.             *)
SemQueue == IsInjective(semq) /\ \A w \in Range(semq) : pc[w] = "semwait"

(* A completion's waiter sleeps, on the box that it holds.                 *)
WaiterSleeps ==
  \A b \in Boxes : waiter[b] # NoWriter => pc[waiter[b]] = "asleep" /\ box[waiter[b]] = b

(* The boxes on freelist are those the semaphore counts, those a writer    *)
(* has taken the semaphore for, and those not yet given back to it.        *)
Claims == {w \in Writers : pc[w] \in {"pop", "release"}}
SemCounts == Len(free) = sem + Cardinality(Claims)

BoxesInv == /\ TypeOK /\ Started /\ SemQueue /\ WaiterSleeps /\ SemCounts
            /\ BoxesConserved

(* A list of boxes without repetitions is no longer than there are boxes.  *)
LEMMA FreeLength ==
  ASSUME NEW s \in Seq(Boxes), IsInjective(s)
  PROVE  Len(s) \in Nat /\ Len(s) <= NBoxes
<1>1. Len(s) \in Nat /\ s \in [1..Len(s) -> Boxes]
  BY LenProperties
<1>2. s \in Injection(1..Len(s), Boxes)
  BY <1>1 DEF Injection
<1>3. IsFiniteSet(Boxes) /\ Cardinality(Boxes) = NBoxes
  BY Constants, FS_Interval DEF Boxes
<1>4. Cardinality(1..Len(s)) = Len(s)
  BY <1>1, FS_Interval
<1> QED
  BY <1>1, <1>2, <1>3, <1>4, FS_Injection

(* Claims is finite, and a writer with a claim makes freelist non-empty.   *)
LEMMA ClaimsCount ==
  ASSUME BoxesInv
  PROVE  /\ IsFiniteSet(Claims) /\ Cardinality(Claims) \in Nat
         /\ \A w \in Claims : Cardinality(Claims) >= 1
         /\ \A w \in Claims : Len(free) >= 1 /\ free # << >> /\ sem < NBoxes
<1>1. IsFiniteSet(Claims) /\ Cardinality(Claims) \in Nat
  BY Constants, FS_Subset, FS_CardinalityType DEF Claims
<1>2. ASSUME NEW w \in Claims PROVE Cardinality(Claims) >= 1
  BY <1>1, <1>2, FS_EmptySet
<1>3. Len(free) \in Nat /\ Len(free) <= NBoxes /\ sem \in Nat
  BY FreeLength, Constants DEF BoxesInv, TypeOK, BoxesConserved
<1>4. ASSUME NEW w \in Claims PROVE Len(free) >= 1 /\ free # << >> /\ sem < NBoxes
  <2>1. Len(free) >= 1 /\ sem < NBoxes
    BY <1>1, <1>2, <1>3, <1>4, Constants DEF BoxesInv, SemCounts
  <2> QED
    BY <2>1, EmptySeq DEF BoxesInv, TypeOK
<1> QED
  BY <1>1, <1>2, <1>4

(* Completing a box wakes at most the writer that sleeps on it.            *)
LEMMA CompleteWakes ==
  ASSUME TypeOK, WaiterSleeps, NEW b \in Boxes, NEW r \in {"ok", "err"}, Complete(b, r)
  PROVE  /\ pc' \in [Writers -> {"idle", "semwait", "pop", "init", "send", "wait",
                                 "asleep", "collect", "refused", "release"}]
         /\ result' \in [Boxes -> {"ok", "err", "wait"}]
         /\ completed' \in [Boxes -> BOOLEAN]
         /\ waiter' \in [Boxes -> Writers \cup {NoWriter}]
         /\ \A w \in Writers :
              pc'[w] = pc[w] \/ (waiter[b] = w /\ pc[w] = "asleep" /\ pc'[w] = "wait")
         /\ \A c \in Boxes : waiter'[c] # NoWriter => waiter'[c] = waiter[c] /\ c # b
<1>1. CASE ~completed[b] /\ waiter[b] # NoWriter
  <2>1. /\ waiter[b] \in Writers /\ pc[waiter[b]] = "asleep"
        /\ pc' = [pc EXCEPT ![waiter[b]] = "wait"]
    BY <1>1 DEF Complete, Goto, TypeOK, WaiterSleeps
  <2>2. /\ result' = [result EXCEPT ![b] = r] /\ completed' = [completed EXCEPT ![b] = TRUE]
        /\ waiter' = [waiter EXCEPT ![b] = NoWriter]
    BY DEF Complete
  <2>3. /\ pc' \in [Writers -> {"idle", "semwait", "pop", "init", "send", "wait",
                                "asleep", "collect", "refused", "release"}]
        /\ \A w \in Writers :
             pc'[w] = pc[w] \/ (waiter[b] = w /\ pc[w] = "asleep" /\ pc'[w] = "wait")
    BY <2>1 DEF TypeOK
  <2>4. /\ result' \in [Boxes -> {"ok", "err", "wait"}]
        /\ completed' \in [Boxes -> BOOLEAN]
        /\ waiter' \in [Boxes -> Writers \cup {NoWriter}]
        /\ \A c \in Boxes : waiter'[c] # NoWriter => waiter'[c] = waiter[c] /\ c # b
    BY <2>2 DEF TypeOK
  <2> QED
    BY <2>3, <2>4
<1>2. CASE ~(~completed[b] /\ waiter[b] # NoWriter)
  BY <1>2 DEF Complete, TypeOK
<1> QED
  BY <1>1, <1>2

(* The interrupt handlers leave the invariant of the boxes as it was.      *)
LEMMA WakeKeeps ==
  ASSUME BoxesInv, NEW b \in Boxes, NEW r \in {"ok", "err"}, Complete(b, r),
         UNCHANGED << count, box, free, sem, semq >>
  PROVE  Started' /\ SemQueue' /\ WaiterSleeps' /\ SemCounts' /\ BoxesConserved'
<1> USE DEF BoxesInv
<1>1. /\ \A w \in Writers :
           pc'[w] = pc[w] \/ (waiter[b] = w /\ pc[w] = "asleep" /\ pc'[w] = "wait")
      /\ \A c \in Boxes : waiter'[c] # NoWriter => waiter'[c] = waiter[c] /\ c # b
      /\ waiter' \in [Boxes -> Writers \cup {NoWriter}]
  BY CompleteWakes
<1>2. Started'
  BY <1>1 DEF Started
<1>3. SemQueue'
  <2>1. Range(semq) \subseteq Writers
    BY InRange DEF TypeOK
  <2>2. \A w \in Writers : pc[w] = "semwait" => pc'[w] = "semwait"
    BY <1>1
  <2> QED
    BY <2>1, <2>2 DEF SemQueue
<1>4. WaiterSleeps'
  BY <1>1, Constants DEF WaiterSleeps, TypeOK
<1>5. Claims' = Claims
  BY <1>1 DEF Claims
<1>6. SemCounts'
  BY <1>5 DEF SemCounts
<1>7. \A w \in Writers : Holding(w)' <=> Holding(w)
  BY <1>1 DEF Holding
<1>8. BoxesConserved'
  BY <1>1, <1>7 DEF BoxesConserved
<1> QED
  BY <1>2, <1>3, <1>4, <1>6, <1>8

LEMMA BoxesInit == Init => BoxesInv
<1> SUFFICES ASSUME Init PROVE BoxesInv
  OBVIOUS
<1>1. /\ free \in Seq(Boxes) /\ Len(free) = NBoxes /\ DOMAIN free = 1..NBoxes
      /\ \A i \in 1..NBoxes : free[i] = i - 1
  <2>1. \A i \in 1..NBoxes : i - 1 \in Boxes
    BY Constants DEF Boxes
  <2>2. free \in [1..NBoxes -> Boxes]
    BY <2>1 DEF Init
  <2> QED
    BY <2>2, Constants, SeqDef, LenProperties DEF Init
<1>2. semq = << >> /\ semq \in Seq(Writers) /\ bus = << >> /\ bus \in Seq(Message)
  BY DEF Init
<1>3. TypeOK
  <2>1. /\ count \in [Writers -> 0..MaxWrites] /\ box \in [Writers -> Boxes]
        /\ pc \in [Writers -> {"idle", "semwait", "pop", "init", "send", "wait",
                               "asleep", "collect", "refused", "release"}]
        /\ sem \in 0..NBoxes
    BY Constants DEF Init
  <2>2. /\ result \in [Boxes -> {"ok", "err", "wait"}]
        /\ completed \in [Boxes -> BOOLEAN]
        /\ waiter \in [Boxes -> Writers \cup {NoWriter}]
        /\ mail \in [Boxes -> Message \cup {NoMessage}]
        /\ rqcp \in [Boxes -> BOOLEAN] /\ txok \in [Boxes -> BOOLEAN]
    BY DEF Init
  <2>3. lec \in BOOLEAN /\ sce \in BOOLEAN /\ told \subseteq [m : Message, ok : BOOLEAN]
    BY DEF Init
  <2> QED
    BY <1>1, <1>2, <2>1, <2>2, <2>3 DEF TypeOK
<1>4. Started /\ WaiterSleeps
  BY DEF Init, Started, WaiterSleeps
<1>5. SemQueue
  BY <1>2 DEF SemQueue, IsInjective, Range
<1>6. Claims = {}
  BY DEF Init, Claims
<1>7. SemCounts
  BY <1>1, <1>6, FS_EmptySet, Constants DEF SemCounts, Init
<1>8. IsInjective(free)
  BY <1>1 DEF IsInjective
<1>9. \A w \in Writers : ~Holding(w) /\ pc[w] # "pop"
  BY DEF Init, Holding
<1> QED
  BY <1>3, <1>4, <1>5, <1>7, <1>8, <1>9 DEF BoxesInv, BoxesConserved

(* A list of as many boxes as the semaphore counts and writers claim is    *)
(* not empty while a writer claims one.                                    *)
LEMMA ClaimedNotEmpty ==
  ASSUME NEW s \in Seq(Boxes), NEW k \in Nat, NEW C \in SUBSET Writers,
         Len(s) = k + Cardinality(C), NEW w \in C
  PROVE  s # << >>
<1>1. IsFiniteSet(C) /\ Cardinality(C) \in Nat
  BY Constants, FS_Subset, FS_CardinalityType
<1>2. Cardinality(C) # 0
  BY <1>1, FS_EmptySet
<1> QED
  BY <1>1, <1>2, EmptySeq

(* A write begins: it takes the semaphore, or queues for it.               *)
LEMMA TakeSemKeeps ==
  ASSUME BoxesInv, NEW w \in Writers, TakeSem(w)
  PROVE  BoxesInv'
<1> USE DEF BoxesInv, TakeSem, Goto
<1>0. /\ w \notin Claims /\ IsFiniteSet(Claims)
      /\ Range(semq) \subseteq Writers /\ w \notin Range(semq)
      /\ Cardinality(Claims) \in Nat /\ Len(free) \in Nat
  BY ClaimsCount, InRange, FreeLength DEF Claims, TypeOK, SemQueue, BoxesConserved
<1>1. /\ \A v \in Writers : v # w => pc'[v] = pc[v] /\ count'[v] = count[v]
      /\ pc[w] = "idle" /\ pc'[w] \in {"pop", "semwait"} /\ count'[w] = count[w] + 1
      /\ pc' \in [Writers -> {"idle", "semwait", "pop", "init", "send", "wait",
                              "asleep", "collect", "refused", "release"}]
  BY DEF TypeOK
<1>2. count' \in [Writers -> 0..MaxWrites] /\ sem' \in 0..NBoxes /\ semq' \in Seq(Writers)
  <2>1. count[w] + 1 \in 0..MaxWrites
    BY Constants DEF TypeOK
  <2>2. count' \in [Writers -> 0..MaxWrites]
    BY <2>1 DEF TypeOK
  <2>3. sem' \in 0..NBoxes
    BY Constants DEF TypeOK
  <2>4. semq' \in Seq(Writers)
    <3>1. semq \in Seq(Writers) /\ (semq' = semq \/ semq' = Append(semq, w))
      BY DEF TypeOK
    <3> QED
      BY <3>1, AppendProperties
  <2> QED
    BY <2>2, <2>3, <2>4
<1>3. TypeOK'
  BY <1>1, <1>2 DEF TypeOK, boxes, mailbox
<1>4. Started'
  BY <1>1 DEF Started, TypeOK
<1>5. SemQueue'
  <2>1. CASE sem > 0
    BY <2>1, <1>0, <1>1 DEF SemQueue
  <2>2. CASE ~(sem > 0)
    <3>1. semq' = Append(semq, w) /\ pc' = [pc EXCEPT ![w] = "semwait"]
      BY <2>2
    <3>2. Range(semq') = Range(semq) \cup {w} /\ IsInjective(semq')
      BY <3>1, <1>0, AppendRange DEF SemQueue, TypeOK
    <3>3. \A v \in Range(semq') : pc'[v] = "semwait"
      BY <3>1, <3>2, <1>0 DEF SemQueue, TypeOK
    <3> QED
      BY <3>2, <3>3 DEF SemQueue
  <2> QED
    BY <2>1, <2>2
<1>6. WaiterSleeps'
  BY <1>1, Constants DEF WaiterSleeps, TypeOK, boxes
<1>7. SemCounts'
  <2>1. CASE sem > 0
    <3>1. Claims' = Claims \cup {w} /\ sem' = sem - 1 /\ free' = free
      BY <2>1, <1>1 DEF Claims, TypeOK
    <3>2. Cardinality(Claims') = Cardinality(Claims) + 1
      BY <3>1, <1>0, FS_AddElement
    <3> QED
      BY <3>1, <3>2, <1>0 DEF SemCounts, TypeOK
  <2>2. CASE ~(sem > 0)
    <3>1. Claims' = Claims
      BY <2>2, <1>1 DEF Claims, TypeOK
    <3> QED
      BY <3>1, <2>2 DEF SemCounts
  <2> QED
    BY <2>1, <2>2
<1>8. \A v \in Writers : Holding(v)' <=> Holding(v)
  BY <1>1 DEF Holding
<1>9. \A v \in Writers : pc'[v] = "pop" => free' # << >>
  <2>1. Claims' \in SUBSET Writers /\ sem' \in Nat /\ free' \in Seq(Boxes)
    BY <1>3 DEF Claims, TypeOK
  <2> QED
    BY <2>1, <1>7, ClaimedNotEmpty DEF Claims, SemCounts
<1>10. BoxesConserved'
  BY <1>8, <1>9 DEF BoxesConserved
<1> QED
  BY <1>3, <1>4, <1>5, <1>6, <1>7, <1>10

(* The head of freelist goes to a writer that has the semaphore.           *)
LEMMA PopBoxKeeps ==
  ASSUME BoxesInv, NEW w \in Writers, PopBox(w)
  PROVE  BoxesInv'
<1> USE DEF BoxesInv, PopBox, Goto
<1>0. /\ w \in Claims /\ IsFiniteSet(Claims) /\ free # << >>
      /\ Range(semq) \subseteq Writers /\ w \notin Range(semq)
      /\ Cardinality(Claims) \in Nat /\ Len(free) \in Nat
  BY ClaimsCount, InRange, FreeLength DEF Claims, TypeOK, SemQueue, BoxesConserved
<1>1. /\ \A v \in Writers : v # w => pc'[v] = pc[v] /\ box'[v] = box[v]
      /\ pc[w] = "pop" /\ pc'[w] = "init" /\ box'[w] = Head(free)
      /\ pc' \in [Writers -> {"idle", "semwait", "pop", "init", "send", "wait",
                              "asleep", "collect", "refused", "release"}]
  BY DEF TypeOK
<1>2. /\ free' \in Seq(Boxes) /\ Len(free') = Len(free) - 1 /\ Head(free) \in Boxes
      /\ Head(free) \in Range(free) /\ Range(free) = Range(free') \cup {Head(free)}
      /\ IsInjective(free') /\ Head(free) \notin Range(free')
  BY <1>0, HeadTailProperties, TailRange DEF TypeOK, BoxesConserved
<1>3. TypeOK'
  BY <1>1, <1>2 DEF TypeOK, boxes, mailbox
<1>4. Started'
  BY <1>1 DEF Started
<1>5. SemQueue'
  BY <1>0, <1>1 DEF SemQueue
<1>6. WaiterSleeps'
  BY <1>1, Constants DEF WaiterSleeps, TypeOK, boxes
<1>7. SemCounts'
  <2>1. Claims' = Claims \ {w}
    BY <1>1 DEF Claims
  <2>2. Cardinality(Claims') = Cardinality(Claims) - 1
    BY <2>1, <1>0, FS_RemoveElement
  <2> QED
    BY <2>2, <1>0, <1>2 DEF SemCounts, TypeOK
<1>8. \A v \in Writers : v # w => (Holding(v)' <=> Holding(v))
  BY <1>1 DEF Holding
<1>9. \A v \in Writers : pc'[v] = "pop" => free' # << >>
  <2>1. Claims' \in SUBSET Writers /\ sem' \in Nat /\ free' \in Seq(Boxes)
    BY <1>3 DEF Claims, TypeOK
  <2> QED
    BY <2>1, <1>7, ClaimedNotEmpty DEF Claims, SemCounts
<1>10. \A v \in Writers : Holding(v)' => box'[v] \notin Range(free')
  BY <1>1, <1>2, <1>8 DEF BoxesConserved
<1>11. ASSUME NEW u \in Writers, NEW v \in Writers, Holding(u)', Holding(v)', box'[u] = box'[v]
       PROVE  u = v
  BY <1>11, <1>1, <1>2, <1>8 DEF BoxesConserved
<1>12. BoxesConserved'
  BY <1>2, <1>9, <1>10, <1>11 DEF BoxesConserved
<1> QED
  BY <1>3, <1>4, <1>5, <1>6, <1>7, <1>12

(* The box is given back at the tail of freelist, once.                    *)
LEMMA CollectKeeps ==
  ASSUME BoxesInv, NEW w \in Writers, Collect(w)
  PROVE  BoxesInv'
<1> USE DEF BoxesInv, Collect, Goto
<1>0. /\ w \notin Claims /\ IsFiniteSet(Claims) /\ Holding(w)
      /\ Range(semq) \subseteq Writers /\ w \notin Range(semq)
      /\ Cardinality(Claims) \in Nat /\ Len(free) \in Nat
  BY ClaimsCount, InRange, FreeLength DEF Claims, TypeOK, SemQueue, BoxesConserved, Holding
<1>1. /\ \A v \in Writers : v # w => pc'[v] = pc[v]
      /\ pc[w] \in {"collect", "refused"} /\ pc'[w] = "release"
      /\ pc' \in [Writers -> {"idle", "semwait", "pop", "init", "send", "wait",
                              "asleep", "collect", "refused", "release"}]
  BY DEF TypeOK
<1>2. /\ free' \in Seq(Boxes) /\ Len(free') = Len(free) + 1
      /\ Range(free') = Range(free) \cup {box[w]} /\ IsInjective(free')
  BY <1>0, AppendProperties, AppendRange DEF TypeOK, BoxesConserved
<1>3. Mine(w) \in Message
  BY <1>1, Constants DEF Started, TypeOK, Mine, Message
<1>4. told' \subseteq [m : Message, ok : BOOLEAN]
  <2> DEFINE good == pc[w] = "collect" /\ result[box[w]] = "ok"
  <2>1. good \in BOOLEAN /\ told' = told \cup {[m |-> Mine(w), ok |-> good]}
    OBVIOUS
  <2> HIDE DEF good
  <2>2. [m |-> Mine(w), ok |-> good] \in [m : Message, ok : BOOLEAN]
    BY <2>1, <1>3
  <2> QED
    BY <2>1, <2>2 DEF TypeOK
<1>5. TypeOK'
  BY <1>1, <1>2, <1>4 DEF TypeOK, boxes, mailbox
<1>6. Started'
  BY <1>1 DEF Started
<1>7. SemQueue'
  BY <1>0, <1>1 DEF SemQueue
<1>8. WaiterSleeps'
  BY <1>1, Constants DEF WaiterSleeps, TypeOK, boxes
<1>9. SemCounts'
  <2>1. Claims' = Claims \cup {w} /\ sem' = sem
    BY <1>1 DEF Claims
  <2>2. Cardinality(Claims') = Cardinality(Claims) + 1
    BY <2>1, <1>0, FS_AddElement
  <2> QED
    BY <2>1, <2>2, <1>0, <1>2 DEF SemCounts, TypeOK
<1>10. \A v \in Writers : Holding(v)' <=> v # w /\ Holding(v)
  BY <1>1 DEF Holding
<1>11. \A v \in Writers : pc'[v] = "pop" => free' # << >>
  <2>1. Claims' \in SUBSET Writers /\ sem' \in Nat /\ free' \in Seq(Boxes)
    BY <1>5 DEF Claims, TypeOK
  <2> QED
    BY <2>1, <1>9, ClaimedNotEmpty DEF Claims, SemCounts
<1>12. \A v \in Writers : Holding(v)' => box'[v] \notin Range(free')
  BY <1>0, <1>2, <1>10 DEF BoxesConserved
<1>13. \A u, v \in Writers : Holding(u)' /\ Holding(v)' /\ box'[u] = box'[v] => u = v
  BY <1>10 DEF BoxesConserved
<1>14. BoxesConserved'
  BY <1>2, <1>11, <1>12, <1>13 DEF BoxesConserved
<1> QED
  BY <1>5, <1>6, <1>7, <1>8, <1>9, <1>14

(* The semaphore goes to the first waiting thread, or is counted up.       *)
LEMMA ReleaseSemKeeps ==
  ASSUME BoxesInv, NEW w \in Writers, ReleaseSem(w)
  PROVE  BoxesInv'
<1> USE DEF BoxesInv, ReleaseSem, Goto
<1>0. /\ w \in Claims /\ IsFiniteSet(Claims) /\ sem < NBoxes
      /\ Range(semq) \subseteq Writers /\ w \notin Range(semq)
      /\ Cardinality(Claims) \in Nat /\ Len(free) \in Nat
  BY ClaimsCount, InRange, FreeLength DEF Claims, TypeOK, SemQueue, BoxesConserved
<1>1. /\ semq # << >> => /\ Head(semq) \in Range(semq) /\ pc[Head(semq)] = "semwait"
                         /\ Head(semq) \in Writers /\ Head(semq) # w
                         /\ Range(semq) = Range(Tail(semq)) \cup {Head(semq)}
                         /\ IsInjective(Tail(semq)) /\ Head(semq) \notin Range(Tail(semq))
                         /\ Tail(semq) \in Seq(Writers)
  BY <1>0, TailRange, HeadTailProperties DEF SemQueue, TypeOK
<1>2. /\ \A v \in Writers : v # w /\ (semq = << >> \/ v # Head(semq)) => pc'[v] = pc[v]
      /\ pc[w] = "release" /\ pc'[w] = "idle"
      /\ semq # << >> => pc'[Head(semq)] = "pop"
      /\ pc' \in [Writers -> {"idle", "semwait", "pop", "init", "send", "wait",
                              "asleep", "collect", "refused", "release"}]
  <2>1. CASE semq = << >>
    BY <2>1 DEF TypeOK
  <2>2. CASE semq # << >>
    BY <2>2, <1>1 DEF TypeOK
  <2> QED
    BY <2>1, <2>2
<1>3. sem' \in 0..NBoxes /\ semq' \in Seq(Writers)
  <2>1. sem \in 0..NBoxes /\ NBoxes \in Nat /\ sem + 1 \in 0..NBoxes
    BY <1>0, Constants DEF TypeOK
  <2>2. CASE semq = << >>
    BY <2>1, <2>2 DEF TypeOK
  <2>3. CASE semq # << >>
    BY <2>1, <2>3, <1>1
  <2> QED
    BY <2>2, <2>3
<1>4. TypeOK'
  BY <1>2, <1>3 DEF TypeOK, boxes, mailbox
<1>5. Started'
  BY <1>1, <1>2 DEF Started
<1>6. SemQueue'
  <2>1. CASE semq = << >>
    BY <2>1, <1>0, <1>2 DEF SemQueue
  <2>2. CASE semq # << >>
    BY <2>2, <1>0, <1>1, <1>2 DEF SemQueue
  <2> QED
    BY <2>1, <2>2
<1>7. WaiterSleeps'
  BY <1>1, <1>2, Constants DEF WaiterSleeps, TypeOK, boxes
<1>8. SemCounts'
  <2>1. CASE semq = << >>
    <3>1. Claims' = Claims \ {w} /\ sem' = sem + 1
      BY <2>1, <1>2 DEF Claims
    <3>2. Cardinality(Claims') = Cardinality(Claims) - 1
      BY <3>1, <1>0, FS_RemoveElement
    <3> QED
      BY <3>1, <3>2, <1>0 DEF SemCounts, TypeOK
  <2>2. CASE semq # << >>
    <3>1. /\ Claims' = (Claims \ {w}) \cup {Head(semq)} /\ sem' = sem
          /\ Head(semq) \notin Claims \ {w}
      BY <2>2, <1>1, <1>2 DEF Claims
    <3>2. IsFiniteSet(Claims \ {w}) /\ Cardinality(Claims \ {w}) = Cardinality(Claims) - 1
      BY <1>0, FS_RemoveElement
    <3>3. Cardinality(Claims') = Cardinality(Claims \ {w}) + 1
      BY <3>1, <3>2, FS_AddElement
    <3> QED
      BY <3>1, <3>2, <3>3, <1>0 DEF SemCounts, TypeOK
  <2> QED
    BY <2>1, <2>2
<1>9. \A v \in Writers : Holding(v)' <=> Holding(v)
  <2>1. CASE semq = << >>
    BY <2>1, <1>2 DEF Holding
  <2>2. CASE semq # << >>
    BY <2>2, <1>1, <1>2 DEF Holding
  <2> QED
    BY <2>1, <2>2
<1>10. \A v \in Writers : pc'[v] = "pop" => free' # << >>
  <2>1. Claims' \in SUBSET Writers /\ sem' \in Nat /\ free' \in Seq(Boxes)
    BY <1>4 DEF Claims, TypeOK
  <2> QED
    BY <2>1, <1>8, ClaimedNotEmpty DEF Claims, SemCounts
<1>11. BoxesConserved'
  BY <1>9, <1>10 DEF BoxesConserved
<1> QED
  BY <1>4, <1>5, <1>6, <1>7, <1>8, <1>11

(* A step of a writer that holds its box and keeps it.                     *)
LEMMA HolderKeeps ==
  ASSUME BoxesInv, NEW w \in Writers, Holding(w),
         NEW l \in {"send", "wait", "refused", "asleep", "collect"}, Goto(w, l),
         UNCHANGED << count, box, free, sem, semq >>,
         \A c \in Boxes : \/ waiter'[c] = NoWriter
                          \/ waiter'[c] = waiter[c] /\ waiter[c] # w
                          \/ waiter'[c] = w /\ c = box[w] /\ l = "asleep"
  PROVE  /\ pc' \in [Writers -> {"idle", "semwait", "pop", "init", "send", "wait",
                                 "asleep", "collect", "refused", "release"}]
         /\ Started' /\ SemQueue' /\ WaiterSleeps' /\ SemCounts' /\ BoxesConserved'
<1> USE DEF BoxesInv, Goto
<1>0. Range(semq) \subseteq Writers /\ w \notin Range(semq) /\ w \notin Claims
  BY InRange DEF TypeOK, SemQueue, Holding, Claims
<1>1. /\ \A v \in Writers : v # w => pc'[v] = pc[v]
      /\ pc'[w] = l
      /\ pc' \in [Writers -> {"idle", "semwait", "pop", "init", "send", "wait",
                              "asleep", "collect", "refused", "release"}]
  BY DEF TypeOK
<1>2. Started'
  BY <1>1 DEF Started, Holding
<1>3. SemQueue'
  BY <1>0, <1>1 DEF SemQueue
<1>4. WaiterSleeps'
  BY <1>1, Constants DEF WaiterSleeps, TypeOK
<1>5. Claims' = Claims
  BY <1>0, <1>1 DEF Claims
<1>6. SemCounts'
  BY <1>5 DEF SemCounts
<1>7. \A v \in Writers : Holding(v)' <=> Holding(v)
  BY <1>1 DEF Holding
<1>8. BoxesConserved'
  BY <1>1, <1>7 DEF BoxesConserved
<1> QED
  BY <1>1, <1>2, <1>3, <1>4, <1>6, <1>8

LEMMA InitBoxKeeps ==
  ASSUME BoxesInv, NEW w \in Writers, InitBox(w)
  PROVE  BoxesInv'
<1> USE DEF BoxesInv, InitBox
<1>1. Holding(w) /\ box[w] \in Boxes
  BY DEF Holding, TypeOK
<1>2. \A c \in Boxes : waiter[c] # w
  BY Constants DEF WaiterSleeps
<1>3. /\ pc' \in [Writers -> {"idle", "semwait", "pop", "init", "send", "wait",
                              "asleep", "collect", "refused", "release"}]
      /\ Started' /\ SemQueue' /\ WaiterSleeps' /\ SemCounts' /\ BoxesConserved'
  BY <1>1, <1>2, HolderKeeps DEF fifo, TypeOK
<1>4. TypeOK'
  BY <1>3 DEF TypeOK, fifo, mailbox
<1> QED
  BY <1>3, <1>4

LEMMA SendMsgKeeps ==
  ASSUME BoxesInv, NEW w \in Writers, NEW started \in BOOLEAN, SendMsg(w, started)
  PROVE  BoxesInv'
<1> USE DEF BoxesInv, SendMsg
<1>1. Holding(w) /\ box[w] \in Boxes
  BY DEF Holding, TypeOK
<1>2. \A c \in Boxes : waiter'[c] = waiter[c] /\ waiter[c] # w
  BY Constants DEF WaiterSleeps, boxes
<1>3. /\ pc' \in [Writers -> {"idle", "semwait", "pop", "init", "send", "wait",
                              "asleep", "collect", "refused", "release"}]
      /\ Started' /\ SemQueue' /\ WaiterSleeps' /\ SemCounts' /\ BoxesConserved'
  BY <1>1, <1>2, HolderKeeps DEF fifo
<1>4. Mine(w) \in Message
  BY Constants DEF Started, TypeOK, Mine, Message
<1>5. /\ mail' \in [Boxes -> Message \cup {NoMessage}]
      /\ rqcp' \in [Boxes -> BOOLEAN] /\ txok' \in [Boxes -> BOOLEAN]
  BY <1>4 DEF TypeOK
<1>6. TypeOK'
  BY <1>3, <1>5 DEF TypeOK, fifo, boxes
<1> QED
  BY <1>3, <1>6

LEMMA WaitKeeps ==
  ASSUME BoxesInv, NEW w \in Writers, Wait(w)
  PROVE  BoxesInv'
<1> USE DEF BoxesInv, Wait
<1>1. Holding(w) /\ box[w] \in Boxes
  BY DEF Holding, TypeOK
<1>2. \A c \in Boxes : waiter[c] # w
  BY Constants DEF WaiterSleeps
<1>3. /\ pc' \in [Writers -> {"idle", "semwait", "pop", "init", "send", "wait",
                              "asleep", "collect", "refused", "release"}]
      /\ Started' /\ SemQueue' /\ WaiterSleeps' /\ SemCounts' /\ BoxesConserved'
  <2>1. CASE completed[box[w]]
    BY <2>1, <1>1, <1>2, HolderKeeps DEF fifo
  <2>2. CASE ~completed[box[w]]
    <3>1. Goto(w, "asleep") /\ \A c \in Boxes : \/ waiter'[c] = waiter[c]
                                                \/ waiter'[c] = w /\ c = box[w]
      BY <2>2 DEF TypeOK
    <3> QED
      BY <3>1, <1>1, <1>2, HolderKeeps DEF fifo
  <2> QED
    BY <2>1, <2>2
<1>4. completed' \in [Boxes -> BOOLEAN] /\ waiter' \in [Boxes -> Writers \cup {NoWriter}]
  BY DEF TypeOK
<1>5. TypeOK'
  BY <1>3, <1>4 DEF TypeOK, fifo, mailbox
<1> QED
  BY <1>3, <1>5

LEMMA TransmitKeeps ==
  ASSUME BoxesInv, NEW b \in Boxes, NEW outcome \in {"ok", "noack", "other"},
         Transmit(b, outcome)
  PROVE  BoxesInv'
<1> USE DEF BoxesInv, Transmit, thread, fifo, boxes
<1>1. Started' /\ SemQueue' /\ WaiterSleeps' /\ SemCounts' /\ BoxesConserved'
  BY DEF Started, SemQueue, WaiterSleeps, SemCounts, Claims, BoxesConserved, Holding
<1>2. bus' \in Seq(Message)
  <2>1. mail[b] \in Message /\ bus \in Seq(Message)
    BY DEF TypeOK
  <2> QED
    BY <2>1, AppendProperties
<1>3. TypeOK'
  BY <1>2 DEF TypeOK
<1> QED
  BY <1>1, <1>3

LEMMA TxIsrKeeps ==
  ASSUME BoxesInv, NEW b \in Boxes, TxIsr(b)
  PROVE  BoxesInv'
<1> USE DEF BoxesInv, TxIsr, ClearRqcp, fifo
<1>1. PICK r \in {"ok", "err"} : Complete(b, r)
  OBVIOUS
<1>2. Started' /\ SemQueue' /\ WaiterSleeps' /\ SemCounts' /\ BoxesConserved'
  BY <1>1, WakeKeeps
<1>3. TypeOK'
  BY <1>1, CompleteWakes DEF TypeOK
<1> QED
  BY <1>2, <1>3

LEMMA SceIsrKeeps ==
  ASSUME BoxesInv, SceIsr
  PROVE  BoxesInv'
<1> USE DEF BoxesInv, SceIsr, ClearRqcp, fifo
<1>1. /\ rqcp' \in [Boxes -> BOOLEAN] /\ txok' \in [Boxes -> BOOLEAN]
      /\ (UNCHANGED << boxes, pc >>) \/ \E b \in Boxes : Complete(b, "err")
  BY DEF TypeOK
<1>2. CASE UNCHANGED << boxes, pc >>
  <2>1. Started' /\ SemQueue' /\ WaiterSleeps' /\ SemCounts' /\ BoxesConserved'
    BY <1>2 DEF Started, SemQueue, WaiterSleeps, SemCounts, Claims, BoxesConserved,
                Holding, boxes
  <2> QED
    BY <2>1, <1>1, <1>2 DEF TypeOK, boxes
<1>3. CASE \E b \in Boxes : Complete(b, "err")
  <2>1. PICK b \in Boxes : Complete(b, "err")
    BY <1>3
  <2>2. Started' /\ SemQueue' /\ WaiterSleeps' /\ SemCounts' /\ BoxesConserved'
    BY <2>1, WakeKeeps
  <2> QED
    BY <2>1, <2>2, <1>1, CompleteWakes DEF TypeOK
<1> QED
  BY <1>1, <1>2, <1>3

LEMMA BoxesStep == BoxesInv /\ [Next]_vars => BoxesInv'
<1> SUFFICES ASSUME BoxesInv, [Next]_vars PROVE BoxesInv'
  OBVIOUS
<1>1. ASSUME NEW w \in Writers, Writer(w) PROVE BoxesInv'
  BY <1>1, TakeSemKeeps, PopBoxKeeps, InitBoxKeeps, SendMsgKeeps, WaitKeeps, CollectKeeps,
     ReleaseSemKeeps DEF Writer
<1>2. ASSUME NEW b \in Boxes, Controller(b) \/ TxIsr(b) PROVE BoxesInv'
  BY <1>2, TransmitKeeps, TxIsrKeeps DEF Controller
<1>3. CASE UNCHANGED vars
  BY <1>3 DEF BoxesInv, TypeOK, Started, SemQueue, WaiterSleeps, SemCounts, Claims,
              BoxesConserved, Holding, vars, thread, fifo, boxes, mailbox
<1> QED
  BY <1>1, <1>2, <1>3, SceIsrKeeps DEF Next

(* Every variable keeps its type.                                          *)
THEOREM TypeCorrect == Spec => []TypeOK
<1>1. BoxesInv => TypeOK
  BY DEF BoxesInv
<1> QED
  BY <1>1, BoxesInit, BoxesStep, PTL DEF Spec

(* A box is on freelist or held by one writer, whatever the number of      *)
(* writers, and a writer that has the semaphore finds freelist not empty.  *)
THEOREM BoxesAreConserved == Spec => []BoxesConserved
<1>1. BoxesInv => BoxesConserved
  BY DEF BoxesInv
<1> QED
  BY <1>1, BoxesInit, BoxesStep, PTL DEF Spec

-----------------------------------------------------------------------------
(* The result of a write.                                                  *)

Sent(m) == m \in Range(bus)
Pending(w) == pc[w] \in {"wait", "asleep"}

(* Nothing is sent for a write before its message is in the mailbox, and   *)
(* a refused message never is.                                             *)
UnsentBefore ==
  \A w \in Writers :
    pc[w] \in {"semwait", "pop", "init", "send", "refused"} => ~Sent(Mine(w))

(* A message in a mailbox is that of a pending writer, not yet attempted.  *)
MailPending ==
  \A b \in Boxes : mail[b] # NoMessage =>
    /\ ~rqcp[b] /\ ~completed[b]
    /\ \E w \in Writers : /\ Pending(w) /\ box[w] = b
                          /\ mail[b] = Mine(w) /\ ~Sent(Mine(w))

(* RQCP stands for the message of a pending writer not told yet, and TXOK  *)
(* says whether it was sent.                                               *)
RqcpPending ==
  \A b \in Boxes : rqcp[b] =>
    /\ ~completed[b]
    /\ \E w \in Writers : Pending(w) /\ box[w] = b /\ (txok[b] <=> Sent(Mine(w)))

(* The result in a completed box is that of its holder's message.          *)
ResultsHonest ==
  \A w \in Writers :
    /\ pc[w] = "send" => ~completed[box[w]]
    /\ \/ pc[w] = "collect"
       \/ Pending(w) /\ completed[box[w]]
       => (result[box[w]] = "ok" <=> Sent(Mine(w)))

(* Only messages of begun writes are sent or told of, and of the current   *)
(* write no one is told before it is collected.                            *)
Begun == /\ \A m \in Range(bus) : m.n <= count[m.by]
         /\ \A t \in told : /\ t.m.n <= count[t.m.by]
                            /\ t.m = Mine(t.m.by) => pc[t.m.by] \in {"idle", "release"}

TruthInv == /\ UnsentBefore /\ MailPending /\ RqcpPending /\ ResultsHonest
            /\ Begun /\ ResultTruthful

(* A box held by two writers is held by one.                               *)
LEMMA OneHolder ==
  ASSUME BoxesInv, NEW u \in Writers, NEW v \in Writers, Holding(u), Holding(v), box[u] = box[v]
  PROVE  u = v
  BY DEF BoxesInv, BoxesConserved

LEMMA TruthInit == Init => TruthInv
<1> SUFFICES ASSUME Init PROVE TruthInv
  OBVIOUS
<1>1. bus = << >> /\ Range(bus) = {} /\ told = {} /\ \A w \in Writers : pc[w] = "idle"
  BY DEF Init, Range
<1>2. \A b \in Boxes : mail[b] = NoMessage /\ ~rqcp[b]
  BY DEF Init
<1> QED
  BY <1>1, <1>2 DEF TruthInv, UnsentBefore, MailPending, RqcpPending, ResultsHonest, Begun,
                    ResultTruthful, Pending

(* A new write's message is newer than every message sent or told of.      *)
LEMMA TakeSemTells ==
  ASSUME BoxesInv, TruthInv, NEW w \in Writers, TakeSem(w)
  PROVE  TruthInv'
<1> USE DEF BoxesInv, TruthInv, TakeSem, Goto, boxes, mailbox
<1>1. /\ \A v \in Writers : v # w => pc'[v] = pc[v] /\ count'[v] = count[v]
      /\ pc[w] = "idle" /\ pc'[w] \in {"pop", "semwait"} /\ count'[w] = count[w] + 1
      /\ count[w] \in Nat
  BY DEF TypeOK
<1>2. \A v \in Writers : v # w => Mine(v)' = Mine(v)
  BY <1>1 DEF Mine
<1>3. /\ Range(bus) \subseteq Message /\ \A m \in Message : m.by \in Writers /\ m.n \in Nat
      /\ \A t \in told : t.m \in Message
  <2>1. Range(bus) \subseteq Message
    BY InRange DEF TypeOK
  <2>2. \A m \in Message : m.by \in Writers /\ m.n \in Nat
    BY Constants DEF Message
  <2>3. \A t \in told : t.m \in Message
    BY DEF TypeOK
  <2> QED
    BY <2>1, <2>2, <2>3
<1>4. \A m \in Message : m.n <= count[m.by] => m.n <= count'[m.by] /\ m # Mine(w)'
  BY <1>1, <1>3, Constants DEF Mine, TypeOK
<1>5. UnsentBefore'
  BY <1>1, <1>2, <1>3, <1>4 DEF UnsentBefore, Begun, Sent
<1>6. \A v \in Writers : Pending(v)' <=> v # w /\ Pending(v)
  BY <1>1 DEF Pending
<1>7. MailPending'
  <2>1. ASSUME NEW b \in Boxes, mail[b] # NoMessage
        PROVE \E v \in Writers : /\ Pending(v)' /\ box'[v] = b
                                 /\ mail'[b] = Mine(v)' /\ ~Sent(Mine(v))'
    <3>1. PICK v \in Writers : /\ Pending(v) /\ box[v] = b
                               /\ mail[b] = Mine(v) /\ ~Sent(Mine(v))
      BY <2>1 DEF MailPending
    <3> QED
      BY <3>1, <1>1, <1>2, <1>6 DEF Sent, Pending
  <2> QED
    BY <2>1 DEF MailPending
<1>8. RqcpPending'
  <2>1. ASSUME NEW b \in Boxes, rqcp[b]
        PROVE \E v \in Writers : Pending(v)' /\ box'[v] = b /\ (txok'[b] <=> Sent(Mine(v))')
    <3>1. PICK v \in Writers : Pending(v) /\ box[v] = b /\ (txok[b] <=> Sent(Mine(v)))
      BY <2>1 DEF RqcpPending
    <3> QED
      BY <3>1, <1>1, <1>2, <1>6 DEF Sent, Pending
  <2> QED
    BY <2>1 DEF RqcpPending
<1>9. ResultsHonest'
  BY <1>1, <1>2, <1>6 DEF ResultsHonest, Sent
<1>10. Begun'
  BY <1>1, <1>2, <1>3, <1>4 DEF Begun
<1>11. ResultTruthful'
  BY DEF ResultTruthful
<1> QED
  BY <1>5, <1>7, <1>8, <1>9, <1>10, <1>11

(* A step that leaves messages, results and pending writers alone.         *)
LEMMA QuietTells ==
  ASSUME BoxesInv, TruthInv, UNCHANGED << count, boxes, mailbox, bus, told >>,
         \A w \in Writers : (Pending(w)' <=> Pending(w)) /\ (Pending(w) => box'[w] = box[w]),
         \A w \in Writers : \/ pc'[w] = pc[w] /\ (pc[w] # "pop" => box'[w] = box[w])
                            \/ pc[w] = "semwait" /\ pc'[w] = "pop"
                            \/ pc[w] = "pop" /\ pc'[w] = "init"
                            \/ pc[w] = "release" /\ pc'[w] = "idle"
  PROVE  TruthInv'
<1> USE DEF BoxesInv, TruthInv, boxes, mailbox
<1>1. \A w \in Writers : (Mine(w)' = Mine(w)) /\ (Sent(Mine(w))' <=> Sent(Mine(w)))
  BY DEF Mine, Sent
<1>2. UnsentBefore'
  BY <1>1 DEF UnsentBefore
<1>3. MailPending'
  BY <1>1 DEF MailPending
<1>4. RqcpPending'
  BY <1>1 DEF RqcpPending
<1>5. ResultsHonest'
  BY <1>1 DEF ResultsHonest
<1>6. \A t \in told : t.m.by \in Writers
  BY DEF TypeOK, Message
<1>7. Begun' /\ ResultTruthful'
  BY <1>1, <1>6 DEF Begun, ResultTruthful
<1> QED
  BY <1>2, <1>3, <1>4, <1>5, <1>7

(* A box is made ready for one message.                                    *)
LEMMA InitBoxTells ==
  ASSUME BoxesInv, TruthInv, NEW w \in Writers, InitBox(w)
  PROVE  TruthInv'
<1> USE DEF BoxesInv, TruthInv, InitBox, Goto, fifo, mailbox
<1>1. /\ \A v \in Writers : v # w => pc'[v] = pc[v]
      /\ pc[w] = "init" /\ pc'[w] = "send" /\ box[w] \in Boxes /\ Holding(w)
      /\ \A v \in Writers : box[v] \in Boxes
  BY DEF TypeOK, Holding
<1>2. \A v \in Writers : (Mine(v)' = Mine(v)) /\ (Sent(Mine(v))' <=> Sent(Mine(v)))
  BY DEF Mine, Sent
<1>3. \A v \in Writers : Pending(v)' <=> Pending(v)
  BY <1>1 DEF Pending
<1>4. \A v \in Writers : Pending(v) \/ pc[v] \in {"send", "collect"} => box[v] # box[w]
  BY <1>1, OneHolder DEF Holding, Pending
<1>5. /\ ~completed'[box[w]]
      /\ \A c \in Boxes : c # box[w] => completed'[c] = completed[c] /\ result'[c] = result[c]
  BY <1>1 DEF TypeOK
<1>6. UnsentBefore'
  BY <1>1, <1>2 DEF UnsentBefore
<1>7. MailPending'
  BY <1>2, <1>3, <1>5 DEF MailPending
<1>8. RqcpPending'
  BY <1>2, <1>3, <1>5 DEF RqcpPending
<1>9. ResultsHonest'
  <2>1. ASSUME NEW v \in Writers
        PROVE  /\ pc'[v] = "send" => ~completed'[box'[v]]
               /\ \/ pc'[v] = "collect"
                  \/ Pending(v)' /\ completed'[box'[v]]
                  => (result'[box'[v]] = "ok" <=> Sent(Mine(v))')
    BY <1>1, <1>2, <1>3, <1>4, <1>5 DEF ResultsHonest
  <2> QED
    BY <2>1 DEF ResultsHonest
<1>10. \A t \in told : t.m.by \in Writers
  BY DEF TypeOK, Message
<1>11. Begun' /\ ResultTruthful'
  BY <1>1, <1>2, <1>10 DEF Begun, ResultTruthful
<1> QED
  BY <1>6, <1>7, <1>8, <1>9, <1>11

(* The message is put in the box's mailbox, or refused.                    *)
LEMMA SendMsgTells ==
  ASSUME BoxesInv, TruthInv, NEW w \in Writers, NEW started \in BOOLEAN, SendMsg(w, started)
  PROVE  TruthInv'
<1> USE DEF BoxesInv, TruthInv, SendMsg, Goto, fifo, boxes
<1>1. /\ \A v \in Writers : v # w => pc'[v] = pc[v]
      /\ pc[w] = "send" /\ pc'[w] \in {"wait", "refused"} /\ box[w] \in Boxes /\ Holding(w)
      /\ ~Sent(Mine(w)) /\ ~completed[box[w]]
  BY DEF TypeOK, Holding, UnsentBefore, ResultsHonest
<1>2. \A v \in Writers : (Mine(v)' = Mine(v)) /\ (Sent(Mine(v))' <=> Sent(Mine(v)))
  BY DEF Mine, Sent
<1>3. \A v \in Writers : v # w => (Pending(v)' <=> Pending(v))
  BY <1>1 DEF Pending
<1>4. ~Pending(w) /\ (Pending(w)' <=> pc'[w] = "wait")
  BY <1>1 DEF Pending
<1>5. /\ \A c \in Boxes : c # box[w] => /\ mail'[c] = mail[c] /\ rqcp'[c] = rqcp[c]
                                        /\ txok'[c] = txok[c]
      /\ \/ pc'[w] = "wait" /\ mail'[box[w]] = Mine(w) /\ ~rqcp'[box[w]]
         \/ mail' = mail /\ rqcp' = rqcp /\ txok' = txok
  BY <1>1 DEF TypeOK
<1>6. UnsentBefore'
  BY <1>1, <1>2 DEF UnsentBefore
<1>7. MailPending'
  <2>1. ASSUME NEW b \in Boxes, mail'[b] # NoMessage
        PROVE  /\ ~rqcp'[b] /\ ~completed'[b]
               /\ \E v \in Writers : /\ Pending(v)' /\ box'[v] = b
                                     /\ mail'[b] = Mine(v)' /\ ~Sent(Mine(v))'
    <3>1. CASE mail'[b] = mail[b] /\ rqcp'[b] = rqcp[b]
      <4>1. PICK v \in Writers : /\ Pending(v) /\ box[v] = b
                                 /\ mail[b] = Mine(v) /\ ~Sent(Mine(v))
        BY <2>1, <3>1 DEF MailPending
      <4>2. v # w
        BY <4>1, <1>4
      <4> QED
        BY <2>1, <3>1, <4>1, <4>2, <1>2, <1>3 DEF MailPending
    <3>2. CASE b = box[w] /\ pc'[w] = "wait" /\ mail'[box[w]] = Mine(w) /\ ~rqcp'[box[w]]
      BY <3>2, <1>1, <1>2, <1>4
    <3> QED
      BY <3>1, <3>2, <1>5
  <2> QED
    BY <2>1 DEF MailPending
<1>8. RqcpPending'
  <2>1. ASSUME NEW b \in Boxes, rqcp'[b]
        PROVE  /\ ~completed'[b]
               /\ \E v \in Writers : Pending(v)' /\ box'[v] = b /\ (txok'[b] <=> Sent(Mine(v))')
    <3>1. rqcp[b] /\ txok'[b] = txok[b]
      BY <2>1, <1>5
    <3>2. PICK v \in Writers : Pending(v) /\ box[v] = b /\ (txok[b] <=> Sent(Mine(v)))
      BY <3>1 DEF RqcpPending
    <3>3. v # w
      BY <3>2, <1>4
    <3> QED
      BY <3>1, <3>2, <3>3, <1>2, <1>3 DEF RqcpPending
  <2> QED
    BY <2>1 DEF RqcpPending
<1>9. ResultsHonest'
  BY <1>1, <1>2, <1>3, <1>4 DEF ResultsHonest
<1>10. \A t \in told : t.m.by \in Writers
  BY DEF TypeOK, Message
<1>11. Begun' /\ ResultTruthful'
  BY <1>1, <1>2, <1>10 DEF Begun, ResultTruthful
<1> QED
  BY <1>6, <1>7, <1>8, <1>9, <1>11

(* The completion is taken, or slept on.                                   *)
LEMMA WaitTells ==
  ASSUME BoxesInv, TruthInv, NEW w \in Writers, Wait(w)
  PROVE  TruthInv'
<1> USE DEF BoxesInv, TruthInv, Wait, Goto, fifo, mailbox
<1>1. /\ \A v \in Writers : v # w => pc'[v] = pc[v]
      /\ pc[w] = "wait" /\ box[w] \in Boxes /\ Holding(w) /\ Pending(w)
      /\ \A v \in Writers : box[v] \in Boxes
  BY DEF TypeOK, Holding, Pending
<1>2. \A v \in Writers : (Mine(v)' = Mine(v)) /\ (Sent(Mine(v))' <=> Sent(Mine(v)))
  BY DEF Mine, Sent
<1>3. \A v \in Writers : v # w => (Pending(v)' <=> Pending(v))
  BY <1>1 DEF Pending
<1>4. \A v \in Writers : v # w /\ Holding(v) => box[v] # box[w]
  BY <1>1, OneHolder
<1>5. \/ /\ completed[box[w]] /\ pc'[w] = "collect" /\ ~completed'[box[w]]
         /\ \A c \in Boxes : c # box[w] => completed'[c] = completed[c]
      \/ ~completed[box[w]] /\ pc'[w] = "asleep" /\ completed' = completed
  BY <1>1 DEF TypeOK
<1>6. UnsentBefore'
  BY <1>1, <1>2, <1>5 DEF UnsentBefore
<1>7. MailPending'
  <2>1. ASSUME NEW b \in Boxes, mail[b] # NoMessage
        PROVE  /\ ~rqcp[b] /\ ~completed'[b]
               /\ \E v \in Writers : /\ Pending(v)' /\ box[v] = b
                                     /\ mail[b] = Mine(v)' /\ ~Sent(Mine(v))'
    <3>1. PICK v \in Writers : /\ Pending(v) /\ box[v] = b
                               /\ mail[b] = Mine(v) /\ ~Sent(Mine(v))
      BY <2>1 DEF MailPending
    <3>2. ~rqcp[b] /\ ~completed[b]
      BY <2>1 DEF MailPending
    <3>3. Pending(v)' /\ ~completed'[b]
      BY <3>1, <3>2, <1>1, <1>3, <1>5 DEF Pending
    <3> QED
      BY <3>1, <3>2, <3>3, <1>2
  <2> QED
    BY <2>1 DEF MailPending
<1>8. RqcpPending'
  <2>1. ASSUME NEW b \in Boxes, rqcp[b]
        PROVE  /\ ~completed'[b]
               /\ \E v \in Writers : Pending(v)' /\ box[v] = b /\ (txok[b] <=> Sent(Mine(v))')
    <3>1. PICK v \in Writers : Pending(v) /\ box[v] = b /\ (txok[b] <=> Sent(Mine(v)))
      BY <2>1 DEF RqcpPending
    <3>2. ~completed[b]
      BY <2>1 DEF RqcpPending
    <3>3. Pending(v)' /\ ~completed'[b]
      BY <3>1, <3>2, <1>1, <1>3, <1>5 DEF Pending
    <3> QED
      BY <3>1, <3>3, <1>2
  <2> QED
    BY <2>1 DEF RqcpPending
<1>9. ResultsHonest'
  <2>1. ASSUME NEW v \in Writers, v # w
        PROVE  /\ pc'[v] = "send" => ~completed'[box[v]]
               /\ \/ pc'[v] = "collect"
                  \/ Pending(v)' /\ completed'[box[v]]
                  => (result[box[v]] = "ok" <=> Sent(Mine(v)))
    BY <2>1, <1>1, <1>3, <1>4, <1>5 DEF ResultsHonest, Pending, Holding
  <2>2. /\ pc'[w] # "send"
        /\ \/ pc'[w] = "collect"
           \/ Pending(w)' /\ completed'[box[w]]
           => (result[box[w]] = "ok" <=> Sent(Mine(w)))
    BY <1>1, <1>5 DEF ResultsHonest
  <2> QED
    BY <2>1, <2>2, <1>2 DEF ResultsHonest
<1>10. \A t \in told : t.m.by \in Writers
  BY DEF TypeOK, Message
<1>11. Begun' /\ ResultTruthful'
  BY <1>1, <1>2, <1>10 DEF Begun, ResultTruthful
<1> QED
  BY <1>6, <1>7, <1>8, <1>9, <1>11

(* The result is told.                                                     *)
LEMMA CollectTells ==
  ASSUME BoxesInv, TruthInv, NEW w \in Writers, Collect(w)
  PROVE  TruthInv'
<1> USE DEF BoxesInv, TruthInv, Collect, Goto, boxes, mailbox
<1>1. /\ \A v \in Writers : v # w => pc'[v] = pc[v]
      /\ pc[w] \in {"collect", "refused"} /\ pc'[w] = "release"
  BY DEF TypeOK
<1>2. \A v \in Writers : (Mine(v)' = Mine(v)) /\ (Sent(Mine(v))' <=> Sent(Mine(v)))
  BY DEF Mine, Sent
<1>3. \A v \in Writers : Pending(v)' <=> Pending(v)
  BY <1>1 DEF Pending
<1>4. UnsentBefore'
  BY <1>1, <1>2 DEF UnsentBefore
<1>5. MailPending'
  BY <1>2, <1>3 DEF MailPending
<1>6. RqcpPending'
  BY <1>2, <1>3 DEF RqcpPending
<1>7. ResultsHonest'
  BY <1>1, <1>2, <1>3 DEF ResultsHonest
<1>8. PICK good \in BOOLEAN : /\ told' = told \cup {[m |-> Mine(w), ok |-> good]}
                              /\ good <=> pc[w] = "collect" /\ result[box[w]] = "ok"
  OBVIOUS
<1>9. good <=> Sent(Mine(w))
  BY <1>1, <1>8 DEF UnsentBefore, ResultsHonest
<1>10. \A t \in told' : t \in told \/ (t.m = Mine(w) /\ t.ok = good)
  BY <1>8
<1>11. ResultTruthful'
  BY <1>2, <1>9, <1>10 DEF ResultTruthful, Sent
<1>12. \A t \in told : t.m.by \in Writers
  BY DEF TypeOK, Message
<1>13. Mine(w).by = w /\ Mine(w).n = count[w] /\ count[w] <= count[w]
  BY DEF Mine, TypeOK
<1>14. Begun'
  BY <1>1, <1>2, <1>10, <1>12, <1>13 DEF Begun
<1> QED
  BY <1>4, <1>5, <1>6, <1>7, <1>11, <1>14

(* The controller attempts a message: the bus and TXOK agree.              *)
LEMMA TransmitTells ==
  ASSUME BoxesInv, TruthInv, NEW b \in Boxes, NEW outcome \in {"ok", "noack", "other"},
         Transmit(b, outcome)
  PROVE  TruthInv'
<1> USE DEF BoxesInv, TruthInv, Transmit, thread, fifo, boxes
<1>1. PICK w \in Writers : /\ Pending(w) /\ box[w] = b
                           /\ mail[b] = Mine(w) /\ ~Sent(Mine(w))
  BY DEF MailPending
<1>2. ~completed[b] /\ ~rqcp[b]
  BY DEF MailPending
<1>3. Mine(w) \in Message /\ bus \in Seq(Message) /\ count[w] <= count[w]
  BY <1>1, Constants DEF Started, TypeOK, Mine, Message, Pending
<1>4. Range(bus') = IF outcome = "ok" THEN Range(bus) \cup {Mine(w)} ELSE Range(bus)
  <2>1. CASE outcome = "ok"
    <3>1. bus' = Append(bus, Mine(w))
      BY <2>1, <1>1
    <3> QED
      BY <2>1, <3>1, <1>3, AppendRange
  <2>2. CASE outcome # "ok"
    BY <2>2
  <2> QED
    BY <2>1, <2>2
<1>5. \A v \in Writers : (Mine(v)' = Mine(v)) /\ (Pending(v)' <=> Pending(v))
  BY DEF Mine, Pending
<1>6. \A m : m # Mine(w) => (Sent(m)' <=> Sent(m))
  BY <1>4 DEF Sent
<1>7. \A v \in Writers : v # w => Mine(v) # Mine(w)
  BY DEF Mine
<1>8. \A v \in Writers : v # w => (Sent(Mine(v))' <=> Sent(Mine(v)))
  BY <1>5, <1>6, <1>7
<1>9. Sent(Mine(w))' <=> outcome = "ok"
  BY <1>1, <1>4, <1>5 DEF Sent
<1>10. /\ \A c \in Boxes : c # b => /\ mail'[c] = mail[c] /\ rqcp'[c] = rqcp[c]
                                    /\ txok'[c] = txok[c]
       /\ mail'[b] = NoMessage /\ rqcp'[b] /\ (txok'[b] <=> outcome = "ok")
  BY DEF TypeOK
<1>11. UnsentBefore'
  BY <1>1, <1>5, <1>8 DEF UnsentBefore, Pending
<1>12. MailPending'
  <2>1. ASSUME NEW c \in Boxes, mail'[c] # NoMessage
        PROVE  /\ ~rqcp'[c] /\ ~completed'[c]
               /\ \E v \in Writers : /\ Pending(v)' /\ box'[v] = c
                                     /\ mail'[c] = Mine(v)' /\ ~Sent(Mine(v))'
    <3>1. c # b /\ mail[c] # NoMessage
      BY <2>1, <1>10
    <3>2. PICK v \in Writers : /\ Pending(v) /\ box[v] = c
                               /\ mail[c] = Mine(v) /\ ~Sent(Mine(v))
      BY <3>1 DEF MailPending
    <3>3. v # w
      BY <3>1, <3>2, <1>1
    <3> QED
      BY <3>1, <3>2, <3>3, <1>5, <1>8, <1>10 DEF MailPending
  <2> QED
    BY <2>1 DEF MailPending
<1>13. RqcpPending'
  <2>1. ASSUME NEW c \in Boxes, rqcp'[c], c # b
        PROVE  /\ ~completed'[c]
               /\ \E v \in Writers : Pending(v)' /\ box'[v] = c /\ (txok'[c] <=> Sent(Mine(v))')
    <3>1. PICK v \in Writers : Pending(v) /\ box[v] = c /\ (txok[c] <=> Sent(Mine(v)))
      BY <2>1, <1>10 DEF RqcpPending
    <3>2. v # w
      BY <2>1, <3>1, <1>1
    <3> QED
      BY <2>1, <3>1, <3>2, <1>5, <1>8, <1>10 DEF RqcpPending
  <2>2. /\ ~completed'[b]
        /\ \E v \in Writers : Pending(v)' /\ box'[v] = b /\ (txok'[b] <=> Sent(Mine(v))')
    BY <1>1, <1>2, <1>5, <1>9, <1>10
  <2> QED
    BY <2>1, <2>2 DEF RqcpPending
<1>14. ResultsHonest'
  BY <1>1, <1>2, <1>5, <1>8 DEF ResultsHonest, Pending
<1>15. /\ \A t \in told : t.m.by \in Writers /\ t.m # Mine(w)
       /\ \A m \in Range(bus') : m \in Range(bus) \/ m = Mine(w)
       /\ Mine(w).by = w /\ Mine(w).n = count[w]
  <2>1. Mine(w).by = w /\ Mine(w).n = count[w] /\ pc[w] \notin {"idle", "release"}
    BY <1>1 DEF Mine, Pending
  <2>2. \A t \in told : t.m.by \in Writers
    BY DEF TypeOK, Message
  <2>3. \A t \in told : t.m # Mine(w)
    BY <2>1 DEF Begun
  <2>4. \A m \in Range(bus') : m \in Range(bus) \/ m = Mine(w)
    BY <1>4
  <2> QED
    BY <2>1, <2>2, <2>3, <2>4
<1>16. Begun'
  BY <1>3, <1>5, <1>15 DEF Begun
<1>17. ResultTruthful'
  BY <1>6, <1>15 DEF ResultTruthful, Sent
<1> QED
  BY <1>11, <1>12, <1>13, <1>14, <1>16, <1>17

(* An interrupt completes the box of a finished mailbox with what its TXOK *)
(* says: its holder is the pending writer of that message.                 *)
LEMMA CompleteTells ==
  ASSUME BoxesInv, TruthInv, NEW b \in Boxes, NEW r \in {"ok", "err"}, rqcp[b],
         (r = "ok") <=> txok[b], Complete(b, r), ClearRqcp,
         UNCHANGED << count, box, mail, bus, told >>
  PROVE  TruthInv'
<1> USE DEF BoxesInv, TruthInv, ClearRqcp
<1>1. PICK w \in Writers : Pending(w) /\ box[w] = b /\ (txok[b] <=> Sent(Mine(w)))
  BY DEF RqcpPending
<1>2. \A v \in Writers : pc'[v] = pc[v] \/ (Pending(v) /\ pc'[v] = "wait")
  BY CompleteWakes DEF Pending
<1>3. \A v \in Writers : (Mine(v)' = Mine(v)) /\ (Sent(Mine(v))' <=> Sent(Mine(v)))
  BY DEF Mine, Sent
<1>4. \A v \in Writers : Pending(v)' <=> Pending(v)
  BY <1>2 DEF Pending
<1>5. \A v \in Writers : v # w /\ Holding(v) => box[v] # b
  BY <1>1, OneHolder DEF Holding, Pending
<1>6. /\ \A c \in Boxes : c # b => completed'[c] = completed[c] /\ result'[c] = result[c]
      /\ completed'[b] /\ result'[b] = r
  BY DEF Complete, TypeOK
<1>7. UnsentBefore'
  BY <1>2, <1>3 DEF UnsentBefore, Pending
<1>8. \A c \in Boxes : mail[c] # NoMessage => c # b
  BY DEF MailPending
<1>9. MailPending'
  BY <1>3, <1>4, <1>6, <1>8 DEF MailPending
<1>10. RqcpPending'
  BY DEF RqcpPending
<1>11. ResultsHonest'
  <2>1. ASSUME NEW v \in Writers, v # w
        PROVE  /\ pc'[v] = "send" => ~completed'[box[v]]
               /\ \/ pc'[v] = "collect"
                  \/ Pending(v)' /\ completed'[box[v]]
                  => (result'[box[v]] = "ok" <=> Sent(Mine(v)))
    <3>1. box[v] \in Boxes
      BY DEF TypeOK
    <3>2. pc'[v] \in {"send", "collect"} \/ Pending(v)' => Holding(v)
      BY <1>2, <1>4 DEF Holding, Pending
    <3> QED
      BY <2>1, <3>1, <3>2, <1>2, <1>4, <1>5, <1>6 DEF ResultsHonest, Pending
  <2>2. /\ pc'[w] # "send"
        /\ result'[box[w]] = "ok" <=> Sent(Mine(w))
    BY <1>1, <1>2, <1>6 DEF Pending
  <2> QED
    BY <2>1, <2>2, <1>3 DEF ResultsHonest
<1>12. \A t \in told : t.m.by \in Writers
  BY DEF TypeOK, Message
<1>13. Begun' /\ ResultTruthful'
  BY <1>2, <1>3, <1>12 DEF Begun, ResultTruthful, Pending
<1> QED
  BY <1>7, <1>9, <1>10, <1>11, <1>13

(* Flags cleared with no completion: what they said is forgotten, and      *)
(* nothing false is told.                                                  *)
LEMMA ClearTells ==
  ASSUME BoxesInv, TruthInv, ClearRqcp \/ UNCHANGED << rqcp, txok >>,
         UNCHANGED << thread, boxes, mail, bus, told >>
  PROVE  TruthInv'
<1> USE DEF BoxesInv, TruthInv, ClearRqcp, thread, boxes
<1>1. \A v \in Writers : (Mine(v)' = Mine(v)) /\ (Sent(Mine(v))' <=> Sent(Mine(v)))
  BY DEF Mine, Sent
<1>2. \A v \in Writers : Pending(v)' <=> Pending(v)
  BY DEF Pending
<1>3. \A c \in Boxes : rqcp'[c] => rqcp[c] /\ txok'[c] = txok[c]
  OBVIOUS
<1>4. UnsentBefore' /\ ResultsHonest'
  BY <1>1, <1>2 DEF UnsentBefore, ResultsHonest
<1>5. MailPending'
  BY <1>1, <1>2, <1>3 DEF MailPending
<1>6. RqcpPending'
  BY <1>1, <1>2, <1>3 DEF RqcpPending
<1>7. \A t \in told : t.m.by \in Writers
  BY DEF TypeOK, Message
<1>8. Begun' /\ ResultTruthful'
  BY <1>1, <1>7 DEF Begun, ResultTruthful
<1> QED
  BY <1>4, <1>5, <1>6, <1>8

LEMMA TruthStep == BoxesInv /\ TruthInv /\ [Next]_vars => TruthInv'
<1> SUFFICES ASSUME BoxesInv, TruthInv, [Next]_vars PROVE TruthInv'
  OBVIOUS
<1>1. ASSUME NEW w \in Writers, PopBox(w) PROVE TruthInv'
  <2>1. \A v \in Writers : v # w => pc'[v] = pc[v] /\ box'[v] = box[v]
    BY <1>1 DEF PopBox, Goto, BoxesInv, TypeOK
  <2>2. pc[w] = "pop" /\ pc'[w] = "init"
    BY <1>1 DEF PopBox, Goto, BoxesInv, TypeOK
  <2> QED
    BY <1>1, <2>1, <2>2, QuietTells DEF PopBox, Pending
<1>2. ASSUME NEW w \in Writers, ReleaseSem(w) PROVE TruthInv'
  <2>1. \A v \in Writers : \/ pc'[v] = pc[v]
                           \/ pc[v] = "semwait" /\ pc'[v] = "pop"
                           \/ pc[v] = "release" /\ pc'[v] = "idle"
    <3>1. semq # << >> => Head(semq) \in Writers /\ pc[Head(semq)] = "semwait"
      BY TailRange DEF BoxesInv, TypeOK, SemQueue
    <3>2. CASE semq = << >>
      BY <1>2, <3>2 DEF ReleaseSem, Goto, BoxesInv, TypeOK
    <3>3. CASE semq # << >>
      BY <1>2, <3>1, <3>3 DEF ReleaseSem, BoxesInv, TypeOK
    <3> QED
      BY <3>2, <3>3
  <2> QED
    BY <1>2, <2>1, QuietTells DEF ReleaseSem, Pending
<1>3. ASSUME NEW w \in Writers, Writer(w) PROVE TruthInv'
  BY <1>1, <1>2, <1>3, TakeSemTells, InitBoxTells, SendMsgTells, WaitTells, CollectTells
     DEF Writer
<1>4. ASSUME NEW b \in Boxes, TxIsr(b) PROVE TruthInv'
  <2>1. PICK r \in {"ok", "err"} : Complete(b, r) /\ ((r = "ok") <=> txok[b])
    BY <1>4 DEF TxIsr
  <2> QED
    BY <1>4, <2>1, CompleteTells DEF TxIsr, First
<1>5. CASE SceIsr
  <2>1. CASE UNCHANGED << boxes, pc >>
    <3>1. ClearRqcp \/ UNCHANGED << rqcp, txok >>
      BY <1>5 DEF SceIsr
    <3> QED
      BY <1>5, <2>1, <3>1, ClearTells DEF SceIsr, thread
  <2>2. CASE ~(UNCHANGED << boxes, pc >>)
    <3>1. PICK b \in Boxes : First(b) /\ ~txok[b] /\ Complete(b, "err") /\ ClearRqcp
      BY <1>5, <2>2 DEF SceIsr
    <3> QED
      BY <1>5, <3>1, CompleteTells DEF SceIsr, First
  <2> QED
    BY <2>1, <2>2
<1>6. CASE UNCHANGED vars
  BY <1>6, ClearTells DEF vars, mailbox
<1> QED
  BY <1>3, <1>4, <1>5, <1>6, TransmitTells DEF Next, Controller

(* A write reports success exactly when its own message went out, for any  *)
(* number of writers, one to three boxes and every order of the two        *)
(* interrupts.                                                             *)
THEOREM ResultsAreTruthful == Spec => []ResultTruthful
<1>1. Init => BoxesInv /\ TruthInv
  BY BoxesInit, TruthInit
<1>2. BoxesInv /\ TruthInv /\ [Next]_vars => (BoxesInv /\ TruthInv)'
  BY BoxesStep, TruthStep
<1>3. TruthInv => ResultTruthful
  BY DEF TruthInv
<1> QED
  BY <1>1, <1>2, <1>3, PTL DEF Spec
=============================================================================
