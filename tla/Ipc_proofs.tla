----------------------------- MODULE Ipc_proofs -----------------------------
(***************************************************************************)
(* Proofs about the semaphore, the event, the mailbox and the completion   *)
(* that share their threads, for every set of threads, of flags and of     *)
(* requests, every size of the mailbox and every limit of the semaphore.   *)
(***************************************************************************)
EXTENDS Ipc, SeqLemmas

-----------------------------------------------------------------------------
(* What the steps of ThreadWait do to the threads, from what holds of      *)
(* their timers.                                                           *)

(* A timer that was set for a wait runs as long as the wait lasts, but for *)
(* the one whose time-out function is about to run, which does not.        *)
TimersRun ==
  /\ \A t \in Threads : suspended[t] /\ ttmr[t] => active[t] \/ expiring = t
  /\ expiring # NoThread => ~active[expiring]

WaitInv == WaitTypeOK /\ TimersRun

(* The threads of W are resumed, and no other thread starts or stops       *)
(* waiting; whoever hears of it has the error err.                         *)
Wakes(W, notified, err) ==
  /\ WaitInv' /\ expiring' = expiring
  /\ \A u \in Threads : /\ suspended'[u] <=> suspended[u] /\ u \notin W
                        /\ error'[u] = IF u \in notified THEN err ELSE error[u]

LEMMA WaitInitially == WaitInit => WaitInv
  BY ThreadsAssumption DEF WaitInit, WaitInv, WaitTypeOK, TimersRun

LEMMA WaitUnchanged == WaitInv /\ UNCHANGED waitVars => WaitInv'
  BY DEF WaitInv, WaitTypeOK, TimersRun, waitVars

LEMMA SuspendStep ==
  ASSUME WaitInv, expiring = NoThread, NEW t \in Threads, NEW timed \in BOOLEAN,
         NEW err \in {"OK", "EINTR", "ETIMEOUT", "ERROR"}, SuspendWith(t, timed, err)
  PROVE  /\ WaitInv' /\ expiring' = NoThread
         /\ \A u \in Threads : /\ suspended'[u] <=> suspended[u] \/ u = t
                               /\ error'[u] = IF u = t THEN err ELSE error[u]
<1>1. WaitTypeOK'
  BY DEF WaitInv, WaitTypeOK, SuspendWith
<1>2. ASSUME NEW u \in Threads
      PROVE  /\ suspended'[u] = (suspended[u] \/ u = t)
             /\ error'[u] = IF u = t THEN err ELSE error[u]
             /\ ttmr'[u] = IF u = t THEN timed ELSE ttmr[u]
             /\ active'[u] = IF u = t THEN timed ELSE active[u]
  BY DEF WaitInv, WaitTypeOK, SuspendWith
<1>3. TimersRun'
  BY <1>2, <1>1 DEF WaitInv, TimersRun, SuspendWith, WaitTypeOK
<1> QED
  BY <1>1, <1>2, <1>3 DEF WaitInv, SuspendWith

(* A suspended thread cannot be resumed exactly while its time-out         *)
(* function is about to run, and nobody has tried yet.                     *)
LEMMA WhoCanReady ==
  ASSUME WaitInv, NEW t \in Threads, suspended[t]
  PROVE  CanReady(t) <=> ~(expiring = t /\ ttmr[t])
  BY ThreadsAssumption DEF WaitInv, TimersRun, CanReady

LEMMA ReadyAllStep ==
  ASSUME WaitInv, NEW S \in SUBSET Threads, NEW notified \in SUBSET Threads,
         NEW err \in {"OK", "EINTR", "ETIMEOUT", "ERROR"}, ReadyAll(S, notified, err)
  PROVE  /\ Wakes({t \in S : CanReady(t)}, notified, err)
         /\ \A t \in S : suspended[t] => CanReady(t) \/ expiring = t
<1>1. WaitTypeOK'
  BY DEF WaitInv, WaitTypeOK, ReadyAll
<1>2. ASSUME NEW u \in Threads
      PROVE  /\ suspended'[u] = (suspended[u] /\ ~(u \in S /\ CanReady(u)))
             /\ error'[u] = IF u \in notified THEN err ELSE error[u]
             /\ ttmr'[u] = (ttmr[u] /\ ~(u \in S /\ suspended[u]))
             /\ active'[u] = (active[u] /\ ~(u \in S /\ CanReady(u)))
  BY DEF ReadyAll
<1>3. expiring' = expiring
  BY DEF ReadyAll
<1>4. TimersRun'
  <2>1. ASSUME NEW u \in Threads, suspended'[u], ttmr'[u] PROVE active'[u] \/ expiring' = u
    <3>1. suspended[u] /\ ttmr[u] /\ ~(u \in S /\ suspended[u])
      BY <2>1, <1>2
    <3> QED
      BY <3>1, <1>2, <1>3 DEF WaitInv, TimersRun
  <2>2. expiring' # NoThread => ~active'[expiring']
    BY <1>2, <1>3 DEF WaitInv, TimersRun, WaitTypeOK
  <2> QED
    BY <2>1, <2>2 DEF TimersRun
<1>5. \A t \in S : suspended[t] => CanReady(t) \/ expiring = t
  BY WhoCanReady
<1> QED
  BY <1>1, <1>2, <1>3, <1>4, <1>5 DEF WaitInv, Wakes

(* An attempt to resume the first thread of a list of suspended threads.   *)
FirstResumed(list) == IF list # << >> /\ CanReady(Head(list)) THEN {Head(list)} ELSE {}

LEMMA DequeueStep ==
  ASSUME WaitInv, NEW list \in Seq(Threads), IsInjective(list), DequeueEffect(list),
         \A t \in Range(list) : suspended[t]
  PROVE  /\ Wakes(FirstResumed(list), FirstResumed(list), "OK")
         /\ Dequeued(list) \in Seq(Threads) /\ IsInjective(Dequeued(list))
         /\ Range(Dequeued(list)) = Range(list) \ FirstResumed(list)
         /\ FirstResumed(list) = {} => Dequeued(list) = list
         /\ list # << >> =>
              /\ Head(list) \in Range(list)
              /\ FirstResumed(list) = {} => expiring = Head(list) /\ ttmr[expiring]
              /\ FirstResumed(list) # {} => /\ FirstResumed(list) = {Head(list)}
                                            /\ ~(expiring = Head(list) /\ ttmr[expiring])
                                            /\ Dequeued(list) # list
<1>1. CASE list = << >>
  <2>1. FirstResumed(list) = {} /\ Dequeued(list) = list /\ UNCHANGED waitVars
    BY <1>1 DEF FirstResumed, Dequeued, DequeueEffect
  <2> QED
    BY <2>1, <1>1, WaitUnchanged DEF Wakes, waitVars
<1>2. CASE list # << >>
  <2> DEFINE h == Head(list)
  <2>1. h \in Threads /\ h \in Range(list) /\ suspended[h]
    BY <1>2, HeadTailProperties, TailRange
  <2>2. CanReady(h) <=> ~(expiring = h /\ ttmr[h])
    BY <2>1, WhoCanReady
  <2>3. ReadyOrFail(h)
    BY <1>2 DEF DequeueEffect
  <2> HIDE DEF h
  <2>4. CASE CanReady(h)
    <3>1. FirstResumed(list) = {h} /\ Dequeued(list) = Tail(list)
      BY <2>4, <1>2 DEF FirstResumed, Dequeued, h
    <3>2. /\ Tail(list) \in Seq(Threads) /\ IsInjective(Tail(list)) /\ Tail(list) # list
          /\ Range(Tail(list)) = Range(list) \ {h}
      BY <1>2, TailRange, HeadTailProperties DEF h
    <3>3. WaitTypeOK'
      BY <2>1, <2>3, <2>4 DEF WaitInv, WaitTypeOK, ReadyOrFail
    <3>4. ASSUME NEW u \in Threads
          PROVE  /\ suspended'[u] = (suspended[u] /\ u # h)
                 /\ error'[u] = IF u = h THEN "OK" ELSE error[u]
                 /\ ttmr'[u] = (ttmr[u] /\ u # h)
                 /\ active'[u] = (active[u] /\ u # h)
      BY <2>1, <2>3, <2>4 DEF WaitInv, WaitTypeOK, ReadyOrFail
    <3>5. expiring' = expiring
      BY <2>3 DEF ReadyOrFail
    <3>6. TimersRun'
      BY <3>4, <3>5 DEF WaitInv, WaitTypeOK, TimersRun
    <3> QED
      BY <3>1, <3>2, <3>3, <3>4, <3>5, <3>6, <2>1, <2>2, <2>4 DEF Wakes, WaitInv, h
  <2>5. CASE ~CanReady(h)
    <3>1. FirstResumed(list) = {} /\ Dequeued(list) = list
      BY <2>5, <1>2 DEF FirstResumed, Dequeued, h
    <3>2. /\ UNCHANGED << suspended, active, error, expiring >>
          /\ ttmr' = [ttmr EXCEPT ![h] = FALSE]
      BY <2>1, <2>3, <2>5 DEF ReadyOrFail, WaitInv, WaitTypeOK
    <3>3. WaitInv'
      BY <2>1, <3>2 DEF WaitInv, WaitTypeOK, TimersRun
    <3> QED
      BY <3>1, <3>2, <3>3, <2>1, <2>2, <2>5 DEF Wakes, h
  <2> QED
    BY <2>4, <2>5
<1> QED
  BY <1>1, <1>2

LEMMA ExpireStep ==
  ASSUME WaitInv, NEW t \in Threads, TimerExpires(t)
  PROVE  WaitInv' /\ UNCHANGED << suspended, error >>
  BY ThreadsAssumption DEF WaitInv, WaitTypeOK, TimersRun, TimerExpires

LEMMA TimeoutStep ==
  ASSUME WaitInv, NEW t \in Threads, ThreadTimeout(t)
  PROVE  /\ WaitInv' /\ expiring = t /\ expiring' = NoThread
         /\ \A u \in Threads : /\ suspended'[u] <=> suspended[u] /\ u # t
                               /\ error'[u] = IF u = t THEN "ETIMEOUT" ELSE error[u]
<1>1. WaitTypeOK'
  BY DEF WaitInv, WaitTypeOK, ThreadTimeout
<1>2. \A u \in Threads : /\ suspended'[u] = (suspended[u] /\ u # t)
                         /\ error'[u] = IF u = t THEN "ETIMEOUT" ELSE error[u]
  BY DEF WaitInv, WaitTypeOK, ThreadTimeout
<1>3. TimersRun'
  BY <1>2, ThreadsAssumption DEF WaitInv, TimersRun, ThreadTimeout
<1> QED
  BY <1>1, <1>2, <1>3 DEF WaitInv, ThreadTimeout

-----------------------------------------------------------------------------
(* Threads and lists.                                                      *)

Labels == {"semAsleep", "eventAsleep", "sendAsleep", "recvAsleep", "compAsleep"}

(* The list L holds the threads that are suspended at l, each once.        *)
Listed(l, L) ==
  /\ L \in Seq(Threads) /\ IsInjective(L)
  /\ \A u \in Threads : u \in Range(L) <=> pc[u] = l /\ suspended[u]

ThreadsInv ==
  /\ WaitInv
  /\ pc \in [Threads -> {"run"} \cup Labels]
  /\ \A t \in Threads : suspended[t] => pc[t] # "run"

(* The step is none of the business of the threads that wait elsewhere     *)
(* than at the labels ls.                                                  *)
Within(ls) ==
  /\ ThreadsInv' /\ expiring' = expiring
  /\ \A u \in Threads : pc[u] \in Labels \ ls \/ pc'[u] \in Labels \ ls =>
       /\ pc'[u] = pc[u] /\ (suspended'[u] <=> suspended[u]) /\ error'[u] = error[u]

(* The resumed threads that have not run since.                            *)
Awake(l) == {t \in Threads : pc[t] = l /\ ~suspended[t] /\ error[t] = "OK"}

LEMMA ListedFacts ==
  ASSUME NEW l, NEW L, Listed(l, L)
  PROVE  /\ L \in Seq(Threads) /\ IsInjective(L) /\ Range(L) \in SUBSET Threads
         /\ \A u \in Range(L) : u \in Threads /\ pc[u] = l /\ suspended[u]
  BY InRange DEF Listed

LEMMA AwakeFinite ==
  ASSUME NEW l
  PROVE  IsFiniteSet(Awake(l)) /\ Cardinality(Awake(l)) \in Nat
<1>1. Awake(l) \in SUBSET Threads
  BY DEF Awake
<1> QED
  BY <1>1, ThreadsAssumption, FS_Subset, FS_CardinalityType

(* What a step within ls leaves alone.                                     *)
LEMMA OutsideStep ==
  ASSUME NEW ls, Within(ls), NEW l \in Labels \ ls, pc \in [Threads -> {"run"} \cup Labels]
  PROVE  /\ \A L : Listed(l, L) => Listed(l, L)'
         /\ Awake(l)' = Awake(l)
<1>1. \A u \in Threads : pc[u] = l \/ pc'[u] = l =>
        /\ pc'[u] = pc[u] /\ (suspended'[u] <=> suspended[u]) /\ error'[u] = error[u]
  BY DEF Within
<1>2. ASSUME NEW L, Listed(l, L) PROVE Listed(l, L)'
  BY <1>1, <1>2 DEF Listed
<1>3. Awake(l)' = Awake(l)
  BY <1>1 DEF Awake
<1> QED
  BY <1>2, <1>3

LEMMA NoStep ==
  ASSUME ThreadsInv, UNCHANGED << waitVars, pc >>, NEW ls
  PROVE  /\ Within(ls)
         /\ \A l, L : Listed(l, L) => Listed(l, L)'
         /\ \A l : Awake(l)' = Awake(l)
<1>1. /\ pc' = pc /\ suspended' = suspended /\ error' = error /\ expiring' = expiring
      /\ WaitInv'
  BY WaitUnchanged DEF ThreadsInv, waitVars
<1>2. Within(ls)
  BY <1>1 DEF Within, ThreadsInv
<1>3. \A l, L : Listed(l, L) => Listed(l, L)'
  BY <1>1 DEF Listed
<1>4. \A l : Awake(l)' = Awake(l)
  BY <1>1 DEF Awake
<1> QED
  BY <1>2, <1>3, <1>4

(* The thread goes to sleep at l.                                          *)
LEMMA SleepStep ==
  ASSUME ThreadsInv, NEW t \in Threads, NEW l \in Labels, expiring = NoThread,
         pc[t] \in {"run", l}, ~suspended[t], NEW timed \in BOOLEAN,
         NEW err \in {"OK", "EINTR"},
         SuspendWith(t, timed, err), pc' = [pc EXCEPT ![t] = l]
  PROVE  /\ Within({l})
         /\ \A L : Listed(l, L) => Listed(l, Append(L, t))'
         /\ Awake(l)' = Awake(l) \ {t}
<1>1. /\ WaitInv' /\ expiring' = NoThread
      /\ \A u \in Threads : /\ suspended'[u] <=> suspended[u] \/ u = t
                            /\ error'[u] = IF u = t THEN err ELSE error[u]
  BY SuspendStep DEF ThreadsInv
<1>2. /\ pc' \in [Threads -> {"run"} \cup Labels]
      /\ \A u \in Threads : pc'[u] = IF u = t THEN l ELSE pc[u]
  BY DEF ThreadsInv
<1>3. l # "run"
  BY DEF Labels
<1>4. Within({l})
  BY <1>1, <1>2, <1>3 DEF Within, ThreadsInv, Labels
<1>5. ASSUME NEW L, Listed(l, L) PROVE Listed(l, Append(L, t))'
  <2>1. L \in Seq(Threads) /\ IsInjective(L) /\ t \notin Range(L)
    BY <1>5 DEF Listed
  <2>2. /\ Append(L, t) \in Seq(Threads) /\ IsInjective(Append(L, t))
        /\ Range(Append(L, t)) = Range(L) \cup {t}
    BY <2>1, AppendRange, AppendProperties
  <2>3. ASSUME NEW u \in Threads
        PROVE  u \in Range(Append(L, t)) <=> pc'[u] = l /\ suspended'[u]
    BY <2>2, <1>1, <1>2, <1>5 DEF Listed
  <2> QED
    BY <2>2, <2>3 DEF Listed
<1>6. Awake(l)' = Awake(l) \ {t}
  BY <1>1, <1>2 DEF Awake
<1> QED
  BY <1>4, <1>5, <1>6

(* A thread that is awake comes back from its sleep.                       *)
LEMMA ReturnStep ==
  ASSUME ThreadsInv, NEW t \in Threads, NEW l \in Labels, pc[t] = l, ~suspended[t],
         UNCHANGED waitVars, pc' = [pc EXCEPT ![t] = "run"]
  PROVE  /\ Within({l})
         /\ \A L : Listed(l, L) => Listed(l, L)'
         /\ Awake(l)' = Awake(l) \ {t}
<1>1. /\ pc' \in [Threads -> {"run"} \cup Labels]
      /\ \A u \in Threads : pc'[u] = IF u = t THEN "run" ELSE pc[u]
      /\ suspended' = suspended /\ error' = error /\ expiring' = expiring
  BY DEF ThreadsInv, waitVars
<1>2. l # "run" /\ WaitInv'
  BY WaitUnchanged DEF Labels, ThreadsInv
<1>3. Within({l})
  BY <1>1, <1>2 DEF Within, ThreadsInv, Labels
<1>4. ASSUME NEW L, Listed(l, L) PROVE Listed(l, L)'
  <2>1. \A u \in Threads : pc'[u] = l /\ suspended'[u] <=> pc[u] = l /\ suspended[u]
    BY <1>1, <1>2
  <2> QED
    BY <2>1, <1>4 DEF Listed
<1>5. Awake(l)' = Awake(l) \ {t}
  BY <1>1, <1>2 DEF Awake
<1> QED
  BY <1>3, <1>4, <1>5

(* The step is made by a thread that comes back from its sleep at k, or by *)
(* one that runs and goes on (k = l).                                      *)
Returns(k, l) ==
  \/ pc' = pc /\ k = l
  \/ \E t \in Threads : /\ pc[t] = k /\ k \in Labels \ {l}
                        /\ ~suspended[t] /\ pc' = [pc EXCEPT ![t] = "run"]

(* Threads that sleep at l are resumed, also by a thread t that returns    *)
(* from its own sleep.                                                     *)
LEMMA WakeStep ==
  ASSUME ThreadsInv, NEW l \in Labels, NEW W, NEW notified, NEW err, Wakes(W, notified, err),
         \A u \in Threads : u \in W \cup notified => pc[u] = l /\ suspended[u],
         NEW k, Returns(k, l)
  PROVE  /\ Within({k, l})
         /\ \A L, M : /\ Listed(l, L)
                      /\ M \in Seq(Threads) /\ IsInjective(M) /\ Range(M) = Range(L) \ W
                      => Listed(l, M)'
         /\ \A L : k # l /\ Listed(k, L) => Listed(k, L)'
         /\ notified = W /\ W \subseteq Threads /\ err = "OK" => Awake(l)' = Awake(l) \cup W
         /\ W \subseteq notified /\ err # "OK" => Awake(l)' = Awake(l)
         /\ \A t \in Threads : pc[t] = k /\ k # l /\ pc' = [pc EXCEPT ![t] = "run"] =>
              Awake(k)' = Awake(k) \ {t}
<1>1. /\ WaitInv' /\ expiring' = expiring
      /\ \A u \in Threads : /\ suspended'[u] <=> suspended[u] /\ u \notin W
                            /\ error'[u] = IF u \in notified THEN err ELSE error[u]
  BY DEF Wakes
<1>2. /\ pc' \in [Threads -> {"run"} \cup Labels]
      /\ \A u \in Threads : pc'[u] # pc[u] => pc[u] = k /\ k # l /\ ~suspended[u] /\ pc'[u] = "run"
  BY DEF ThreadsInv, Returns
<1>3. "run" \notin Labels
  BY DEF Labels
<1>4. Within({k, l})
  BY <1>1, <1>2, <1>3 DEF Within, ThreadsInv
<1>5. ASSUME NEW L, NEW M, Listed(l, L), M \in Seq(Threads), IsInjective(M),
             Range(M) = Range(L) \ W
      PROVE  Listed(l, M)'
  <2>1. ASSUME NEW u \in Threads PROVE u \in Range(M) <=> pc'[u] = l /\ suspended'[u]
    BY <1>1, <1>2, <1>3, <1>5 DEF Listed
  <2> QED
    BY <2>1, <1>5 DEF Listed
<1>6. ASSUME NEW L, k # l, Listed(k, L) PROVE Listed(k, L)'
  <2>1. k \in Labels
    BY <1>6 DEF Returns
  <2>2. ASSUME NEW u \in Threads PROVE u \in Range(L) <=> pc'[u] = k /\ suspended'[u]
    BY <2>1, <1>1, <1>2, <1>3, <1>6 DEF Listed
  <2> QED
    BY <2>2, <1>6 DEF Listed
<1>7. ASSUME notified = W, W \subseteq Threads, err = "OK" PROVE Awake(l)' = Awake(l) \cup W
  <2>1. ASSUME NEW u \in Threads PROVE u \in Awake(l)' <=> u \in Awake(l) \/ u \in W
    <3>1. u \in W => pc[u] = l /\ suspended[u] /\ error'[u] = "OK"
      BY <1>1, <1>7
    <3>2. u \notin W => suspended'[u] = suspended[u] /\ error'[u] = error[u]
      BY <1>1, <1>7 DEF Wakes, WaitInv, WaitTypeOK, ThreadsInv
    <3>3. pc[u] = l => pc'[u] = l
      BY <1>2
    <3>4. pc'[u] = l => pc[u] = l
      BY <1>2, <1>3
    <3> QED
      BY <3>1, <3>2, <3>3, <3>4, <1>1 DEF Awake
  <2> QED
    BY <2>1, <1>7 DEF Awake
<1>8. ASSUME W \subseteq notified, err # "OK" PROVE Awake(l)' = Awake(l)
  <2>1. ASSUME NEW u \in Threads PROVE u \in Awake(l)' <=> u \in Awake(l)
    <3>1. u \in W \cup notified => pc[u] = l /\ suspended[u]
      OBVIOUS
    <3>2. u \in notified => error'[u] # "OK"
      BY <1>1, <1>8
    <3>3. u \notin W => (suspended'[u] <=> suspended[u])
      BY <1>1
    <3>4. u \notin notified => error'[u] = error[u]
      BY <1>1
    <3>5. pc'[u] = l <=> pc[u] = l
      BY <1>2, <1>3
    <3>6. u \in W => u \in notified
      BY <1>8
    <3> QED
      BY <3>1, <3>2, <3>3, <3>4, <3>5, <3>6 DEF Awake
  <2> QED
    BY <2>1 DEF Awake
<1>9. ASSUME NEW t \in Threads, pc[t] = k, k # l, pc' = [pc EXCEPT ![t] = "run"]
      PROVE  Awake(k)' = Awake(k) \ {t}
  <2>1. \A u \in Threads : pc'[u] = IF u = t THEN "run" ELSE pc[u]
    BY <1>9 DEF ThreadsInv
  <2>2. k # "run"
    BY <1>3, <1>9 DEF Returns
  <2>3. ASSUME NEW u \in Threads PROVE u \in Awake(k)' <=> u \in Awake(k) /\ u # t
    BY <2>1, <2>2, <1>1, <1>9 DEF Awake
  <2> QED
    BY <2>3 DEF Awake
<1> QED
  BY <1>4, <1>5, <1>6, <1>7, <1>8, <1>9

(* A thread resumes all that wait at the labels ls, with an error.         *)
LEMMA ResumeAllStep ==
  ASSUME ThreadsInv, NEW ls \in SUBSET Labels, expiring = NoThread, pc' = pc,
         NEW S \in SUBSET Threads, ReadyAll(S, S, "ERROR"),
         \A u \in Threads : u \in S <=> pc[u] \in ls /\ suspended[u]
  PROVE  /\ Within(ls)
         /\ \A l \in ls : Listed(l, << >>)' /\ Awake(l)' = Awake(l)
<1>1. /\ Wakes({t \in S : CanReady(t)}, S, "ERROR")
      /\ \A t \in S : CanReady(t) \/ expiring = t
  BY ReadyAllStep DEF ThreadsInv
<1>2. {t \in S : CanReady(t)} = S
  BY <1>1, ThreadsAssumption
<1>3. /\ WaitInv' /\ expiring' = expiring
      /\ \A u \in Threads : /\ suspended'[u] <=> suspended[u] /\ u \notin S
                            /\ error'[u] = IF u \in S THEN "ERROR" ELSE error[u]
  BY <1>1, <1>2 DEF Wakes
<1>4. Within(ls)
  BY <1>3 DEF Within, ThreadsInv
<1>5. ASSUME NEW l \in ls PROVE Listed(l, << >>)' /\ Awake(l)' = Awake(l)
  <2>1. \A u \in Threads : ~(pc'[u] = l /\ suspended'[u])
    BY <1>3
  <2>2. Listed(l, << >>)'
    BY <2>1 DEF Listed, Range, IsInjective
  <2>3. ASSUME NEW u \in Threads PROVE u \in Awake(l)' <=> u \in Awake(l)
    BY <1>3 DEF Awake
  <2>4. Awake(l)' = Awake(l)
    BY <2>3 DEF Awake
  <2> QED
    BY <2>2, <2>4
<1> QED
  BY <1>4, <1>5

(* One more or one less of the awake threads.                              *)
LEMMA AwakeCount ==
  ASSUME NEW l, NEW t
  PROVE  /\ t \in Awake(l) => Cardinality(Awake(l) \ {t}) = Cardinality(Awake(l)) - 1
         /\ t \notin Awake(l) => /\ Cardinality(Awake(l) \ {t}) = Cardinality(Awake(l))
                                 /\ Cardinality(Awake(l) \cup {t}) = Cardinality(Awake(l)) + 1
<1>1. IsFiniteSet(Awake(l))
  BY AwakeFinite
<1> QED
  BY <1>1, FS_RemoveElement, FS_AddElement

-----------------------------------------------------------------------------
(* The semaphore.                                                          *)
(* Nobody sleeps beside a token, and a token that is neither counted nor   *)
(* taken is with a thread that was resumed, or lost in a release that met  *)
(* the time-out function of the first waiter.                              *)
SemInv ==
  /\ value \in 0..MaxValue /\ limit \in Limits \cup {MaxValue}
  /\ Listed("semAsleep", waiting)
  /\ waiting # << >> => value = 0
  /\ tokens = value + Cardinality(Awake("semAsleep")) + lost /\ lost \in 0..MaxLost

LEMMA SemWait ==
  ASSUME NEW t, NEW timed, NEW L, NEW S, NEW T, NEW e
  PROVE  /\ Sem!Suspend(t, timed) <=> SuspendWith(t, timed, "EINTR")
         /\ Sem!DequeueEffect(L) <=> DequeueEffect(L)
         /\ Sem!Dequeued(L) = Dequeued(L)
         /\ Sem!ResumeAll(S) <=> ReadyAll(S, S, "ERROR")
         /\ Sem!Range(L) = Range(L) /\ (Sem!Missed(L) <=> Missed(L))
  BY DEF Sem!Range, Range, Sem!Suspend, Sem!SuspendWith, SuspendWith, Sem!DequeueEffect, DequeueEffect,
         Sem!ReadyOrFail, ReadyOrFail, Sem!CanReady, CanReady, Sem!Dequeued, Dequeued,
         Sem!ResumeAll, Sem!ReadyAll, ReadyAll, Sem!waitVars, waitVars, Sem!Missed, Missed

LEMMA SemTake ==
  ASSUME ThreadsInv, SemInv, NEW t \in Threads, NEW mode \in {"no", "timed", "forever"},
         Sem!Take(t, mode)
  PROVE  SemInv' /\ Within({"semAsleep"})
<1>1. /\ expiring = NoThread /\ pc[t] = "run" /\ ~suspended[t] /\ limit' = limit
      /\ MaxValue \in Nat /\ value \in Nat /\ lost' = lost /\ lost \in Nat
  BY SemAssumption DEF Sem!Take, Sem!ThreadsRun, ThreadsInv, SemInv
<1>2. CASE value > 0
  <2>1. /\ value' = value - 1 /\ tokens' = tokens - 1
        /\ UNCHANGED << waiting, pc, waitVars >>
    BY <1>1, <1>2 DEF Sem!Take, Sem!waitVars, waitVars
  <2>2. /\ Within({"semAsleep"}) /\ Listed("semAsleep", waiting)'
        /\ Awake("semAsleep")' = Awake("semAsleep")
    BY <2>1, NoStep DEF SemInv, Listed
  <2>3. value' \in 0..MaxValue /\ waiting' = << >>
    BY <1>1, <1>2, <2>1 DEF SemInv
  <2>4. tokens' = value' + Cardinality(Awake("semAsleep"))' + lost'
    BY <1>1, <2>1, <2>2, AwakeFinite DEF SemInv
  <2> QED
    BY <1>1, <2>2, <2>3, <2>4 DEF SemInv
<1>3. CASE value = 0 /\ mode # "no"
  <2>1. /\ waiting' = Append(waiting, t)
        /\ SuspendWith(t, mode = "timed", "EINTR")
        /\ pc' = [pc EXCEPT ![t] = "semAsleep"]
        /\ UNCHANGED << value, tokens >>
    BY <1>3, SemWait DEF Sem!Take
  <2>2. PICK timed \in BOOLEAN : timed = (mode = "timed")
    OBVIOUS
  <2>3. SuspendWith(t, timed, "EINTR")
    BY <2>1, <2>2
  <2>4. /\ Within({"semAsleep"})
        /\ \A L : Listed("semAsleep", L) => Listed("semAsleep", Append(L, t))'
        /\ Awake("semAsleep")' = Awake("semAsleep") \ {t}
    BY <1>1, <2>1, <2>3, SleepStep DEF Labels
  <2>5. Listed("semAsleep", waiting)'
    BY <2>1, <2>4 DEF SemInv, Listed
  <2>6. Cardinality(Awake("semAsleep"))' = Cardinality(Awake("semAsleep"))
    <3>1. t \notin Awake("semAsleep")
      BY <1>1 DEF Awake
    <3> QED
      BY <2>4, <3>1, AwakeCount
  <2> QED
    BY <1>1, <1>3, <2>1, <2>4, <2>5, <2>6 DEF SemInv
<1>4. CASE value = 0 /\ mode = "no"
  <2>1. UNCHANGED << waitVars, pc, waiting, value, tokens >>
    BY <1>4 DEF Sem!Take, Sem!vars, Sem!semVars, Sem!waitVars, waitVars
  <2>2. /\ Within({"semAsleep"}) /\ Listed("semAsleep", waiting)'
        /\ Awake("semAsleep")' = Awake("semAsleep")
    BY <2>1, NoStep DEF SemInv, Listed
  <2> QED
    BY <1>1, <2>1, <2>2 DEF SemInv
<1> QED
  BY <1>1, <1>2, <1>3, <1>4

LEMMA SemResume ==
  ASSUME ThreadsInv, SemInv, NEW t \in Threads, Sem!Resume(t)
  PROVE  SemInv' /\ Within({"semAsleep"})
<1>1. /\ pc[t] = "semAsleep" /\ ~suspended[t] /\ pc' = [pc EXCEPT ![t] = "run"]
      /\ tokens' = IF error[t] = "OK" THEN tokens - 1 ELSE tokens
      /\ UNCHANGED << waitVars, value, limit, waiting, lost >>
  BY DEF Sem!Resume, Sem!waitVars, waitVars
<1>2. /\ Within({"semAsleep"}) /\ Listed("semAsleep", waiting)'
      /\ Awake("semAsleep")' = Awake("semAsleep") \ {t}
  <2>1. /\ Within({"semAsleep"})
        /\ \A L : Listed("semAsleep", L) => Listed("semAsleep", L)'
        /\ Awake("semAsleep")' = Awake("semAsleep") \ {t}
    BY <1>1, ReturnStep DEF Labels
  <2> QED
    BY <1>1, <2>1 DEF SemInv, Listed
<1>3. t \in Awake("semAsleep") <=> error[t] = "OK"
  BY <1>1 DEF Awake
<1>4. /\ Cardinality(Awake("semAsleep"))' = IF error[t] = "OK" THEN Cardinality(Awake("semAsleep")) - 1
                                            ELSE Cardinality(Awake("semAsleep"))
      /\ Cardinality(Awake("semAsleep")) \in Nat
  BY <1>2, <1>3, AwakeCount, AwakeFinite
<1>5. tokens' = value' + Cardinality(Awake("semAsleep"))' + lost'
  BY <1>1, <1>4, SemAssumption DEF SemInv
<1> QED
  BY <1>1, <1>2, <1>5 DEF SemInv

(* A token goes to the first waiter, or to nobody just when its time-out   *)
(* function is about to run, or to the value.                              *)
LEMMA SemRelease ==
  ASSUME ThreadsInv, SemInv, Sem!Release
  PROVE  SemInv' /\ Within({"semAsleep"})
<1>1. /\ pc' = pc /\ limit' = limit /\ value \in Nat /\ lost \in Nat /\ MaxLost \in Nat
      /\ Cardinality(Awake("semAsleep")) \in Nat /\ tokens' = tokens + 1
  BY AwakeFinite, SemAssumption DEF Sem!Release, SemInv
<1>2. CASE waiting # << >>
  <2>1. /\ DequeueEffect(waiting) /\ waiting' = Dequeued(waiting) /\ value' = value
        /\ lost' = (IF Missed(waiting) THEN lost + 1 ELSE lost) /\ lost' <= MaxLost
    BY <1>2, SemWait DEF Sem!Release
  <2>2. /\ waiting \in Seq(Threads) /\ IsInjective(waiting) /\ WaitInv
        /\ \A u \in Range(waiting) : u \in Threads /\ pc[u] = "semAsleep" /\ suspended[u]
    BY ListedFacts DEF SemInv, ThreadsInv
  <2> DEFINE W == FirstResumed(waiting)
  <2>3. /\ Wakes(W, W, "OK")
        /\ waiting' \in Seq(Threads) /\ IsInjective(waiting')
        /\ Range(waiting') = Range(waiting) \ W
        /\ Head(waiting) \in Range(waiting)
        /\ W = {} => waiting' = waiting /\ lost' = lost + 1
        /\ W # {} => W = {Head(waiting)} /\ lost' = lost
    BY <1>2, <2>1, <2>2, DequeueStep DEF Missed
  <2> HIDE DEF W
  <2>4. \A u \in W : u \in Range(waiting)
    BY <2>3
  <2>5. /\ Within({"semAsleep"})
        /\ \A L, M : /\ Listed("semAsleep", L)
                     /\ M \in Seq(Threads) /\ IsInjective(M) /\ Range(M) = Range(L) \ W
                     => Listed("semAsleep", M)'
        /\ Awake("semAsleep")' = Awake("semAsleep") \cup W
    <3>1. /\ \A u \in Threads : u \in W \cup W => pc[u] = "semAsleep" /\ suspended[u]
          /\ W \subseteq Threads /\ "semAsleep" \in Labels
      BY <2>2, <2>4 DEF Labels
    <3>2. /\ Within({"semAsleep", "semAsleep"})
          /\ \A L, M : /\ Listed("semAsleep", L)
                       /\ M \in Seq(Threads) /\ IsInjective(M) /\ Range(M) = Range(L) \ W
                       => Listed("semAsleep", M)'
          /\ W = W /\ W \subseteq Threads /\ "OK" = "OK" => Awake("semAsleep")' = Awake("semAsleep") \cup W
      BY <1>1, <2>3, <3>1, WakeStep DEF Returns
    <3>3. {"semAsleep", "semAsleep"} = {"semAsleep"}
      OBVIOUS
    <3> QED
      BY <3>1, <3>2, <3>3
  <2>6. Listed("semAsleep", waiting)'
    BY <2>3, <2>5 DEF SemInv, Listed
  <2>7. tokens' = value' + Cardinality(Awake("semAsleep"))' + lost'
    <3>1. CASE W = {}
      <4>1. Awake("semAsleep")' = Awake("semAsleep")
        BY <2>5, <3>1
      <4> QED
        BY <1>1, <2>1, <2>3, <3>1, <4>1 DEF SemInv
    <3>2. CASE W # {}
      <4>1. /\ Awake("semAsleep")' = Awake("semAsleep") \cup {Head(waiting)}
            /\ Head(waiting) \notin Awake("semAsleep")
        BY <2>2, <2>3, <2>5, <3>2 DEF Awake
      <4>2. Cardinality(Awake("semAsleep"))' = Cardinality(Awake("semAsleep")) + 1
        BY <4>1, AwakeCount
      <4> QED
        BY <1>1, <2>1, <2>3, <3>2, <4>2 DEF SemInv
    <3> QED
      BY <3>1, <3>2
  <2>8. lost' \in 0..MaxLost
    BY <1>1, <2>1
  <2> QED
    BY <1>1, <1>2, <2>1, <2>5, <2>6, <2>7, <2>8 DEF SemInv
<1>3. CASE waiting = << >>
  <2>1. /\ value < limit /\ value' = value + 1 /\ lost' = lost
        /\ UNCHANGED << waitVars, waiting >>
    BY <1>3 DEF Sem!Release, Sem!waitVars, waitVars
  <2>2. /\ Within({"semAsleep"}) /\ Listed("semAsleep", waiting)'
        /\ Awake("semAsleep")' = Awake("semAsleep")
    BY <1>1, <2>1, NoStep DEF SemInv, Listed
  <2>3. value' \in 0..MaxValue
    <3>1. limit \in Nat /\ limit <= MaxValue /\ MaxValue \in Nat
      BY SemAssumption DEF SemInv
    <3> QED
      BY <1>1, <2>1, <3>1
  <2>4. tokens' = value' + Cardinality(Awake("semAsleep"))' + lost'
    BY <1>1, <2>1, <2>2 DEF SemInv
  <2> QED
    BY <1>1, <1>3, <2>1, <2>2, <2>3, <2>4 DEF SemInv
<1> QED
  BY <1>2, <1>3

LEMMA SemResumeAll ==
  ASSUME ThreadsInv, SemInv, expiring = NoThread, pc' = pc,
         Sem!ResumeAll(Range(waiting)), waiting' = << >>
  PROVE  /\ Within({"semAsleep"}) /\ Listed("semAsleep", waiting)'
         /\ Awake("semAsleep")' = Awake("semAsleep")
<1>1. /\ Range(waiting) \in SUBSET Threads
      /\ \A u \in Threads : u \in Range(waiting) <=> pc[u] \in {"semAsleep"} /\ suspended[u]
  BY ListedFacts DEF SemInv, Listed
<1>2. ReadyAll(Range(waiting), Range(waiting), "ERROR") /\ {"semAsleep"} \in SUBSET Labels
  BY SemWait DEF Labels
<1>3. /\ Within({"semAsleep"})
      /\ \A l \in {"semAsleep"} : Listed(l, << >>)' /\ Awake(l)' = Awake(l)
  BY <1>1, <1>2, ResumeAllStep
<1> QED
  BY <1>3 DEF Listed

LEMMA SemReset ==
  ASSUME ThreadsInv, SemInv, NEW t \in Threads, NEW v \in ResetValues, Sem!Reset(t, v)
  PROVE  SemInv' /\ Within({"semAsleep"})
<1>1. /\ expiring = NoThread /\ pc' = pc /\ Sem!ResumeAll(Range(waiting)) /\ waiting' = << >>
      /\ value' = v /\ tokens' = tokens + v - value /\ limit' = limit
      /\ lost' = lost /\ lost \in Nat
  BY SemWait DEF Sem!Reset, Sem!ThreadsRun, SemInv
<1>2. /\ Within({"semAsleep"}) /\ Listed("semAsleep", waiting)'
      /\ Awake("semAsleep")' = Awake("semAsleep")
  BY <1>1, SemResumeAll
<1>3. v \in 0..MaxValue /\ v \in Nat /\ value \in Nat /\ Cardinality(Awake("semAsleep")) \in Nat
  BY SemAssumption, AwakeFinite DEF SemInv
<1>4. tokens' = value' + Cardinality(Awake("semAsleep"))' + lost'
  BY <1>1, <1>2, <1>3 DEF SemInv
<1> QED
  BY <1>1, <1>2, <1>3, <1>4 DEF SemInv

LEMMA SemSetLimit ==
  ASSUME ThreadsInv, SemInv, NEW t \in Threads, NEW n \in Limits, Sem!SetLimit(t, n)
  PROVE  SemInv' /\ Within({"semAsleep"})
<1>1. /\ expiring = NoThread /\ pc' = pc /\ limit' = n /\ value' = value /\ tokens' = tokens
      /\ lost' = lost
      /\ \/ Sem!ResumeAll(Range(waiting)) /\ waiting' = << >>
         \/ UNCHANGED << waitVars, waiting >>
  BY SemWait DEF Sem!SetLimit, Sem!ThreadsRun, Sem!waitVars, waitVars
<1>2. /\ Within({"semAsleep"}) /\ Listed("semAsleep", waiting)'
      /\ Awake("semAsleep")' = Awake("semAsleep")
      /\ waiting' = << >> \/ waiting' = waiting
  <2>1. CASE Sem!ResumeAll(Range(waiting)) /\ waiting' = << >>
    BY <1>1, <2>1, SemResumeAll
  <2>2. CASE UNCHANGED << waitVars, waiting >>
    BY <1>1, <2>2, NoStep DEF SemInv, Listed
  <2> QED
    BY <1>1, <2>1, <2>2
<1> QED
  BY <1>1, <1>2 DEF SemInv

LEMMA SemStepKeeps ==
  ASSUME ThreadsInv, SemInv, Sem!SemCall
  PROVE  SemInv' /\ Within({"semAsleep"})
<1>1. CASE \E t \in Threads : \E mode \in {"no", "timed", "forever"} : Sem!Take(t, mode)
  BY <1>1, SemTake
<1>2. CASE \E t \in Threads : Sem!Resume(t)
  BY <1>2, SemResume
<1>3. CASE Sem!Release
  BY <1>3, SemRelease
<1>4. CASE \E t \in Threads : \E v \in ResetValues : Sem!Reset(t, v)
  BY <1>4, SemReset
<1>5. CASE \E t \in Threads : \E n \in Limits : Sem!SetLimit(t, n)
  BY <1>5, SemSetLimit
<1> QED
  BY <1>1, <1>2, <1>3, <1>4, <1>5 DEF Sem!SemCall, Sem!ThreadRelease, Sem!IsrRelease

LEMMA SemElsewhere ==
  ASSUME ThreadsInv, SemInv, NEW ls, Within(ls), "semAsleep" \notin ls, UNCHANGED semVars
  PROVE  SemInv'
<1>1. /\ \A L : Listed("semAsleep", L) => Listed("semAsleep", L)'
      /\ Awake("semAsleep")' = Awake("semAsleep")
  BY OutsideStep DEF Labels, ThreadsInv
<1>2. Listed("semAsleep", waiting)'
  BY <1>1 DEF SemInv, semVars, Listed
<1> QED
  BY <1>1, <1>2 DEF SemInv, semVars

-----------------------------------------------------------------------------
(* The completion.                                                         *)
(* The word holds a thread that waits, or done, once per completion owed.  *)
CompInv ==
  /\ compThread \in Threads \cup {NoThread}
  /\ \/ completed = TRUE /\ owed = 1 /\ compThread = NoThread
     \/ completed = FALSE /\ owed = 0
  /\ \A t \in Threads :
       /\ compThread = t => pc[t] = "compAsleep"
       /\ pc[t] = "compAsleep" /\ suspended[t] => compThread = t \/ expiring = t
       /\ compThread = t /\ ~suspended[t] => error[t] # "OK"

LEMMA CompWait ==
  ASSUME NEW t, NEW timed, NEW S, NEW T, NEW e
  PROVE  /\ Co!SuspendWith(t, timed, e) <=> SuspendWith(t, timed, e)
         /\ Co!ReadyAll(S, T, e) <=> ReadyAll(S, T, e)
         /\ Co!waitVars = waitVars
  BY DEF Co!SuspendWith, SuspendWith, Co!ReadyAll, ReadyAll, Co!CanReady, CanReady,
         Co!waitVars, waitVars

LEMMA CompWaitCall ==
  ASSUME ThreadsInv, CompInv, NEW t \in Threads, NEW mode \in {"no", "timed", "forever"},
         Co!Wait(t, mode)
  PROVE  CompInv' /\ Within({"compAsleep"})
<1>1. expiring = NoThread /\ pc[t] = "run" /\ ~suspended[t]
  BY DEF Co!Wait, Co!ThreadsRun, ThreadsInv
<1>2. CASE completed
  <2>1. Co!Consume /\ UNCHANGED << waitVars, pc >>
    BY <1>2 DEF Co!Wait, Co!waitVars, waitVars
  <2>2. Within({"compAsleep"})
    BY <2>1, NoStep
  <2>3. /\ compThread' = NoThread /\ completed' = FALSE /\ owed' = owed - 1 /\ owed = 1
        /\ compThread = NoThread /\ suspended' = suspended /\ pc' = pc /\ expiring' = expiring
    BY <1>2, <2>1 DEF CompInv, Co!Consume, waitVars
  <2>4. owed' = 0
    BY <2>3
  <2>5. \A u \in Threads : pc'[u] = "compAsleep" /\ suspended'[u] => expiring' = u
    BY <2>3, ThreadsAssumption DEF CompInv
  <2> QED
    BY <2>2, <2>3, <2>4, <2>5, ThreadsAssumption DEF CompInv
<1>3. CASE ~completed /\ compThread = NoThread /\ mode # "no"
  <2>1. /\ SuspendWith(t, mode = "timed", "OK") /\ pc' = [pc EXCEPT ![t] = "compAsleep"]
        /\ compThread' = t /\ UNCHANGED << completed, owed >>
    BY <1>3, CompWait DEF Co!Wait
  <2>2. PICK timed \in BOOLEAN : timed = (mode = "timed")
    OBVIOUS
  <2>3. SuspendWith(t, timed, "OK")
    BY <2>1, <2>2
  <2>4. Within({"compAsleep"})
    BY <1>1, <2>1, <2>3, SleepStep DEF Labels
  <2>5. /\ expiring' = NoThread
        /\ \A u \in Threads : suspended'[u] <=> suspended[u] \/ u = t
    BY <1>1, <2>3, SuspendStep DEF ThreadsInv
  <2>6. \A u \in Threads : pc'[u] = IF u = t THEN "compAsleep" ELSE pc[u]
    BY <2>1 DEF ThreadsInv
  <2>7. /\ compThread' \in Threads \cup {NoThread}
        /\ completed' = FALSE /\ owed' = 0
    BY <1>3, <2>1 DEF CompInv
  <2>8. ASSUME NEW u \in Threads
        PROVE  /\ compThread' = u => pc'[u] = "compAsleep" /\ suspended'[u]
               /\ pc'[u] = "compAsleep" /\ suspended'[u] => compThread' = u \/ expiring' = u
    <3>1. CASE u = t
      BY <3>1, <2>1, <2>5, <2>6
    <3>2. CASE u # t
      BY <3>2, <1>1, <1>3, <2>1, <2>5, <2>6, ThreadsAssumption DEF CompInv
    <3> QED
      BY <3>1, <3>2
  <2> QED
    BY <2>4, <2>7, <2>8 DEF CompInv
<1>4. CASE ~completed /\ ~(compThread = NoThread /\ mode # "no")
  <2>1. UNCHANGED << waitVars, pc, compVars >>
    BY <1>4 DEF Co!Wait, Co!vars, Co!compVars, Co!waitVars, waitVars, compVars
  <2>2. Within({"compAsleep"})
    BY <2>1, NoStep
  <2> QED
    BY <2>1, <2>2 DEF CompInv, waitVars, compVars
<1> QED
  BY <1>2, <1>3, <1>4

LEMMA CompResume ==
  ASSUME ThreadsInv, CompInv, NEW t \in Threads, Co!Resume(t)
  PROVE  CompInv' /\ Within({"compAsleep"})
<1>1. /\ expiring = NoThread /\ pc[t] = "compAsleep" /\ ~suspended[t]
      /\ UNCHANGED waitVars /\ pc' = [pc EXCEPT ![t] = "run"]
  BY DEF Co!Resume, Co!ThreadsRun, Co!waitVars, waitVars
<1>2. Within({"compAsleep"})
  BY <1>1, ReturnStep DEF Labels
<1>3. \A u \in Threads : pc'[u] = IF u = t THEN "run" ELSE pc[u]
  BY <1>1 DEF ThreadsInv
<1>4. /\ compThread' = NoThread
      /\ \/ completed /\ completed' = FALSE /\ owed' = owed - 1
         \/ ~completed /\ UNCHANGED << completed, owed >>
  BY DEF Co!Resume, Co!Consume, Co!Unchanged
<1>5. compThread \in {t, NoThread}
  BY DEF Co!Resume, Co!Consume, Co!Unchanged, CompInv
<1>6. suspended' = suspended /\ expiring' = expiring
  BY <1>1 DEF waitVars
<1>7. ASSUME NEW u \in Threads, pc'[u] = "compAsleep" PROVE ~suspended'[u]
  BY <1>1, <1>3, <1>5, <1>6, <1>7, ThreadsAssumption DEF CompInv
<1>8. completed' = FALSE /\ owed' = 0
  <2>1. CASE completed
    <3>1. completed' = FALSE /\ owed' = owed - 1 /\ owed = 1
      BY <1>4, <2>1 DEF CompInv
    <3>2. owed' = 0
      BY <3>1
    <3> QED
      BY <3>1, <3>2
  <2>2. CASE ~completed
    BY <1>4, <2>2 DEF CompInv
  <2> QED
    BY <2>1, <2>2
<1> QED
  BY <1>2, <1>4, <1>7, <1>8, ThreadsAssumption DEF CompInv

LEMMA CompDone ==
  ASSUME ThreadsInv, CompInv, Co!Done
  PROVE  CompInv' /\ Within({"compAsleep"})
<1>1. /\ ~completed /\ compThread' = NoThread /\ completed' = TRUE /\ owed' = owed + 1
      /\ pc' = pc
  BY DEF Co!Done
<1>2. CASE compThread = NoThread
  <2>1. UNCHANGED << waitVars, pc >>
    BY <1>1, <1>2 DEF Co!Done, Co!waitVars, waitVars
  <2>2. Within({"compAsleep"})
    BY <2>1, NoStep
  <2> QED
    BY <1>1, <1>2, <2>1, <2>2, ThreadsAssumption DEF CompInv, waitVars
<1>3. CASE compThread # NoThread
  <2> DEFINE W == {t \in {compThread} : CanReady(t)}
  <2>1. ReadyAll({compThread}, {}, "OK") /\ compThread \in Threads
    BY <1>3, CompWait DEF Co!Done, CompInv
  <2>2. /\ Wakes(W, {}, "OK")
        /\ suspended[compThread] => CanReady(compThread) \/ expiring = compThread
    BY <2>1, ReadyAllStep DEF ThreadsInv
  <2>3. \A u \in Threads : u \in W \cup {} => pc[u] = "compAsleep" /\ suspended[u]
    BY <2>1 DEF CompInv, CanReady
  <2>4. compThread \notin W => ~CanReady(compThread)
    OBVIOUS
  <2>5. \A u \in W : u = compThread
    OBVIOUS
  <2> HIDE DEF W
  <2>6. Within({"compAsleep", "compAsleep"})
    <3>1. Returns("compAsleep", "compAsleep") /\ "compAsleep" \in Labels
      BY <1>1 DEF Returns, Labels
    <3> QED
      BY <2>2, <2>3, <3>1, WakeStep
  <2>7. Within({"compAsleep"})
    <3>1. {"compAsleep", "compAsleep"} = {"compAsleep"}
      OBVIOUS
    <3> QED
      BY <2>6, <3>1
  <2>8. /\ expiring' = expiring
        /\ \A u \in Threads : suspended'[u] <=> suspended[u] /\ u \notin W
    BY <2>2 DEF Wakes
  <2>9. ASSUME NEW u \in Threads, pc[u] = "compAsleep", suspended'[u] PROVE expiring = u
    BY <1>1, <2>2, <2>4, <2>8, <2>9 DEF CompInv
  <2> QED
    BY <1>1, <2>7, <2>8, <2>9, ThreadsAssumption DEF CompInv
<1> QED
  BY <1>2, <1>3

LEMMA CompStepKeeps ==
  ASSUME ThreadsInv, CompInv, Co!CompCall
  PROVE  CompInv' /\ Within({"compAsleep"})
<1>1. CASE \E t \in Threads : \E mode \in {"no", "timed", "forever"} : Co!Wait(t, mode)
  BY <1>1, CompWaitCall
<1>2. CASE \E t \in Threads : Co!Resume(t)
  BY <1>2, CompResume
<1>3. CASE Co!Done
  BY <1>3, CompDone
<1> QED
  BY <1>1, <1>2, <1>3 DEF Co!CompCall, Co!ThreadDone, Co!IsrDone

LEMMA CompElsewhere ==
  ASSUME ThreadsInv, CompInv, NEW ls, Within(ls), "compAsleep" \notin ls, UNCHANGED compVars
  PROVE  CompInv'
<1>1. /\ expiring' = expiring
      /\ \A u \in Threads : pc[u] = "compAsleep" \/ pc'[u] = "compAsleep" =>
           /\ pc'[u] = pc[u] /\ (suspended'[u] <=> suspended[u]) /\ error'[u] = error[u]
  BY DEF Within, Labels
<1> QED
  BY <1>1 DEF CompInv, compVars

-----------------------------------------------------------------------------
(* The event.                                                              *)

AnyRequest == [want : SUBSET Flags, all : BOOLEAN, clear : BOOLEAN]
(* Who sleeps is not satisfied, but for one that is about to time out.     *)
EvInv ==
  /\ set \in SUBSET Flags /\ request \in [Threads -> AnyRequest]
  /\ Listed("eventAsleep", eventWaiting)
  /\ \A t \in Threads : pc[t] = "eventAsleep" /\ suspended[t] /\ t # expiring =>
       ~Ev!Satisfied(request[t], set)

LEMMA EvWait ==
  ASSUME NEW t, NEW timed, NEW L, NEW S, NEW T, NEW e
  PROVE  /\ Ev!Suspend(t, timed) <=> SuspendWith(t, timed, "EINTR")
         /\ Ev!ReadyAll(S, T, e) <=> ReadyAll(S, T, e)
         /\ Ev!ResumeAll(S) <=> ReadyAll(S, S, "ERROR")
         /\ Ev!CanReady(t) <=> CanReady(t)
         /\ Ev!Range(L) = Range(L)
         /\ Ev!Without(L, T) = Without(L, T)
         /\ Ev!waitVars = waitVars
<1>1. ASSUME NEW K, NEW n PROVE Ev!Nth(K, n) = Nth(K, n)
  BY DEF Ev!Nth, Nth, Ev!UpTo, UpTo, Ev!Cardinality, Cardinality
<1>2. Ev!Without(L, T) = Without(L, T)
  BY DEF Ev!Without, Without, Ev!Nth, Nth, Ev!UpTo, UpTo, Ev!Cardinality, Cardinality
<1>3. Ev!Range(L) = Range(L) /\ Ev!waitVars = waitVars /\ (Ev!CanReady(t) <=> CanReady(t))
  BY DEF Ev!Range, Range, Ev!CanReady, CanReady, Ev!waitVars, waitVars
<1>4. /\ Ev!Suspend(t, timed) <=> SuspendWith(t, timed, "EINTR")
      /\ Ev!ReadyAll(S, T, e) <=> ReadyAll(S, T, e)
      /\ Ev!ResumeAll(S) <=> ReadyAll(S, S, "ERROR")
  BY DEF Ev!Suspend, Ev!SuspendWith, SuspendWith,
         Ev!CanReady, CanReady, Ev!ResumeAll, Ev!ReadyAll, ReadyAll, Ev!waitVars, waitVars
<1> QED
  BY <1>2, <1>3, <1>4

(* Fewer flags satisfy nobody whom more flags did not.                     *)
LEMMA FewerFlags ==
  ASSUME NEW r, NEW S, NEW T \in SUBSET S, ~Ev!Satisfied(r, S)
  PROVE  ~Ev!Satisfied(r, T)
  BY DEF Ev!Satisfied

LEMMA EvRecv ==
  ASSUME ThreadsInv, EvInv, NEW t \in Threads, NEW r \in Requests,
         NEW mode \in {"no", "timed", "forever"}, Ev!Recv(t, r, mode)
  PROVE  EvInv' /\ Within({"eventAsleep"})
<1>1. expiring = NoThread /\ pc[t] = "run" /\ ~suspended[t]
  BY DEF Ev!Recv, Ev!ThreadsRun, ThreadsInv
<1>2. ASSUME UNCHANGED << waitVars, pc, eventWaiting, request >>, set' \in SUBSET set
      PROVE  EvInv' /\ Within({"eventAsleep"})
  <2>1. Within({"eventAsleep"}) /\ Listed("eventAsleep", eventWaiting)'
    BY <1>2, NoStep DEF EvInv, Listed
  <2>2. ASSUME NEW u \in Threads, pc'[u] = "eventAsleep", suspended'[u], u # expiring'
        PROVE  ~Ev!Satisfied(request'[u], set')
    <3>1. ~Ev!Satisfied(request[u], set) /\ request' = request
      BY <1>2, <2>2 DEF EvInv, waitVars
    <3> QED
      BY <3>1, <1>2, FewerFlags
  <2> QED
    BY <1>2, <2>1, <2>2 DEF EvInv, Ev!Satisfied
<1>3. CASE Ev!Satisfied(r, set)
  <2>1. /\ UNCHANGED << waitVars, pc, eventWaiting, request >>
        /\ set' = IF r.clear THEN set \ r.want ELSE set
    BY <1>3 DEF Ev!Recv, Ev!waitVars, waitVars
  <2> QED
    BY <1>2, <2>1
<1>4. CASE ~Ev!Satisfied(r, set) /\ mode = "no"
  <2>1. UNCHANGED << waitVars, pc, eventWaiting, request >> /\ set' = set
    BY <1>4 DEF Ev!Recv, Ev!vars, Ev!eventVars, Ev!waitVars, waitVars
  <2> QED
    BY <1>2, <2>1
<1>5. CASE ~Ev!Satisfied(r, set) /\ mode # "no"
  <2>1. /\ request' = [request EXCEPT ![t] = r]
        /\ SuspendWith(t, mode = "timed", "EINTR")
        /\ eventWaiting' = Append(eventWaiting, t)
        /\ pc' = [pc EXCEPT ![t] = "eventAsleep"]
        /\ set' = set
    BY <1>5, EvWait DEF Ev!Recv
  <2>2. PICK timed \in BOOLEAN : timed = (mode = "timed")
    OBVIOUS
  <2>3. SuspendWith(t, timed, "EINTR")
    BY <2>1, <2>2
  <2>4. /\ Within({"eventAsleep"})
        /\ \A L : Listed("eventAsleep", L) => Listed("eventAsleep", Append(L, t))'
    BY <1>1, <2>1, <2>3, SleepStep DEF Labels
  <2>5. Listed("eventAsleep", eventWaiting)'
    BY <2>1, <2>4 DEF EvInv, Listed
  <2>6. r \in AnyRequest
    BY EventAssumption DEF AnyRequest, Ev!Request
  <2>7. /\ request' \in [Threads -> AnyRequest]
        /\ \A u \in Threads : request'[u] = IF u = t THEN r ELSE request[u]
    BY <2>1, <2>6 DEF EvInv
  <2>8. /\ expiring' = NoThread
        /\ \A u \in Threads : suspended'[u] <=> suspended[u] \/ u = t
    BY <1>1, <2>3, SuspendStep DEF ThreadsInv
  <2>9. \A u \in Threads : pc'[u] = IF u = t THEN "eventAsleep" ELSE pc[u]
    BY <2>1 DEF ThreadsInv
  <2>10. ASSUME NEW u \in Threads, pc'[u] = "eventAsleep", suspended'[u], u # expiring'
         PROVE  ~Ev!Satisfied(request'[u], set')
    <3>1. ~Ev!Satisfied(request'[u], set)
      <4>1. CASE u = t
        BY <4>1, <1>5, <2>7
      <4>2. CASE u # t
        BY <4>2, <1>1, <2>7, <2>8, <2>9, <2>10 DEF EvInv
      <4> QED
        BY <4>1, <4>2
    <3> QED
      BY <3>1, <2>1
  <2> QED
    BY <2>1, <2>4, <2>5, <2>7, <2>10 DEF EvInv, Ev!Satisfied
<1> QED
  BY <1>3, <1>4, <1>5

LEMMA EvResume ==
  ASSUME ThreadsInv, EvInv, NEW t \in Threads, Ev!Resume(t)
  PROVE  EvInv' /\ Within({"eventAsleep"})
<1>1. /\ pc[t] = "eventAsleep" /\ ~suspended[t] /\ pc' = [pc EXCEPT ![t] = "run"]
      /\ request' = [request EXCEPT ![t] = Ev!NoRequest]
      /\ UNCHANGED << waitVars, set, eventWaiting >>
  BY DEF Ev!Resume, Ev!waitVars, waitVars
<1>2. /\ Within({"eventAsleep"})
      /\ \A L : Listed("eventAsleep", L) => Listed("eventAsleep", L)'
  BY <1>1, ReturnStep DEF Labels
<1>3. Listed("eventAsleep", eventWaiting)'
  BY <1>1, <1>2 DEF EvInv, Listed
<1>4. Ev!NoRequest \in AnyRequest
  BY DEF Ev!NoRequest, AnyRequest
<1>5. /\ request' \in [Threads -> AnyRequest]
      /\ \A u \in Threads \ {t} : request'[u] = request[u]
  BY <1>1, <1>4 DEF EvInv
<1>6. /\ pc'[t] = "run" /\ suspended' = suspended /\ expiring' = expiring
      /\ \A u \in Threads \ {t} : pc'[u] = pc[u]
  BY <1>1 DEF ThreadsInv, waitVars
<1>7. ASSUME NEW u \in Threads, pc'[u] = "eventAsleep", suspended'[u], u # expiring'
      PROVE  ~Ev!Satisfied(request'[u], set')
  <2>1. ~Ev!Satisfied(request'[u], set)
    BY <1>5, <1>6, <1>7 DEF EvInv
  <2> QED
    BY <1>1, <2>1
<1> QED
  BY <1>1, <1>2, <1>3, <1>5, <1>7 DEF EvInv, Ev!Satisfied

(* The threads that a send of s resumes or fails to resume.                *)
Heard(s) == {t \in Range(eventWaiting) : Ev!Satisfied(request[t], set \cup s)}

LEMMA EvSendStep ==
  ASSUME ThreadsInv, EvInv, NEW s \in SentSets, Ev!Send(s)
  PROVE  /\ \A t \in Threads : t \in Heard(s) <=> /\ pc[t] = "eventAsleep" /\ suspended[t]
                                                 /\ Ev!Satisfied(request[t], set \cup s)
         /\ Heard(s) \in SUBSET Threads
         /\ eventWaiting' = Without(eventWaiting, {t \in Heard(s) : CanReady(t)})
         /\ set' \in SUBSET (set \cup s)
         /\ request' \in [Threads -> AnyRequest]
         /\ \A t \in Threads \ Heard(s) : request'[t] = request[t]
         /\ Wakes({t \in Heard(s) : CanReady(t)}, Heard(s), "OK")
         /\ \A t \in Heard(s) : CanReady(t) \/ expiring = t
         /\ pc' = pc
<1>1. /\ eventWaiting \in Seq(Threads) /\ Range(eventWaiting) \in SUBSET Threads
      /\ \A u \in Threads : u \in Range(eventWaiting) <=> pc[u] = "eventAsleep" /\ suspended[u]
  BY ListedFacts DEF EvInv, Listed
<1>2. /\ Heard(s) \in SUBSET Threads
      /\ \A t \in Threads : t \in Heard(s) <=> /\ pc[t] = "eventAsleep" /\ suspended[t]
                                               /\ Ev!Satisfied(request[t], set \cup s)
  BY <1>1 DEF Heard
<1>3. Ev!Range(eventWaiting) = Range(eventWaiting)
  BY EvWait
<1>4. /\ set' = (set \cup s) \ UNION {Ev!Got(t, set \cup s) : t \in {u \in Heard(s) : request[u].clear}}
      /\ eventWaiting' = Ev!Without(eventWaiting, {t \in Heard(s) : Ev!CanReady(t)})
      /\ request' = [t \in Threads |->
                       IF t \in Heard(s) THEN [request[t] EXCEPT !.want = Ev!Got(t, set \cup s)]
                                         ELSE request[t]]
      /\ Ev!ReadyAll(Heard(s), Heard(s), "OK") /\ pc' = pc
  BY <1>3 DEF Ev!Send, Heard
<1>5. eventWaiting' = Without(eventWaiting, {t \in Heard(s) : CanReady(t)})
  <2>1. {t \in Heard(s) : Ev!CanReady(t)} = {t \in Heard(s) : CanReady(t)}
    BY EvWait
  <2> QED
    BY <1>4, <2>1, EvWait
<1>6. set' \in SUBSET (set \cup s)
  BY <1>4
<1>7. request' \in [Threads -> AnyRequest]
  <2>1. ASSUME NEW t \in Threads PROVE Ev!Got(t, set \cup s) \in SUBSET Flags
    BY DEF EvInv, Ev!Got, AnyRequest
  <2>2. ASSUME NEW t \in Threads
        PROVE  (IF t \in Heard(s) THEN [request[t] EXCEPT !.want = Ev!Got(t, set \cup s)]
                                  ELSE request[t]) \in AnyRequest
    <3>1. request[t] \in AnyRequest
      BY DEF EvInv
    <3> QED
      BY <2>1, <3>1 DEF AnyRequest
  <2> QED
    BY <1>4, <2>2
<1>8. \A t \in Threads \ Heard(s) : request'[t] = request[t]
  BY <1>4
<1>9. ReadyAll(Heard(s), Heard(s), "OK")
  BY <1>4, EvWait
<1>10. /\ Wakes({t \in Heard(s) : CanReady(t)}, Heard(s), "OK")
       /\ \A t \in Heard(s) : suspended[t] => CanReady(t) \/ expiring = t
  BY <1>2, <1>9, ReadyAllStep DEF ThreadsInv
<1> QED
  BY <1>2, <1>4, <1>5, <1>6, <1>7, <1>8, <1>10

LEMMA EvSend ==
  ASSUME ThreadsInv, EvInv, NEW s \in SentSets, Ev!Send(s)
  PROVE  EvInv' /\ Within({"eventAsleep"})
<1> DEFINE W == {t \in Heard(s) : CanReady(t)}
<1>1. /\ Wakes(W, Heard(s), "OK") /\ eventWaiting' = Without(eventWaiting, W)
      /\ \A t \in Heard(s) : t \in W \/ expiring = t
      /\ W \subseteq Heard(s)
  BY EvSendStep
<1> HIDE DEF W
<1>2. /\ \A t \in Threads : t \in Heard(s) <=> /\ pc[t] = "eventAsleep" /\ suspended[t]
                                               /\ Ev!Satisfied(request[t], set \cup s)
      /\ Heard(s) \in SUBSET Threads /\ pc' = pc /\ set' \in SUBSET (set \cup s)
      /\ request' \in [Threads -> AnyRequest]
      /\ \A t \in Threads \ Heard(s) : request'[t] = request[t]
  BY EvSendStep
<1>3. \A u \in Threads : u \in W \cup Heard(s) => pc[u] = "eventAsleep" /\ suspended[u]
  BY <1>1, <1>2
<1>4. /\ Within({"eventAsleep", "eventAsleep"})
      /\ \A L, M : /\ Listed("eventAsleep", L)
                   /\ M \in Seq(Threads) /\ IsInjective(M) /\ Range(M) = Range(L) \ W
                   => Listed("eventAsleep", M)'
  <2>1. "eventAsleep" \in Labels
    BY DEF Labels
  <2> QED
    BY <1>1, <1>2, <1>3, <2>1, WakeStep DEF Returns
<1>5. Within({"eventAsleep"})
  <2>1. {"eventAsleep", "eventAsleep"} = {"eventAsleep"}
    OBVIOUS
  <2> QED
    BY <1>4, <2>1
<1>6. Listed("eventAsleep", eventWaiting)'
  <2>1. /\ eventWaiting' \in Seq(Threads) /\ IsInjective(eventWaiting')
        /\ Range(eventWaiting') = Range(eventWaiting) \ W
    BY <1>1, WithoutList DEF EvInv, Listed
  <2> QED
    BY <1>4, <2>1 DEF EvInv, Listed
<1>7. ASSUME NEW u \in Threads, pc'[u] = "eventAsleep", suspended'[u], u # expiring'
      PROVE  ~Ev!Satisfied(request'[u], set')
  <2>1. suspended[u] /\ u \notin W /\ expiring' = expiring
    BY <1>1, <1>7 DEF Wakes
  <2>2. u \notin Heard(s)
    BY <2>1, <1>1, <1>7
  <2>3. ~Ev!Satisfied(request'[u], set \cup s)
    BY <2>1, <2>2, <1>2, <1>7
  <2> QED
    BY <2>3, <1>2, FewerFlags
<1>8. set' \in SUBSET Flags
  BY <1>2, EventAssumption DEF EvInv
<1> QED
  BY <1>2, <1>5, <1>6, <1>7, <1>8 DEF EvInv, Ev!Satisfied

LEMMA EvReset ==
  ASSUME ThreadsInv, EvInv, NEW t \in Threads, Ev!Reset(t)
  PROVE  EvInv' /\ Within({"eventAsleep"})
<1>1. /\ expiring = NoThread /\ pc' = pc /\ eventWaiting' = << >> /\ set' = {}
      /\ request' = request
      /\ ReadyAll(Range(eventWaiting), Range(eventWaiting), "ERROR")
  BY EvWait DEF Ev!Reset, Ev!ThreadsRun
<1>2. /\ Range(eventWaiting) \in SUBSET Threads
      /\ \A u \in Threads : u \in Range(eventWaiting) <=> pc[u] \in {"eventAsleep"} /\ suspended[u]
  BY ListedFacts DEF EvInv, Listed
<1>3. {"eventAsleep"} \in SUBSET Labels
  BY DEF Labels
<1>4. /\ Within({"eventAsleep"})
      /\ \A l \in {"eventAsleep"} : Listed(l, << >>)' /\ Awake(l)' = Awake(l)
  BY <1>1, <1>2, <1>3, ResumeAllStep
<1>5. Listed("eventAsleep", eventWaiting)'
  BY <1>1, <1>4 DEF Listed
<1>6. \A u \in Threads : ~(pc'[u] = "eventAsleep" /\ suspended'[u])
  BY <1>1, <1>5 DEF Listed, Range
<1> QED
  BY <1>1, <1>4, <1>5, <1>6 DEF EvInv

LEMMA EvStepKeeps ==
  ASSUME ThreadsInv, EvInv, Ev!EventCall
  PROVE  EvInv' /\ Within({"eventAsleep"})
<1>1. CASE \E t \in Threads : \E r \in Requests, mode \in EventModes : Ev!Recv(t, r, mode)
  BY <1>1, EvRecv, ModesAssumption
<1>2. CASE \E t \in Threads : Ev!Resume(t)
  BY <1>2, EvResume
<1>3. CASE \E t \in Threads : Ev!Reset(t)
  BY <1>3, EvReset
<1>4. CASE \E s \in SentSets : Ev!Send(s)
  BY <1>4, EvSend
<1> QED
  BY <1>1, <1>2, <1>3, <1>4 DEF Ev!EventCall, Ev!ThreadSend, Ev!IsrSend

LEMMA EvElsewhere ==
  ASSUME ThreadsInv, EvInv, NEW ls, Within(ls), "eventAsleep" \notin ls, UNCHANGED eventVars
  PROVE  EvInv'
<1>1. /\ set' = set /\ eventWaiting' = eventWaiting /\ request' = request
  BY DEF eventVars
<1>2. /\ expiring' = expiring
      /\ \A u \in Threads : pc[u] = "eventAsleep" \/ pc'[u] = "eventAsleep" =>
           pc'[u] = pc[u] /\ (suspended'[u] <=> suspended[u])
  BY DEF Within, Labels
<1>3. \A L : Listed("eventAsleep", L) => Listed("eventAsleep", L)'
  BY OutsideStep DEF Labels, ThreadsInv
<1>4. Listed("eventAsleep", eventWaiting)'
  BY <1>1, <1>3 DEF EvInv, Listed
<1>5. ASSUME NEW u \in Threads, pc'[u] = "eventAsleep", suspended'[u], u # expiring'
      PROVE  ~Ev!Satisfied(request'[u], set')
  <2>1. ~Ev!Satisfied(request[u], set)
    BY <1>2, <1>5 DEF EvInv
  <2> QED
    BY <2>1, <1>1
<1> QED
  BY <1>1, <1>4, <1>5 DEF EvInv, Ev!Satisfied

-----------------------------------------------------------------------------
(* The mailbox.                                                            *)

(* A position of the ring, or one that is at most its size beyond.         *)
Wrap(x) == x % Size

LEMMA Wraps ==
  /\ Size \in Nat \ {0}
  /\ \A x \in 0..2 * Size - 1 : Wrap(x) = IF x < Size THEN x ELSE x - Size
<1>1. ASSUME NEW n \in Nat \ {0}, NEW x \in 0..2 * n - 1
      PROVE  x % n = IF x < n THEN x ELSE x - n
  OBVIOUS
<1> QED
  BY <1>1, MailAssumption DEF Wrap
(* The offsets of the ring are entry words apart.                          *)
RingInv ==
  /\ pool \in [0..Size - 1 -> 0..MaxMails] /\ mails \in 0..MaxMails
  /\ inOff \in 0..Size - 1 /\ outOff \in 0..Size - 1 /\ entry \in 0..Size
  /\ inOff = Wrap(outOff + entry)
(* Each mail has an awake receiver while others sleep, each free word an   *)
(* awake sender, but for the mails whose post resumed nobody.              *)
MailInv ==
  /\ RingInv /\ swallowed \in 0..entry
  /\ Listed("recvAsleep", mailWaiting) /\ Listed("sendAsleep", mailSenders)
  /\ mailWaiting # << >> => entry <= Cardinality(Awake("recvAsleep")) + swallowed
  /\ mailSenders # << >> => Size - entry <= Cardinality(Awake("sendAsleep"))

MailLabels == {"recvAsleep", "sendAsleep"}

LEMMA MbWait ==
  ASSUME NEW t, NEW timed, NEW L, NEW S
  PROVE  /\ Mb!Suspend(t, timed) <=> SuspendWith(t, timed, "EINTR")
         /\ Mb!DequeueEffect(L) <=> DequeueEffect(L)
         /\ Mb!Dequeued(L) = Dequeued(L)
         /\ Mb!ResumeAll(S) <=> ReadyAll(S, S, "ERROR")
         /\ Mb!Range(L) = Range(L) /\ (Mb!Missed(L) <=> Missed(L))
  BY DEF Mb!Range, Range, Mb!Suspend, Mb!SuspendWith, SuspendWith, Mb!DequeueEffect,
         DequeueEffect, Mb!ReadyOrFail, ReadyOrFail, Mb!CanReady, CanReady, Mb!Dequeued,
         Dequeued, Mb!ResumeAll, Mb!ReadyAll, ReadyAll, Mb!waitVars, waitVars, Mb!Missed, Missed

LEMMA Wider ==
  ASSUME NEW ls, NEW ms, ls \subseteq ms, Within(ls)
  PROVE  Within(ms)
  BY DEF Within

(* What follows from an attempt to resume the first thread of the list L   *)
(* of those that sleep at l, possibly by a thread that returns from its    *)
(* own sleep at k.                                                         *)
FirstTried(l, L, k) ==
  /\ Within({k, l})
  /\ \A M : M = Dequeued(L) => Listed(l, M)'
  /\ \A K : k # l /\ Listed(k, K) => Listed(k, K)'
  /\ L # << >> /\ expiring = NoThread => Dequeued(L) # L
  /\ \/ /\ Dequeued(L) = L /\ (L # << >> => Missed(L))
        /\ Cardinality(Awake(l))' = Cardinality(Awake(l))
     \/ /\ Dequeued(L) # L /\ L # << >>
        /\ Cardinality(Awake(l))' = Cardinality(Awake(l)) + 1
  /\ \A t \in Threads : pc[t] = k /\ k # l /\ pc' = [pc EXCEPT ![t] = "run"] =>
       Awake(k)' = Awake(k) \ {t}

LEMMA FirstStep ==
  ASSUME ThreadsInv, NEW l \in Labels, NEW L, Listed(l, L), DequeueEffect(L),
         NEW k, Returns(k, l)
  PROVE  FirstTried(l, L, k)
<1>1. /\ L \in Seq(Threads) /\ IsInjective(L) /\ WaitInv
      /\ \A u \in Range(L) : u \in Threads /\ pc[u] = l /\ suspended[u]
  BY ListedFacts DEF ThreadsInv
<1> DEFINE W == FirstResumed(L)
<1>2. /\ Wakes(W, W, "OK")
      /\ Dequeued(L) \in Seq(Threads) /\ IsInjective(Dequeued(L))
      /\ Range(Dequeued(L)) = Range(L) \ W
      /\ W = {} => Dequeued(L) = L
      /\ L # << >> => /\ Head(L) \in Range(L)
                      /\ W = {} => Missed(L)
                      /\ W # {} => W = {Head(L)} /\ Dequeued(L) # L
  BY <1>1, DequeueStep DEF Missed
<1>3. W # {} => L # << >>
  BY DEF FirstResumed
<1> HIDE DEF W
<1>4. \A u \in Threads : u \in W \cup W => pc[u] = l /\ suspended[u]
  BY <1>1, <1>2, <1>3
<1>5. W \subseteq Threads
  BY <1>1, <1>2, <1>3
<1>6. /\ Within({k, l})
      /\ \A J, M : /\ Listed(l, J)
                   /\ M \in Seq(Threads) /\ IsInjective(M) /\ Range(M) = Range(J) \ W
                   => Listed(l, M)'
      /\ \A K : k # l /\ Listed(k, K) => Listed(k, K)'
      /\ W = W /\ W \subseteq Threads /\ "OK" = "OK" => Awake(l)' = Awake(l) \cup W
      /\ \A t \in Threads : pc[t] = k /\ k # l /\ pc' = [pc EXCEPT ![t] = "run"] =>
           Awake(k)' = Awake(k) \ {t}
  BY <1>2, <1>4, WakeStep
<1>7. \A M : M = Dequeued(L) => Listed(l, M)'
  BY <1>2, <1>6
<1>8. CASE W = {}
  <2>1. Cardinality(Awake(l))' = Cardinality(Awake(l))
    BY <1>5, <1>6, <1>8
  <2>2. ~(L # << >> /\ expiring = NoThread)
    BY <1>1, <1>2, <1>8, ThreadsAssumption DEF Missed
  <2> QED
    BY <1>2, <1>6, <1>7, <1>8, <2>1, <2>2 DEF FirstTried
<1>9. CASE W # {}
  <2>1. /\ Awake(l)' = Awake(l) \cup {Head(L)} /\ Head(L) \notin Awake(l)
        /\ L # << >> /\ Dequeued(L) # L
    BY <1>1, <1>2, <1>3, <1>5, <1>6, <1>9 DEF Awake
  <2>2. Cardinality(Awake(l))' = Cardinality(Awake(l)) + 1
    BY <2>1, AwakeCount
  <2> QED
    BY <1>6, <1>7, <2>1, <2>2 DEF FirstTried
<1> QED
  BY <1>8, <1>9

(* A mail is stored in, or taken from, the ring.                           *)
LEMMA RingStore ==
  ASSUME RingInv, NEW urgent \in BOOLEAN, entry < Size, Mb!Store(urgent)
  PROVE  RingInv' /\ entry' = entry + 1
<1>1. /\ mails < MaxMails /\ mails' = mails + 1 /\ entry' = entry + 1
      /\ IF urgent
           THEN /\ outOff' = IF outOff > 0 THEN outOff - 1 ELSE Size - 1
                /\ pool' = [pool EXCEPT ![outOff'] = mails'] /\ inOff' = inOff
           ELSE /\ pool' = [pool EXCEPT ![inOff] = mails']
                /\ inOff' = Wrap(inOff + 1) /\ outOff' = outOff
  BY DEF Mb!Store, Wrap
<1>2. /\ Size \in Nat \ {0} /\ MaxMails \in Nat /\ mails' \in 0..MaxMails /\ entry' \in 0..Size
      /\ inOff \in 0..Size - 1 /\ outOff \in 0..Size - 1 /\ entry \in 0..Size - 1
      /\ pool \in [0..Size - 1 -> 0..MaxMails] /\ inOff = Wrap(outOff + entry)
  BY <1>1, MailAssumption DEF RingInv
<1>3. outOff' \in 0..Size - 1 /\ inOff' \in 0..Size - 1 /\ inOff' = Wrap(outOff' + entry')
  <2>1. /\ Size \in Nat \ {0} /\ entry' = entry + 1 /\ entry \in 0..Size - 1
        /\ outOff \in 0..Size - 1 /\ inOff \in 0..Size - 1 /\ inOff = Wrap(outOff + entry)
    BY <1>1, <1>2
  <2>2. outOff + entry \in 0..2 * Size - 1 /\ inOff + 1 \in 0..2 * Size - 1
    BY <2>1
  <2>3. CASE urgent
    <3>1. outOff' = (IF outOff > 0 THEN outOff - 1 ELSE Size - 1) /\ inOff' = inOff
      BY <1>1, <2>3
    <3>2. outOff' + entry' \in 0..2 * Size - 1 /\ outOff' \in 0..Size - 1
      BY <2>1, <3>1
    <3> QED
      BY <2>1, <2>2, <3>1, <3>2, Wraps
  <2>4. CASE ~urgent
    <3>1. outOff' = outOff /\ inOff' = Wrap(inOff + 1)
      BY <1>1, <2>4
    <3>2. outOff' + entry' \in 0..2 * Size - 1
      BY <2>1, <3>1
    <3> QED
      BY <2>1, <2>2, <3>1, <3>2, Wraps
  <2> QED
    BY <2>3, <2>4
<1>4. pool' \in [0..Size - 1 -> 0..MaxMails]
  BY <1>1, <1>2, <1>3
<1> QED
  BY <1>1, <1>2, <1>3, <1>4 DEF RingInv

LEMMA RingTake ==
  ASSUME RingInv, entry > 0, Mb!Take
  PROVE  RingInv' /\ entry' = entry - 1
<1>1. /\ outOff' = Wrap(outOff + 1) /\ entry' = entry - 1
      /\ pool' = pool /\ inOff' = inOff /\ mails' = mails
  BY DEF Mb!Take, Wrap
<1>2. /\ Size \in Nat \ {0}
      /\ inOff \in 0..Size - 1 /\ outOff \in 0..Size - 1 /\ entry \in 1..Size
      /\ inOff = Wrap(outOff + entry)
  BY MailAssumption DEF RingInv
<1>3. outOff' \in 0..Size - 1 /\ inOff' = Wrap(outOff' + entry') /\ entry' \in 0..Size
  BY <1>1, <1>2, Wraps
<1> QED
  BY <1>1, <1>3 DEF RingInv

LEMMA StoredAndHeard ==
  ASSUME RingInv, NEW urgent \in BOOLEAN, Mb!Store(urgent)
  PROVE  /\ DequeueEffect(mailWaiting) /\ mailWaiting' = Dequeued(mailWaiting)
         /\ swallowed' = IF Missed(mailWaiting) THEN swallowed + 1 ELSE swallowed
  BY MbWait DEF Mb!Store

(* A mail goes into the mailbox, sent by a thread that never waited or by  *)
(* an interrupt handler, or by one that waited for room.                   *)
LEMMA MailStored ==
  ASSUME ThreadsInv, MailInv, NEW urgent \in BOOLEAN, entry < Size, Mb!Store(urgent),
         mailSenders' = mailSenders,
         NEW k, \/ pc' = pc /\ k = "recvAsleep"
                \/ \E t \in Threads :
                     /\ k = "sendAsleep" /\ pc[t] = k /\ ~suspended[t] /\ error[t] = "OK"
                     /\ pc' = [pc EXCEPT ![t] = "run"]
  PROVE  MailInv' /\ Within(MailLabels)
<1> DEFINE l == "recvAsleep"
           m == "sendAsleep"
<1>1. Returns(k, l)
  BY DEF Returns, Labels
<1>2. /\ DequeueEffect(mailWaiting) /\ mailWaiting' = Dequeued(mailWaiting)
      /\ swallowed' = IF Missed(mailWaiting) THEN swallowed + 1 ELSE swallowed
      /\ RingInv' /\ entry' = entry + 1 /\ entry \in 0..Size /\ Size \in Nat
  BY StoredAndHeard, RingStore, MailAssumption DEF MailInv, RingInv
<1>3. l \in Labels /\ m \in Labels /\ k \in {l, m} /\ l # m /\ Listed(l, mailWaiting)
      /\ Listed(m, mailSenders)
  BY DEF Labels, MailInv
<1> HIDE DEF l, m
<1>4. FirstTried(l, mailWaiting, k)
  BY <1>1, <1>2, <1>3, FirstStep
<1>5. Within(MailLabels)
  <2>1. {k, l} \subseteq MailLabels
    BY <1>3 DEF MailLabels, l, m
  <2> QED
    BY <1>4, <2>1, Wider DEF FirstTried
<1>6. /\ Cardinality(Awake(l)) \in Nat /\ Cardinality(Awake(m)) \in Nat
  BY AwakeFinite
<1>7. Listed(l, mailWaiting)'
  BY <1>2, <1>4 DEF Listed, FirstTried
<1>8. mailWaiting' # << >> => entry' <= Cardinality(Awake(l))' + swallowed'
  <2> SUFFICES ASSUME mailWaiting' # << >>
               PROVE  entry' <= Cardinality(Awake(l))' + swallowed'
    OBVIOUS
  <2>1. mailWaiting # << >>
    BY <1>2, <1>4 DEF FirstTried, Dequeued
  <2>2. entry <= Cardinality(Awake(l)) + swallowed /\ swallowed \in Nat
    BY <2>1, <1>2 DEF MailInv, l
  <2> QED
    BY <1>2, <1>4, <1>6, <2>1, <2>2 DEF FirstTried
<1>9. /\ Listed(m, mailSenders)'
      /\ mailSenders' # << >> => Size - entry' <= Cardinality(Awake(m))'
  <2>1. CASE k = l
    <3>1. /\ \A L : Listed(m, L) => Listed(m, L)'
          /\ Awake(m)' = Awake(m)
      BY <1>3, <1>4, <2>1, OutsideStep DEF ThreadsInv, FirstTried
    <3>2. Listed(m, mailSenders)'
      BY <1>3, <3>1 DEF Listed
    <3> QED
      BY <1>2, <1>6, <3>1, <3>2 DEF MailInv, m
  <2>2. CASE k = m
    <3>1. PICK t \in Threads : /\ pc[t] = k /\ ~suspended[t] /\ error[t] = "OK"
                               /\ pc' = [pc EXCEPT ![t] = "run"]
      BY <1>3, <2>2 DEF l, m
    <3>2. Awake(m)' = Awake(m) \ {t} /\ t \in Awake(m)
      BY <1>3, <1>4, <2>2, <3>1 DEF Awake, FirstTried
    <3>3. Cardinality(Awake(m))' = Cardinality(Awake(m)) - 1
      BY <3>2, AwakeCount
    <3>4. Listed(m, mailSenders)'
      BY <1>3, <1>4, <2>2 DEF Listed, FirstTried
    <3> QED
      BY <1>2, <1>6, <3>3, <3>4 DEF MailInv, m
  <2> QED
    BY <1>3, <2>1, <2>2
<1>10. swallowed' \in 0..entry'
  BY <1>2 DEF MailInv
<1> QED
  BY <1>2, <1>5, <1>7, <1>8, <1>9, <1>10 DEF MailInv, l, m

(* A mail is taken, by a receiver that need not wait or by one that did.   *)
LEMMA MailTaken ==
  ASSUME ThreadsInv, MailInv, expiring = NoThread, entry > 0, Mb!Take,
         mailWaiting' = mailWaiting,
         NEW k, \/ pc' = pc /\ k = "sendAsleep"
                \/ \E t \in Threads :
                     /\ k = "recvAsleep" /\ pc[t] = k /\ ~suspended[t]
                     /\ pc' = [pc EXCEPT ![t] = "run"]
  PROVE  MailInv' /\ Within(MailLabels)
<1> DEFINE l == "sendAsleep"
           m == "recvAsleep"
<1>1. Returns(k, l)
  BY DEF Returns, Labels
<1>2. /\ DequeueEffect(mailSenders) /\ mailSenders' = Dequeued(mailSenders)
      /\ RingInv' /\ entry' = entry - 1 /\ entry \in 1..Size /\ Size \in Nat
  <2>1. DequeueEffect(mailSenders) /\ mailSenders' = Dequeued(mailSenders)
    BY MbWait DEF Mb!Take
  <2>2. RingInv' /\ entry' = entry - 1
    BY RingTake DEF MailInv
  <2>3. entry \in 1..Size /\ Size \in Nat
    BY MailAssumption DEF MailInv, RingInv
  <2> QED
    BY <2>1, <2>2, <2>3
<1>3. l \in Labels /\ m \in Labels /\ k \in {l, m} /\ l # m /\ Listed(l, mailSenders)
      /\ Listed(m, mailWaiting)
  BY DEF Labels, MailInv
<1> HIDE DEF l, m
<1>4. FirstTried(l, mailSenders, k)
  BY <1>1, <1>2, <1>3, FirstStep
<1>5. Within(MailLabels)
  <2>1. {k, l} \subseteq MailLabels
    BY <1>3 DEF MailLabels, l, m
  <2> QED
    BY <1>4, <2>1, Wider DEF FirstTried
<1>6. /\ Cardinality(Awake(l)) \in Nat /\ Cardinality(Awake(m)) \in Nat
  BY AwakeFinite
<1>7. Listed(l, mailSenders)'
  BY <1>2, <1>4 DEF Listed, FirstTried
<1>8. mailSenders' # << >> => Size - entry' <= Cardinality(Awake(l))'
  <2> SUFFICES ASSUME mailSenders' # << >> PROVE Size - entry' <= Cardinality(Awake(l))'
    OBVIOUS
  <2>1. /\ mailSenders # << >>
        /\ Cardinality(Awake(l))' = Cardinality(Awake(l)) + 1
    BY <1>2, <1>4 DEF FirstTried
  <2>2. Size - entry <= Cardinality(Awake(l))
    BY <2>1 DEF MailInv, l
  <2> QED
    BY <1>2, <1>6, <2>1, <2>2
<1>9. /\ swallowed' \in 0..entry' /\ swallowed \in Nat
      /\ swallowed' = swallowed \/ swallowed' = entry'
  <2>1. swallowed' = IF swallowed < entry THEN swallowed ELSE entry'
    BY DEF Mb!Take
  <2> QED
    BY <1>2, <2>1 DEF MailInv
<1>10. /\ Listed(m, mailWaiting)'
       /\ mailWaiting' # << >> => entry' <= Cardinality(Awake(m))' + swallowed'
  <2>1. CASE k = l
    <3>1. /\ \A L : Listed(m, L) => Listed(m, L)'
          /\ Awake(m)' = Awake(m)
      BY <1>3, <1>4, <2>1, OutsideStep DEF ThreadsInv, FirstTried
    <3>2. Listed(m, mailWaiting)'
      BY <1>3, <3>1 DEF Listed
    <3> QED
      BY <1>2, <1>6, <1>9, <3>1, <3>2 DEF MailInv, m
  <2>2. CASE k = m
    <3>1. PICK t \in Threads : pc[t] = k /\ ~suspended[t] /\ pc' = [pc EXCEPT ![t] = "run"]
      BY <1>3, <2>2 DEF l, m
    <3>2. Awake(m)' = Awake(m) \ {t}
      BY <1>3, <1>4, <2>2, <3>1 DEF Awake, FirstTried
    <3>3. /\ Cardinality(Awake(m))' \in {Cardinality(Awake(m)) - 1, Cardinality(Awake(m))}
          /\ Cardinality(Awake(m))' \in Nat
      BY <3>2, AwakeCount, AwakeFinite, FS_RemoveElement, FS_CardinalityType
    <3>4. Listed(m, mailWaiting)'
      BY <1>3, <1>4, <2>2 DEF Listed, FirstTried
    <3> QED
      BY <1>2, <1>6, <1>9, <3>3, <3>4 DEF MailInv, m
  <2> QED
    BY <1>3, <2>1, <2>2
<1> QED
  BY <1>2, <1>5, <1>7, <1>8, <1>10, <1>9 DEF MailInv, l, m

(* A sender sleeps on a full mailbox, a receiver on an empty one.          *)
LEMMA SenderSleeps ==
  ASSUME ThreadsInv, MailInv, expiring = NoThread, NEW t \in Threads, pc[t] \in {"run", "sendAsleep"},
         ~suspended[t], entry = Size, NEW mode, Mb!Sleep(t, "sendAsleep", mode),
         mailSenders' = Append(mailSenders, t), UNCHANGED << Mb!ring, mailWaiting, swallowed >>
  PROVE  MailInv' /\ Within(MailLabels)
<1>1. /\ SuspendWith(t, mode = "timed", "EINTR") /\ pc' = [pc EXCEPT ![t] = "sendAsleep"]
      /\ UNCHANGED << pool, inOff, outOff, entry, mails, mailWaiting, swallowed >>
  BY MbWait DEF Mb!Sleep, Mb!ring
<1>2. PICK timed \in BOOLEAN : timed = (mode = "timed")
  OBVIOUS
<1>3. SuspendWith(t, timed, "EINTR")
  BY <1>1, <1>2
<1>4. /\ Within({"sendAsleep"})
      /\ \A L : Listed("sendAsleep", L) => Listed("sendAsleep", Append(L, t))'
  BY <1>1, <1>3, SleepStep DEF Labels
<1>5. Within(MailLabels)
  BY <1>4, Wider DEF MailLabels
<1>6. Listed("sendAsleep", mailSenders)'
  BY <1>4 DEF MailInv, Listed
<1>7. /\ \A L : Listed("recvAsleep", L) => Listed("recvAsleep", L)'
      /\ Awake("recvAsleep")' = Awake("recvAsleep")
  BY <1>4, OutsideStep DEF ThreadsInv, Labels
<1>8. Listed("recvAsleep", mailWaiting)'
  BY <1>1, <1>7 DEF MailInv, Listed
<1>9. RingInv' /\ entry' = entry
  BY <1>1 DEF MailInv, RingInv
<1>10. Size - entry' <= Cardinality(Awake("sendAsleep"))'
  <2>1. Cardinality(Awake("sendAsleep")') \in Nat
    <3>1. Awake("sendAsleep")' \in SUBSET Threads
      BY DEF Awake
    <3> QED
      BY <3>1, ThreadsAssumption, FS_Subset, FS_CardinalityType
  <2> QED
    BY <1>9, <2>1, MailAssumption
<1>11. Cardinality(Awake("recvAsleep"))' = Cardinality(Awake("recvAsleep"))
  BY <1>7
<1> QED
  BY <1>1, <1>5, <1>6, <1>8, <1>9, <1>10, <1>11 DEF MailInv

LEMMA ReceiverSleeps ==
  ASSUME ThreadsInv, MailInv, expiring = NoThread, NEW t \in Threads, pc[t] \in {"run", "recvAsleep"},
         ~suspended[t], entry = 0, NEW mode, Mb!Sleep(t, "recvAsleep", mode),
         mailWaiting' = Append(mailWaiting, t), UNCHANGED << Mb!ring, mailSenders, swallowed >>
  PROVE  MailInv' /\ Within(MailLabels)
<1>1. /\ SuspendWith(t, mode = "timed", "EINTR") /\ pc' = [pc EXCEPT ![t] = "recvAsleep"]
      /\ UNCHANGED << pool, inOff, outOff, entry, mails, mailSenders, swallowed >>
  BY MbWait DEF Mb!Sleep, Mb!ring
<1>2. PICK timed \in BOOLEAN : timed = (mode = "timed")
  OBVIOUS
<1>3. SuspendWith(t, timed, "EINTR")
  BY <1>1, <1>2
<1>4. /\ Within({"recvAsleep"})
      /\ \A L : Listed("recvAsleep", L) => Listed("recvAsleep", Append(L, t))'
  BY <1>1, <1>3, SleepStep DEF Labels
<1>5. Within(MailLabels)
  BY <1>4, Wider DEF MailLabels
<1>6. Listed("recvAsleep", mailWaiting)'
  BY <1>4 DEF MailInv, Listed
<1>7. /\ \A L : Listed("sendAsleep", L) => Listed("sendAsleep", L)'
      /\ Awake("sendAsleep")' = Awake("sendAsleep")
  BY <1>4, OutsideStep DEF ThreadsInv, Labels
<1>8. Listed("sendAsleep", mailSenders)'
  BY <1>1, <1>7 DEF MailInv, Listed
<1>9. RingInv' /\ entry' = entry
  BY <1>1 DEF MailInv, RingInv
<1>10. entry' <= Cardinality(Awake("recvAsleep"))' + swallowed' /\ swallowed' \in 0..entry'
  <2>1. Cardinality(Awake("recvAsleep")') \in Nat
    <3>1. Awake("recvAsleep")' \in SUBSET Threads
      BY DEF Awake
    <3> QED
      BY <3>1, ThreadsAssumption, FS_Subset, FS_CardinalityType
  <2> QED
    BY <1>1, <1>9, <2>1 DEF MailInv
<1>11. Cardinality(Awake("sendAsleep"))' = Cardinality(Awake("sendAsleep"))
  BY <1>7
<1> QED
  BY <1>1, <1>5, <1>6, <1>8, <1>9, <1>10, <1>11 DEF MailInv

(* A resumed thread gives up, having found the mailbox full or empty or an *)
(* error.                                                                  *)
LEMMA MailReturn ==
  ASSUME ThreadsInv, MailInv, NEW t \in Threads, NEW l \in MailLabels, pc[t] = l, ~suspended[t],
         \/ error[t] # "OK"
         \/ l = "sendAsleep" /\ entry = Size
         \/ l = "recvAsleep" /\ entry = 0,
         pc' = [pc EXCEPT ![t] = "run"],
         UNCHANGED << waitVars, Mb!ring, mailWaiting, mailSenders, swallowed >>
  PROVE  MailInv' /\ Within(MailLabels)
<1>1. l \in Labels
  BY DEF MailLabels, Labels
<1>2. UNCHANGED << waitVars, pool, inOff, outOff, entry, mails, mailWaiting, mailSenders, swallowed >>
  BY DEF Mb!ring
<1>3. /\ Within({l})
      /\ \A L : Listed(l, L) => Listed(l, L)'
      /\ Awake(l)' = Awake(l) \ {t}
  BY <1>1, <1>2, ReturnStep
<1>4. Within(MailLabels)
  BY <1>3, Wider
<1>5. \A m \in MailLabels : m # l => /\ \A L : Listed(m, L) => Listed(m, L)'
                                    /\ Awake(m)' = Awake(m)
  BY <1>3, OutsideStep DEF ThreadsInv, MailLabels, Labels
<1>6. RingInv' /\ entry' = entry /\ entry \in Nat /\ Size \in Nat
  BY <1>2, MailAssumption DEF MailInv, RingInv
<1>7. Listed("recvAsleep", mailWaiting)' /\ Listed("sendAsleep", mailSenders)'
  BY <1>2, <1>3, <1>5 DEF MailInv, Listed, MailLabels
<1>8. \A m \in MailLabels :
        /\ Cardinality(Awake(m)) \in Nat /\ Cardinality(Awake(m))' \in Nat
        /\ \/ Cardinality(Awake(m))' = Cardinality(Awake(m))
           \/ m = "sendAsleep" /\ entry = Size
           \/ m = "recvAsleep" /\ entry = 0
  <2> SUFFICES ASSUME NEW m \in MailLabels
               PROVE  /\ Cardinality(Awake(m)) \in Nat /\ Cardinality(Awake(m))' \in Nat
                      /\ \/ Cardinality(Awake(m))' = Cardinality(Awake(m))
                         \/ m = "sendAsleep" /\ entry = Size
                         \/ m = "recvAsleep" /\ entry = 0
    OBVIOUS
  <2>1. /\ Cardinality(Awake(m)) \in Nat /\ IsFiniteSet(Awake(m))
    BY AwakeFinite
  <2>2. CASE m # l
    BY <1>5, <2>1, <2>2
  <2>3. CASE m = l
    <3>1. Cardinality(Awake(m) \ {t}) \in Nat
      BY <2>1, FS_RemoveElement, FS_CardinalityType
    <3>2. error[t] # "OK" => Awake(m) \ {t} = Awake(m)
      BY DEF Awake
    <3> QED
      BY <1>3, <2>1, <2>3, <3>1, <3>2
  <2> QED
    BY <2>2, <2>3
<1>9. mailWaiting' # << >> => entry' <= Cardinality(Awake("recvAsleep"))' + swallowed'
  <2>1. /\ Cardinality(Awake("recvAsleep"))' \in Nat
        /\ \/ Cardinality(Awake("recvAsleep"))' = Cardinality(Awake("recvAsleep"))
           \/ entry = 0
    BY <1>8 DEF MailLabels
  <2> QED
    BY <1>2, <1>6, <2>1 DEF MailInv
<1>10. mailSenders' # << >> => Size - entry' <= Cardinality(Awake("sendAsleep"))'
  <2>1. /\ Cardinality(Awake("sendAsleep"))' \in Nat
        /\ \/ Cardinality(Awake("sendAsleep"))' = Cardinality(Awake("sendAsleep"))
           \/ entry = Size
    BY <1>8 DEF MailLabels
  <2> QED
    BY <1>2, <1>6, <2>1 DEF MailInv
<1> QED
  BY <1>2, <1>4, <1>6, <1>7, <1>9, <1>10 DEF MailInv

LEMMA MailReset ==
  ASSUME ThreadsInv, MailInv, NEW t \in Threads, Mb!Reset(t)
  PROVE  MailInv' /\ Within(MailLabels)
<1> DEFINE S == Range(mailWaiting) \cup Range(mailSenders)
<1>1. /\ expiring = NoThread /\ pc' = pc /\ ReadyAll(S, S, "ERROR")
      /\ mailWaiting' = << >> /\ mailSenders' = << >>
      /\ entry' = 0 /\ inOff' = 0 /\ outOff' = 0
      /\ UNCHANGED << pool, mails >> /\ swallowed' = 0
  <2>1. Mb!Range(mailWaiting) = Range(mailWaiting) /\ Mb!Range(mailSenders) = Range(mailSenders)
    BY MbWait
  <2>2. Mb!ResumeAll(S)
    BY <2>1 DEF Mb!Reset
  <2>3. ReadyAll(S, S, "ERROR")
    BY <2>2, MbWait
  <2> QED
    BY <2>3 DEF Mb!Reset, Mb!ThreadsRun
<1>2. /\ Range(mailWaiting) \in SUBSET Threads /\ Range(mailSenders) \in SUBSET Threads
      /\ \A u \in Threads : u \in Range(mailWaiting) <=> pc[u] = "recvAsleep" /\ suspended[u]
      /\ \A u \in Threads : u \in Range(mailSenders) <=> pc[u] = "sendAsleep" /\ suspended[u]
  BY ListedFacts DEF MailInv, Listed
<1>3. /\ S \in SUBSET Threads
      /\ \A u \in Threads : u \in S <=> pc[u] \in MailLabels /\ suspended[u]
  BY <1>2 DEF MailLabels
<1> HIDE DEF S
<1>4. /\ Within(MailLabels)
      /\ \A l \in MailLabels : Listed(l, << >>)' /\ Awake(l)' = Awake(l)
  BY <1>1, <1>3, ResumeAllStep DEF MailLabels, Labels
<1>5. Listed("recvAsleep", mailWaiting)' /\ Listed("sendAsleep", mailSenders)'
  BY <1>1, <1>4 DEF Listed, MailLabels
<1>6. RingInv'
  <2>1. 0 = Wrap(0 + 0)
    BY Wraps
  <2> QED
    BY <1>1, <2>1, MailAssumption DEF MailInv, RingInv
<1> QED
  BY <1>1, <1>4, <1>5, <1>6 DEF MailInv

LEMMA MailPost ==
  ASSUME ThreadsInv, MailInv, NEW urgent \in BOOLEAN, Mb!Post(urgent)
  PROVE  MailInv' /\ Within(MailLabels)
<1>1. entry < Size /\ Mb!Store(urgent) /\ pc' = pc /\ mailSenders' = mailSenders
  BY DEF Mb!Post
<1> QED
  BY <1>1, MailStored

LEMMA MailSendFull ==
  ASSUME ThreadsInv, MailInv, NEW t \in Threads, NEW mode, Mb!SendFull(t, mode)
  PROVE  MailInv' /\ Within(MailLabels)
<1>1. /\ expiring = NoThread /\ pc[t] \in {"run", "sendAsleep"} /\ ~suspended[t] /\ entry = Size
      /\ Mb!Sleep(t, "sendAsleep", mode) /\ mailSenders' = Append(mailSenders, t)
      /\ UNCHANGED << Mb!ring, mailWaiting, swallowed >>
  BY DEF Mb!SendFull, Mb!ThreadsRun, ThreadsInv
<1> QED
  BY <1>1, SenderSleeps

LEMMA MailSendAgain ==
  ASSUME ThreadsInv, MailInv, NEW t \in Threads, NEW mode, Mb!SendAgain(t, mode)
  PROVE  MailInv' /\ Within(MailLabels)
<1>1. /\ expiring = NoThread /\ pc[t] = "sendAsleep" /\ ~suspended[t]
      /\ entry \in 0..Size /\ Size \in Nat
  BY MailAssumption DEF Mb!SendAgain, Mb!ThreadsRun, MailInv, RingInv
<1>2. CASE error[t] = "OK" /\ entry < Size
  <2>1. Mb!Store(FALSE) /\ pc' = [pc EXCEPT ![t] = "run"] /\ mailSenders' = mailSenders
    <3>1. ~(entry = Size)
      BY <1>1, <1>2
    <3> QED
      BY <1>2, <3>1 DEF Mb!SendAgain, Mb!Return
  <2> QED
    BY <1>1, <1>2, <2>1, MailStored
<1>3. CASE error[t] = "OK" /\ entry = Size /\ mode # "no"
  <2>1. /\ Mb!Sleep(t, "sendAsleep", mode) /\ mailSenders' = Append(mailSenders, t)
        /\ UNCHANGED << Mb!ring, mailWaiting, swallowed >>
    BY <1>1, <1>3 DEF Mb!SendAgain
  <2>2. pc[t] \in {"run", "sendAsleep"}
    BY <1>1
  <2> QED
    BY <1>1, <1>3, <2>1, <2>2, SenderSleeps
<1>4. CASE error[t] # "OK" \/ (entry = Size /\ mode = "no")
  <2>1. /\ pc' = [pc EXCEPT ![t] = "run"]
        /\ UNCHANGED << waitVars, Mb!ring, mailWaiting, mailSenders, swallowed >>
    <3>1. /\ ~(error[t] = "OK" /\ entry < Size)
          /\ ~(error[t] = "OK" /\ entry = Size /\ mode # "no")
      BY <1>1, <1>4
    <3> QED
      BY <3>1 DEF Mb!SendAgain, Mb!Return, Mb!waitVars, waitVars
  <2>2. "sendAsleep" \in MailLabels
    BY DEF MailLabels
  <2> QED
    BY <1>1, <1>4, <2>1, <2>2, MailReturn
<1> QED
  BY <1>1, <1>2, <1>3, <1>4

LEMMA MailRecv ==
  ASSUME ThreadsInv, MailInv, NEW t \in Threads, NEW mode, Mb!Recv(t, mode)
  PROVE  MailInv' /\ Within(MailLabels)
<1>1. /\ expiring = NoThread /\ pc[t] = "run" /\ ~suspended[t]
      /\ entry \in 0..Size /\ Size \in Nat
  BY MailAssumption DEF Mb!Recv, Mb!ThreadsRun, MailInv, RingInv, ThreadsInv
<1>2. CASE entry > 0
  <2>1. Mb!Take /\ pc' = pc /\ mailWaiting' = mailWaiting
    BY <1>1, <1>2 DEF Mb!Recv
  <2> QED
    BY <1>1, <1>2, <2>1, MailTaken
<1>3. CASE entry = 0 /\ mode # "no"
  <2>1. /\ Mb!Sleep(t, "recvAsleep", mode) /\ mailWaiting' = Append(mailWaiting, t)
        /\ UNCHANGED << Mb!ring, mailSenders, swallowed >>
    BY <1>1, <1>3 DEF Mb!Recv
  <2>2. pc[t] \in {"run", "recvAsleep"}
    BY <1>1
  <2> QED
    BY <1>1, <1>3, <2>1, <2>2, ReceiverSleeps
<1>4. CASE entry = 0 /\ mode = "no"
  <2>1. UNCHANGED << waitVars, pc, pool, inOff, outOff, entry, mails, mailWaiting, mailSenders,
                     swallowed >>
    BY <1>1, <1>4 DEF Mb!Recv, Mb!vars, Mb!mailVars, Mb!ring, Mb!waitVars, waitVars
  <2>2. /\ Within(MailLabels)
        /\ \A l, L : Listed(l, L) => Listed(l, L)'
        /\ \A l : Awake(l)' = Awake(l)
    BY <2>1, NoStep
  <2>3. Listed("recvAsleep", mailWaiting)' /\ Listed("sendAsleep", mailSenders)'
    BY <2>1, <2>2 DEF MailInv, Listed
  <2> QED
    BY <2>1, <2>2, <2>3 DEF MailInv, RingInv
<1> QED
  BY <1>1, <1>2, <1>3, <1>4

LEMMA MailRecvAgain ==
  ASSUME ThreadsInv, MailInv, NEW t \in Threads, NEW mode, Mb!RecvAgain(t, mode)
  PROVE  MailInv' /\ Within(MailLabels)
<1>1. /\ expiring = NoThread /\ pc[t] = "recvAsleep" /\ ~suspended[t]
      /\ entry \in 0..Size /\ Size \in Nat
  BY MailAssumption DEF Mb!RecvAgain, Mb!ThreadsRun, MailInv, RingInv
<1>2. CASE error[t] = "OK" /\ entry > 0
  <2>1. Mb!Take /\ pc' = [pc EXCEPT ![t] = "run"] /\ mailWaiting' = mailWaiting
    BY <1>1, <1>2 DEF Mb!RecvAgain, Mb!Return
  <2> QED
    BY <1>1, <1>2, <2>1, MailTaken
<1>3. CASE error[t] = "OK" /\ entry = 0 /\ mode # "no"
  <2>1. /\ Mb!Sleep(t, "recvAsleep", mode) /\ mailWaiting' = Append(mailWaiting, t)
        /\ UNCHANGED << Mb!ring, mailSenders, swallowed >>
    BY <1>1, <1>3 DEF Mb!RecvAgain
  <2>2. pc[t] \in {"run", "recvAsleep"}
    BY <1>1
  <2> QED
    BY <1>1, <1>3, <2>1, <2>2, ReceiverSleeps
<1>4. CASE error[t] # "OK" \/ (entry = 0 /\ mode = "no")
  <2>1. /\ pc' = [pc EXCEPT ![t] = "run"]
        /\ UNCHANGED << waitVars, Mb!ring, mailWaiting, mailSenders, swallowed >>
    BY <1>1, <1>4 DEF Mb!RecvAgain, Mb!Return, Mb!waitVars, waitVars
  <2>2. "recvAsleep" \in MailLabels
    BY DEF MailLabels
  <2> QED
    BY <1>1, <1>4, <2>1, <2>2, MailReturn
<1> QED
  BY <1>1, <1>2, <1>3, <1>4

LEMMA MailStepKeeps ==
  ASSUME ThreadsInv, MailInv, Mb!MailCall
  PROVE  MailInv' /\ Within(MailLabels)
<1>1. CASE \E t \in Threads, mode \in MailModes \cup {"no"} :
             \/ Mb!SendFull(t, mode) \/ Mb!SendAgain(t, mode)
             \/ Mb!Recv(t, mode) \/ Mb!RecvAgain(t, mode)
  BY <1>1, MailSendFull, MailSendAgain, MailRecv, MailRecvAgain
<1>2. CASE \E urgent \in BOOLEAN : Mb!Post(urgent)
  BY <1>2, MailPost
<1>3. CASE \E t \in Threads : Mb!Reset(t)
  BY <1>3, MailReset
<1> QED
  BY <1>1, <1>2, <1>3 DEF Mb!MailCall, Mb!ThreadPost, Mb!IsrPost

LEMMA MailElsewhere ==
  ASSUME ThreadsInv, MailInv, NEW ls, Within(ls), ls \cap MailLabels = {}, UNCHANGED mailVars
  PROVE  MailInv'
<1>1. UNCHANGED << pool, inOff, outOff, entry, mails, mailWaiting, mailSenders, swallowed >>
  BY DEF mailVars
<1>2. \A l \in MailLabels : /\ \A L : Listed(l, L) => Listed(l, L)'
                           /\ Awake(l)' = Awake(l)
  BY OutsideStep DEF MailLabels, Labels, ThreadsInv
<1>3. Listed("recvAsleep", mailWaiting)' /\ Listed("sendAsleep", mailSenders)'
  BY <1>1, <1>2 DEF MailInv, Listed, MailLabels
<1>4. /\ Awake("recvAsleep")' = Awake("recvAsleep")
      /\ Awake("sendAsleep")' = Awake("sendAsleep")
  BY <1>2 DEF MailLabels
<1> QED
  BY <1>1, <1>3, <1>4 DEF MailInv, RingInv

(* The n mails in the ring p from the position o on.                       *)
Mails(p, o, n) == [i \in 1..n |-> p[Wrap(o + i - 1)]]

LEMMA Beyond ==
  \A o \in 0..Size - 1, i \in 1..Size : o + i - 1 \in 0..2 * Size - 1
  BY MailAssumption

LEMMA MailsFacts ==
  ASSUME NEW p \in [0..Size - 1 -> 0..MaxMails], NEW o \in 0..Size - 1, NEW n \in 0..Size
  PROVE  /\ Mails(p, o, n) \in Seq(0..MaxMails) /\ Len(Mails(p, o, n)) = n
         /\ \A i \in 1..n : Mails(p, o, n)[i] = p[Wrap(o + i - 1)]
<1>1. Size \in Nat \ {0} /\ n \in Nat
  BY Wraps
<1>2. ASSUME NEW i \in 1..n PROVE p[Wrap(o + i - 1)] \in 0..MaxMails
  <2>1. o + i - 1 \in 0..2 * Size - 1
    BY <1>1, Beyond
  <2>2. Wrap(o + i - 1) \in 0..Size - 1
    BY <1>1, <2>1, Wraps
  <2> QED
    BY <2>2
<1> QED
  BY <1>1, <1>2 DEF Mails

LEMMA ContentsAre ==
  /\ Mb!Contents = Mails(pool, outOff, entry)
  /\ Mb!Contents' = Mails(pool', outOff', entry')
  BY DEF Mb!Contents, Mails, Wrap

(* A mail goes in at the end, in front if it is urgent.                    *)
LEMMA ContentsStored ==
  ASSUME RingInv, NEW urgent \in BOOLEAN, entry < Size, Mb!Store(urgent)
  PROVE  /\ mails' = mails + 1
         /\ urgent => Mb!Contents' = << mails' >> \o Mb!Contents
         /\ ~urgent => Mb!Contents' = Append(Mb!Contents, mails')
<1> DEFINE S == 0..MaxMails
           C == Mb!Contents
           D == Mb!Contents'
<1>1. /\ mails < MaxMails /\ mails' = mails + 1 /\ entry' = entry + 1
      /\ IF urgent
           THEN /\ outOff' = IF outOff > 0 THEN outOff - 1 ELSE Size - 1
                /\ pool' = [pool EXCEPT ![outOff'] = mails'] /\ inOff' = inOff
           ELSE /\ pool' = [pool EXCEPT ![inOff] = mails']
                /\ inOff' = Wrap(inOff + 1) /\ outOff' = outOff
  BY DEF Mb!Store, Wrap
<1>2. /\ Size \in Nat \ {0} /\ outOff \in 0..Size - 1 /\ entry \in 0..Size - 1
      /\ inOff \in 0..Size - 1 /\ inOff = Wrap(outOff + entry)
  BY MailAssumption DEF RingInv
<1>0. MaxMails \in Nat /\ mails \in 0..MaxMails /\ pool \in [0..Size - 1 -> 0..MaxMails]
  BY MailAssumption DEF RingInv
<1>3. /\ C \in Seq(S) /\ Len(C) = entry
      /\ \A i \in 1..entry : C[i] = pool[Wrap(outOff + i - 1)]
  BY MailsFacts, ContentsAre DEF RingInv
<1>4. RingInv'
  BY RingStore
<1>5. /\ D \in Seq(S) /\ Len(D) = entry'
      /\ \A i \in 1..entry' : D[i] = pool'[Wrap(outOff' + i - 1)]
  BY <1>4, MailsFacts, ContentsAre DEF RingInv
<1>6. mails' \in S /\ outOff' \in 0..Size - 1
  BY <1>0, <1>1, <1>4 DEF RingInv
<1> HIDE DEF S, C, D
<1>7. CASE urgent
  <2>1. /\ outOff' = IF outOff > 0 THEN outOff - 1 ELSE Size - 1
        /\ \A j \in 0..Size - 1 : pool'[j] = IF j = outOff' THEN mails' ELSE pool[j]
    BY <1>0, <1>1, <1>7
  <2>2. /\ << mails' >> \o C \in Seq(S) /\ Len(<< mails' >> \o C) = Len(C) + 1
        /\ (<< mails' >> \o C)[1] = mails'
        /\ \A i \in 1..Len(C) : (<< mails' >> \o C)[i + 1] = C[i]
    BY <1>3, <1>6, PrependRange
  <2>3. ASSUME NEW i \in 1..entry + 1 PROVE D[i] = (<< mails' >> \o C)[i]
    <3>1. CASE i = 1
      <4>1. Wrap(outOff' + i - 1) = outOff'
        BY <1>2, <1>6, <3>1, Wraps
      <4> QED
        BY <1>1, <1>5, <1>6, <2>1, <2>2, <3>1, <4>1
    <3>2. CASE i # 1
      <4>0. i \in 2..Size /\ i <= entry + 1 /\ outOff \in 0..Size - 1 /\ Size \in Nat \ {0}
        BY <1>2, <3>2
      <4>1. i - 1 \in 1..entry /\ (i - 1) + 1 = i
        BY <1>2, <4>0
      <4>2. (<< mails' >> \o C)[i] = pool[Wrap(outOff + (i - 1) - 1)]
        BY <1>3, <2>2, <4>1
      <4>3. /\ outOff' + i - 1 \in 0..2 * Size - 1
            /\ outOff + (i - 1) - 1 \in 0..2 * Size - 1
        <5>1. outOff' \in 0..Size - 1 /\ i \in 1..Size /\ i - 1 \in 1..Size
          BY <1>6, <4>0
        <5> QED
          BY <4>0, <5>1, Beyond
      <4>4. /\ Wrap(outOff' + i - 1) = Wrap(outOff + (i - 1) - 1)
            /\ Wrap(outOff' + i - 1) \in 0..Size - 1
            /\ Wrap(outOff' + i - 1) # outOff'
        BY <1>2, <1>6, <2>1, <4>1, <4>3, Wraps
      <4> QED
        BY <1>1, <1>5, <2>1, <4>2, <4>4
    <3> QED
      BY <3>1, <3>2
  <2>4. D = << mails' >> \o C
    BY <1>1, <1>3, <1>5, <2>2, <2>3, SeqEqual
  <2> QED
    BY <1>1, <1>7, <2>4 DEF C, D
<1>8. CASE ~urgent
  <2>1. /\ outOff' = outOff
        /\ \A j \in 0..Size - 1 : pool'[j] = IF j = inOff THEN mails' ELSE pool[j]
    BY <1>0, <1>1, <1>8
  <2>2. /\ Append(C, mails') \in Seq(S) /\ Len(Append(C, mails')) = Len(C) + 1
        /\ Append(C, mails')[Len(C) + 1] = mails'
        /\ \A i \in 1..Len(C) : Append(C, mails')[i] = C[i]
    BY <1>3, <1>6, AppendProperties
  <2>3. ASSUME NEW i \in 1..entry + 1 PROVE D[i] = Append(C, mails')[i]
    <3>1. outOff + i - 1 \in 0..2 * Size - 1 /\ outOff + entry \in 0..2 * Size - 1
      BY <1>2
    <3>2. D[i] = pool'[Wrap(outOff + i - 1)] /\ Wrap(outOff + i - 1) \in 0..Size - 1
      BY <1>1, <1>2, <1>5, <2>1, <3>1, Wraps
    <3>3. CASE i = entry + 1
      <4>1. outOff + i - 1 = outOff + entry
        BY <1>2, <3>3
      <4> QED
        BY <1>2, <1>3, <2>1, <2>2, <3>2, <3>3, <4>1
    <3>4. CASE i \in 1..entry
      <4>1. Wrap(outOff + i - 1) # inOff
        BY <1>2, <3>1, <3>4, Wraps
      <4>2. Append(C, mails')[i] = C[i] /\ C[i] = pool[Wrap(outOff + i - 1)]
        BY <1>3, <2>2, <3>4
      <4>3. D[i] = pool[Wrap(outOff + i - 1)]
        BY <2>1, <3>2, <4>1
      <4> QED
        BY <4>2, <4>3
    <3>5. i = entry + 1 \/ i \in 1..entry
      BY <1>2
    <3> QED
      BY <3>3, <3>4, <3>5
  <2>4. D = Append(C, mails')
    BY <1>1, <1>3, <1>5, <2>2, <2>3, SeqEqual
  <2> QED
    BY <1>1, <1>8, <2>4 DEF C, D
<1> QED
  BY <1>7, <1>8

(* The first mail is taken out.                                            *)
LEMMA ContentsTaken ==
  ASSUME RingInv, entry > 0, Mb!Take
  PROVE  mails' = mails /\ Mb!Contents' = Tail(Mb!Contents)
<1> DEFINE S == 0..MaxMails
           C == Mb!Contents
           D == Mb!Contents'
<1>1. /\ outOff' = Wrap(outOff + 1) /\ entry' = entry - 1 /\ pool' = pool /\ mails' = mails
  BY DEF Mb!Take, Wrap
<1>2. /\ Size \in Nat \ {0} /\ outOff \in 0..Size - 1 /\ entry \in 1..Size
  BY MailAssumption DEF RingInv
<1>3. /\ C \in Seq(S) /\ Len(C) = entry
      /\ \A i \in 1..entry : C[i] = pool[Wrap(outOff + i - 1)]
  BY MailsFacts, ContentsAre DEF RingInv
<1>4. RingInv'
  BY RingTake
<1>5. /\ D \in Seq(S) /\ Len(D) = entry'
      /\ \A i \in 1..entry' : D[i] = pool'[Wrap(outOff' + i - 1)]
  BY <1>4, MailsFacts, ContentsAre DEF RingInv
<1>6. outOff' \in 0..Size - 1
  BY <1>4 DEF RingInv
<1> HIDE DEF S, C, D
<1>7. /\ C # << >> /\ Tail(C) \in Seq(S) /\ Len(Tail(C)) = entry - 1
      /\ \A i \in 1..Len(Tail(C)) : Tail(C)[i] = C[i + 1]
  BY <1>2, <1>3, HeadTailProperties, EmptySeq, LenProperties
<1>8. ASSUME NEW i \in 1..entry - 1 PROVE D[i] = Tail(C)[i]
  <2>1. i + 1 \in 1..entry /\ (i + 1) - 1 = i
    BY <1>2
  <2>2. Tail(C)[i] = pool[Wrap(outOff + (i + 1) - 1)]
    BY <1>2, <1>3, <1>7, <2>1
  <2>3. /\ outOff' + i - 1 \in 0..2 * Size - 1 /\ outOff + (i + 1) - 1 \in 0..2 * Size - 1
        /\ outOff + 1 \in 0..2 * Size - 1
    <3>1. i \in 1..Size /\ i + 1 \in 1..Size /\ 2 \in 1..Size /\ outOff + 2 - 1 = outOff + 1
      BY <1>2
    <3> QED
      BY <3>1, <1>2, <1>6, Beyond
  <2>4. Wrap(outOff' + i - 1) = Wrap(outOff + (i + 1) - 1)
    BY <1>1, <1>2, <1>6, <2>3, Wraps
  <2> QED
    BY <1>1, <1>5, <2>2, <2>4
<1>9. D = Tail(C)
  BY <1>1, <1>5, <1>7, <1>8, SeqEqual
<1> QED
  BY <1>1, <1>9 DEF C, D

-----------------------------------------------------------------------------
(* The threads and the four objects together.                              *)
(* The inductive invariant: the threads, and each object.                  *)
IInv == ThreadsInv /\ SemInv /\ EvInv /\ MailInv /\ CompInv

LEMMA Initially == Init => IInv
<1> SUFFICES ASSUME Init PROVE IInv
  OBVIOUS
<1>1. /\ WaitInit /\ pc = [t \in Threads |-> "run"]
      /\ value = InitValue /\ limit = MaxValue /\ waiting = << >> /\ tokens = InitValue
      /\ lost = 0
      /\ set = {} /\ eventWaiting = << >> /\ request = [t \in Threads |-> Ev!NoRequest]
      /\ pool = [i \in 0..Size - 1 |-> 0] /\ inOff = 0 /\ outOff = 0 /\ entry = 0 /\ mails = 0
      /\ mailWaiting = << >> /\ mailSenders = << >> /\ swallowed = 0
      /\ compThread = NoThread /\ completed = FALSE /\ owed = 0
  BY DEF Init, Sem!Init, Ev!Init, Mb!Init, Co!Init, Sem!WaitInit, WaitInit
<1>2. ThreadsInv /\ \A u \in Threads : pc[u] = "run" /\ ~suspended[u]
  BY <1>1, WaitInitially DEF ThreadsInv, WaitInit
<1>3. \A l \in Labels : Listed(l, << >>) /\ Awake(l) = {}
  BY <1>2 DEF Labels, Listed, Awake, Range, IsInjective
<1>4. SemInv
  <2>1. Cardinality(Awake("semAsleep")) = 0
    BY <1>3, FS_EmptySet DEF Labels
  <2> QED
    BY <1>1, <1>3, <2>1, SemAssumption DEF SemInv, Labels
<1>5. EvInv
  <2>1. request \in [Threads -> AnyRequest]
    BY <1>1 DEF AnyRequest, Ev!NoRequest
  <2> QED
    BY <1>1, <1>2, <1>3, <2>1 DEF EvInv, Labels
<1>6. MailInv
  <2>1. 0 = Wrap(0 + 0)
    BY Wraps
  <2>2. pool \in [0..Size - 1 -> 0..MaxMails] /\ 0 \in 0..Size - 1 /\ 0 \in 0..Size
    BY <1>1, MailAssumption
  <2>3. RingInv
    BY <1>1, <2>1, <2>2, MailAssumption DEF RingInv
  <2>4. Listed("recvAsleep", mailWaiting) /\ Listed("sendAsleep", mailSenders)
    BY <1>1, <1>3 DEF Labels
  <2> QED
    BY <1>1, <2>3, <2>4 DEF MailInv
<1>7. CompInv
  BY <1>1, <1>2, ThreadsAssumption DEF CompInv
<1> QED
  BY <1>2, <1>4, <1>5, <1>6, <1>7 DEF IInv

LEMMA ExpireKeeps ==
  ASSUME IInv, NEW t \in Threads, Expire(t)
  PROVE  IInv'
<1>1. /\ WaitInv' /\ suspended' = suspended /\ error' = error
      /\ expiring = NoThread /\ expiring' = t /\ pc' = pc
      /\ UNCHANGED << semVars, eventVars, mailVars, compVars >>
  BY ExpireStep DEF Expire, IInv, ThreadsInv, TimerExpires
<1>2. ThreadsInv'
  BY <1>1 DEF IInv, ThreadsInv
<1>3. /\ \A l, L : Listed(l, L) => Listed(l, L)'
      /\ \A l : Awake(l)' = Awake(l)
  BY <1>1 DEF Listed, Awake
<1>4. SemInv'
  <2>1. Listed("semAsleep", waiting)'
    BY <1>1, <1>3 DEF IInv, SemInv, semVars, Listed
  <2> QED
    BY <1>1, <1>3, <2>1 DEF IInv, SemInv, semVars
<1>5. EvInv'
  <2>1. Listed("eventAsleep", eventWaiting)'
    BY <1>1, <1>3 DEF IInv, EvInv, eventVars, Listed
  <2>2. ASSUME NEW u \in Threads, pc'[u] = "eventAsleep", suspended'[u], u # expiring'
        PROVE  ~Ev!Satisfied(request'[u], set')
    <3>1. ~Ev!Satisfied(request[u], set)
      BY <1>1, <2>2, ThreadsAssumption DEF IInv, EvInv
    <3> QED
      BY <1>1, <3>1 DEF eventVars
  <2> QED
    BY <1>1, <2>1, <2>2 DEF IInv, EvInv, eventVars, Ev!Satisfied
<1>6. MailInv'
  <2>1. Listed("recvAsleep", mailWaiting)' /\ Listed("sendAsleep", mailSenders)'
    BY <1>1, <1>3 DEF IInv, MailInv, mailVars, Listed
  <2> QED
    BY <1>1, <1>3, <2>1 DEF IInv, MailInv, RingInv, mailVars
<1>7. CompInv'
  BY <1>1, ThreadsAssumption DEF IInv, CompInv, compVars
<1> QED
  BY <1>2, <1>4, <1>5, <1>6, <1>7 DEF IInv

LEMMA TimeoutKeeps ==
  ASSUME IInv, NEW t \in Threads, Timeout(t)
  PROVE  IInv'
<1>1. /\ WaitInv' /\ expiring = t /\ expiring' = NoThread /\ suspended[t]
      /\ \A u \in Threads : /\ suspended'[u] <=> suspended[u] /\ u # t
                            /\ error'[u] = IF u = t THEN "ETIMEOUT" ELSE error[u]
  BY TimeoutStep DEF Timeout, IInv, ThreadsInv, ThreadTimeout
<1>2. /\ waiting' = Without(waiting, {t}) /\ eventWaiting' = Without(eventWaiting, {t})
      /\ mailWaiting' = Without(mailWaiting, {t}) /\ mailSenders' = Without(mailSenders, {t})
      /\ UNCHANGED << pc, value, limit, tokens, lost, set, request,
                     pool, inOff, outOff, entry, mailMode, mails, swallowed, compVars >>
  BY DEF Timeout
<1>3. ThreadsInv'
  BY <1>1, <1>2 DEF IInv, ThreadsInv
<1>4. ASSUME NEW l, NEW L, Listed(l, L)
      PROVE  /\ \A M : M = Without(L, {t}) => Listed(l, M)'
             /\ Without(L, {t}) # << >> => L # << >>
  <2>1. /\ Without(L, {t}) \in Seq(Threads) /\ IsInjective(Without(L, {t}))
        /\ Range(Without(L, {t})) = Range(L) \ {t}
    BY <1>4, WithoutList DEF Listed
  <2>2. \A u \in Threads : u \in Range(L) \ {t} <=> pc'[u] = l /\ suspended'[u]
    BY <1>1, <1>2, <1>4 DEF Listed
  <2>3. Without(L, {t}) # << >> => L # << >>
    <3>1. SUFFICES ASSUME L = << >> PROVE Without(L, {t}) = << >>
      OBVIOUS
    <3>2. Range(L) = {}
      BY <3>1 DEF Range
    <3>3. Head(Without(L, {t})) \in Range(Without(L, {t})) \/ Without(L, {t}) = << >>
      BY <2>1, TailRange
    <3> QED
      BY <2>1, <3>2, <3>3
  <2> QED
    BY <2>1, <2>2, <2>3 DEF Listed
<1>5. \A l : Awake(l)' = Awake(l)
  BY <1>1, <1>2 DEF Awake
<1>6. SemInv'
  <2>1. Listed("semAsleep", waiting)' /\ (waiting' # << >> => waiting # << >>)
    BY <1>2, <1>4 DEF IInv, SemInv, Listed
  <2> QED
    BY <1>2, <1>5, <2>1 DEF IInv, SemInv
<1>7. EvInv'
  <2>1. Listed("eventAsleep", eventWaiting)'
    BY <1>2, <1>4 DEF IInv, EvInv, Listed
  <2>2. ASSUME NEW u \in Threads, pc'[u] = "eventAsleep", suspended'[u]
        PROVE  ~Ev!Satisfied(request'[u], set')
    <3>1. ~Ev!Satisfied(request[u], set)
      BY <1>1, <1>2, <2>2 DEF IInv, EvInv
    <3> QED
      BY <1>2, <3>1
  <2> QED
    BY <1>2, <2>1, <2>2 DEF IInv, EvInv, Ev!Satisfied
<1>8. MailInv'
  <2>1. /\ Listed("recvAsleep", mailWaiting)' /\ Listed("sendAsleep", mailSenders)'
        /\ mailWaiting' # << >> => mailWaiting # << >>
        /\ mailSenders' # << >> => mailSenders # << >>
    BY <1>2, <1>4 DEF IInv, MailInv, Listed
  <2> QED
    BY <1>2, <1>5, <2>1 DEF IInv, MailInv, RingInv
<1>9. CompInv'
  BY <1>1, <1>2 DEF IInv, CompInv, compVars
<1> QED
  BY <1>3, <1>6, <1>7, <1>8, <1>9 DEF IInv

LEMMA StepKeeps == IInv /\ [Next]_vars => IInv'
<1> SUFFICES ASSUME IInv, [Next]_vars PROVE IInv'
  OBVIOUS
<1>1. CASE SemStep
  <2>1. SemInv' /\ Within({"semAsleep"}) /\ UNCHANGED << eventVars, mailVars, compVars >>
    BY <1>1, SemStepKeeps DEF IInv, SemStep
  <2>2. ThreadsInv'
    BY <2>1 DEF Within
  <2>3. EvInv'
    BY <2>1, EvElsewhere DEF IInv
  <2>4. MailInv'
    BY <2>1, MailElsewhere DEF IInv, MailLabels
  <2>5. CompInv'
    BY <2>1, CompElsewhere DEF IInv
  <2> QED
    BY <2>1, <2>2, <2>3, <2>4, <2>5 DEF IInv
<1>2. CASE EvStep
  <2>1. EvInv' /\ Within({"eventAsleep"}) /\ UNCHANGED << semVars, mailVars, compVars >>
    BY <1>2, EvStepKeeps DEF IInv, EvStep
  <2>2. ThreadsInv'
    BY <2>1 DEF Within
  <2>3. SemInv'
    BY <2>1, SemElsewhere DEF IInv
  <2>4. MailInv'
    BY <2>1, MailElsewhere DEF IInv, MailLabels
  <2>5. CompInv'
    BY <2>1, CompElsewhere DEF IInv
  <2> QED
    BY <2>1, <2>2, <2>3, <2>4, <2>5 DEF IInv
<1>3. CASE MailStep
  <2>1. MailInv' /\ Within(MailLabels) /\ UNCHANGED << semVars, eventVars, compVars >>
    BY <1>3, MailStepKeeps DEF IInv, MailStep
  <2>2. ThreadsInv'
    BY <2>1 DEF Within
  <2>3. SemInv'
    BY <2>1, SemElsewhere DEF IInv, MailLabels
  <2>4. EvInv'
    BY <2>1, EvElsewhere DEF IInv, MailLabels
  <2>5. CompInv'
    BY <2>1, CompElsewhere DEF IInv, MailLabels
  <2> QED
    BY <2>1, <2>2, <2>3, <2>4, <2>5 DEF IInv
<1>4. CASE CompStep
  <2>1. CompInv' /\ Within({"compAsleep"}) /\ UNCHANGED << semVars, eventVars, mailVars >>
    BY <1>4, CompStepKeeps DEF IInv, CompStep
  <2>2. ThreadsInv'
    BY <2>1 DEF Within
  <2>3. SemInv'
    BY <2>1, SemElsewhere DEF IInv
  <2>4. EvInv'
    BY <2>1, EvElsewhere DEF IInv
  <2>5. MailInv'
    BY <2>1, MailElsewhere DEF IInv, MailLabels
  <2> QED
    BY <2>1, <2>2, <2>3, <2>4, <2>5 DEF IInv
<1>5. CASE \E t \in Threads : Expire(t)
  BY <1>5, ExpireKeeps
<1>6. CASE \E t \in Threads : Timeout(t)
  BY <1>6, TimeoutKeeps
<1>7. CASE UNCHANGED vars
  <2>1. UNCHANGED << waitVars, pc, semVars, eventVars, mailVars, compVars >>
    BY <1>7 DEF vars
  <2>2. Within({})
    BY <2>1, NoStep DEF IInv
  <2>3. ThreadsInv'
    BY <2>2 DEF Within
  <2> QED
    BY <2>1, <2>2, <2>3, SemElsewhere, EvElsewhere, MailElsewhere, CompElsewhere DEF IInv
<1> QED
  BY <1>1, <1>2, <1>3, <1>4, <1>5, <1>6, <1>7 DEF Next

(* The invariant of the threads and of each object holds throughout,       *)
(* whichever of them the threads and handlers use, in any order.           *)
THEOREM InductiveInvariant == Spec => []IInv
  BY Initially, StepKeeps, PTL DEF Spec

(* Every variable stays within its type: the value of a semaphore within   *)
(* its maximum, the offsets and the entry of a mailbox within its size.    *)
THEOREM TypeCorrect == Spec => []TypeOK
<1>1. IInv => TypeOK
  <2> SUFFICES ASSUME IInv PROVE TypeOK
    OBVIOUS
  <2>1. tokens \in Nat
    BY AwakeFinite, SemAssumption DEF IInv, SemInv
  <2>2. owed \in Nat /\ completed \in BOOLEAN /\ compThread \in Threads \cup {NoThread}
    <3>1. /\ (completed = TRUE /\ owed = 1) \/ (completed = FALSE /\ owed = 0)
          /\ compThread \in Threads \cup {NoThread}
      BY DEF IInv, CompInv
    <3>2. owed \in Nat
      BY <3>1
    <3> QED
      BY <3>1, <3>2
  <2>3. set \subseteq Flags /\ \A t \in Threads : request[t].want \subseteq Flags
    BY DEF IInv, EvInv, AnyRequest
  <2>4. WaitTypeOK /\ pc \in [Threads -> {"run", "semAsleep", "eventAsleep", "sendAsleep",
                                         "recvAsleep", "compAsleep"}]
    <3>1. {"run"} \cup Labels = {"run", "semAsleep", "eventAsleep", "sendAsleep",
                                "recvAsleep", "compAsleep"}
      BY DEF Labels
    <3> QED
      BY <3>1 DEF IInv, ThreadsInv, WaitInv
  <2> QED
    BY <2>1, <2>2, <2>3, <2>4 DEF TypeOK, IInv, SemInv, MailInv, RingInv
<1> QED
  BY <1>1, InductiveInvariant, PTL

(* A thread sleeps exactly while the object it called has it on its list,  *)
(* once, and no time-out, resumption or reset leaves it there awake; and   *)
(* no thread sleeps on the semaphore while it has a token.                 *)
THEOREM ListsHoldSleepers == Spec => []SleepersListed
<1>1. IInv => SleepersListed
  <2> SUFFICES ASSUME IInv PROVE SleepersListed
    OBVIOUS
  <2>1. /\ Listed("semAsleep", waiting) /\ Listed("eventAsleep", eventWaiting)
        /\ Listed("recvAsleep", mailWaiting) /\ Listed("sendAsleep", mailSenders)
    BY DEF IInv, SemInv, EvInv, MailInv
  <2>2. ASSUME NEW l, NEW L, Listed(l, L)
        PROVE  IsInjective(L) /\ Range(L) = {t \in Threads : pc[t] = l /\ suspended[t]}
    <3>1. Range(L) \in SUBSET Threads
      BY <2>2, ListedFacts
    <3> QED
      BY <2>2, <3>1 DEF Listed
  <2>3. \A l \in DOMAIN Lists :
          /\ IsInjective(Lists[l])
          /\ Range(Lists[l]) = {t \in Threads : pc[t] = l /\ suspended[t]}
    <3>1. /\ DOMAIN Lists = {"semAsleep", "eventAsleep", "recvAsleep", "sendAsleep"}
          /\ Lists["semAsleep"] = waiting /\ Lists["eventAsleep"] = eventWaiting
          /\ Lists["recvAsleep"] = mailWaiting /\ Lists["sendAsleep"] = mailSenders
      BY DEF Lists
    <3>2. \A l \in DOMAIN Lists : Listed(l, Lists[l])
      BY <2>1, <3>1
    <3> QED
      BY <2>2, <3>2
  <2> QED
    BY <2>3 DEF SleepersListed, IInv, ThreadsInv, SemInv, CompInv
<1> QED
  BY <1>1, InductiveInvariant, PTL

(* Every token of the semaphore is in its value, or on its way to a thread *)
(* that rt_sem_release resumed, or was released just when the time-out     *)
(* function of the first waiter was about to run: rt_sem_release returns   *)
(* RT_EOK, resumes nobody and leaves the value as it is.  That is the only *)
(* way to lose one, for any threads, limits and resets.                    *)
THEOREM TokensAreAccounted == Spec => []TokensAccounted
<1>1. IInv => TokensAccounted
  <2>1. Sem!Handed = Awake("semAsleep")
    BY DEF Sem!Handed, Awake
  <2>2. \A S : Sem!Cardinality(S) = Cardinality(S)
    BY DEF Sem!Cardinality, Cardinality
  <2> QED
    BY <2>1, <2>2 DEF TokensAccounted, Sem!TokensAccounted, IInv, SemInv
<1> QED
  BY <1>1, InductiveInvariant, PTL

(* While receivers sleep, the mails in the ring are at most the receivers  *)
(* resumed for them and the mails posted just when the time-out function   *)
(* of the first receiver was about to run, which resumed nobody and are    *)
(* counted one by one; while senders sleep, each free word has its resumed *)
(* sender.                                                                 *)
THEOREM MailIsHeard == Spec => []MailHeard
<1>1. IInv => MailHeard
  <2>1. \A l : Mb!Woken(l) = Awake(l)
    BY DEF Mb!Woken, Awake
  <2>2. \A S : Mb!Cardinality(S) = Cardinality(S)
    BY DEF Mb!Cardinality, Cardinality
  <2> QED
    BY <2>1, <2>2 DEF MailHeard, Mb!MailHeard, IInv, MailInv
<1> QED
  BY <1>1, InductiveInvariant, PTL

(* No rt_completion_done is lost, or lets two waits return, when its       *)
(* waiter times out at that moment.                                        *)
THEOREM CompletionsAreKept == Spec => []CompletionsKept
<1>1. IInv => CompletionsKept
  BY DEF CompletionsKept, Co!CompletionsKept, Co!Unchanged, IInv, CompInv
<1> QED
  BY <1>1, InductiveInvariant, PTL

(* rt_event_send resumes every thread that its flags satisfy, whatever a   *)
(* thread before it on the list clears.                                    *)
THEOREM EventsAreHeard == Spec => EventsHeard
<1>1. IInv => \A t \in Threads \ {expiring} : Ev!Asleep(t) => ~Ev!Satisfied(request[t], set)
  BY DEF IInv, EvInv, Ev!Asleep
<1>2. IInv => \A t \in Threads \ {expiring} : \A s \in SentSets :
        Ev!Asleep(t) /\ Ev!Satisfied(request[t], set \cup s) /\ Ev!Send(s) =>
          ~suspended'[t] /\ error'[t] = "OK"
  <2> SUFFICES ASSUME IInv, NEW s \in SentSets, Ev!Send(s), NEW t \in Threads \ {expiring},
                      Ev!Asleep(t), Ev!Satisfied(request[t], set \cup s)
               PROVE  ~suspended'[t] /\ error'[t] = "OK"
    OBVIOUS
  <2>1. t \in Heard(s) /\ CanReady(t)
    BY EvSendStep DEF IInv, Ev!Asleep
  <2>2. Wakes({u \in Heard(s) : CanReady(u)}, Heard(s), "OK")
    BY EvSendStep DEF IInv
  <2> QED
    BY <2>1, <2>2 DEF Wakes
<1> QED
  BY <1>1, <1>2, InductiveInvariant, PTL DEF EventsHeard, Ev!EventsHeard

(* The ring of the mailbox with its two offsets is a buffer: mails come    *)
(* out as they went in, the urgent ones first, none overwritten.           *)
THEOREM MailboxBuffers == Spec => MailboxIsBuffer
<1>1. ASSUME IInv, [Next]_vars
      PROVE  [/\ entry' <= Size
              /\ \/ mails' = mails /\ Mb!Contents' \in {Mb!Contents, << >>}
                 \/ mails' = mails /\ entry > 0 /\ Mb!Contents' = Tail(Mb!Contents)
                 \/ mails' = mails + 1 /\ Mb!Contents' = Append(Mb!Contents, mails')
                 \/ /\ mails' = mails + 1 /\ Mb!Post(TRUE)
                    /\ Mb!Contents' = << mails' >> \o Mb!Contents]_(Mb!mailVars)
  <2>1. entry' <= Size
    BY <1>1, StepKeeps, MailAssumption DEF IInv, MailInv, RingInv
  <2>2. RingInv
    BY <1>1 DEF IInv, MailInv
  <2>3. ASSUME UNCHANGED << pool, outOff, entry, mails >>
        PROVE  mails' = mails /\ Mb!Contents' = Mb!Contents
    BY <2>3 DEF Mb!Contents
  <2>4. CASE MailStep
    <3>1. CASE \E urgent \in BOOLEAN : Mb!Post(urgent)
      <4>1. PICK urgent \in BOOLEAN : Mb!Post(urgent)
        BY <3>1
      <4>2. entry < Size /\ Mb!Store(urgent)
        BY <4>1 DEF Mb!Post
      <4> QED
        BY <2>1, <2>2, <4>1, <4>2, ContentsStored
    <3>2. CASE \E t \in Threads, mode \in MailModes \cup {"no"} : Mb!SendAgain(t, mode)
      <4>1. \/ entry < Size /\ Mb!Store(FALSE)
            \/ UNCHANGED << pool, outOff, entry, mails >>
        BY <3>2 DEF Mb!SendAgain, Mb!ring
      <4> QED
        BY <2>1, <2>2, <2>3, <4>1, ContentsStored
    <3>3. CASE \E t \in Threads, mode \in MailModes \cup {"no"} :
                 Mb!Recv(t, mode) \/ Mb!RecvAgain(t, mode)
      <4>1. \/ entry > 0 /\ Mb!Take
            \/ UNCHANGED << pool, outOff, entry, mails >>
        BY <3>3 DEF Mb!Recv, Mb!RecvAgain, Mb!ring, Mb!mailVars, Mb!vars
      <4> QED
        BY <2>1, <2>2, <2>3, <4>1, ContentsTaken
    <3>4. CASE \E t \in Threads, mode \in MailModes \cup {"no"} : Mb!SendFull(t, mode)
      <4>1. UNCHANGED << pool, outOff, entry, mails >>
        BY <3>4 DEF Mb!SendFull, Mb!ring
      <4> QED
        BY <2>1, <2>3, <4>1
    <3>5. CASE \E t \in Threads : Mb!Reset(t)
      <4>1. mails' = mails /\ Mb!Contents' = << >>
        <5>1. mails' = mails /\ entry' = 0
          BY <3>5 DEF Mb!Reset
        <5>2. Mb!Contents' = [i \in 1..0 |-> pool'[(outOff' + i - 1) % Size]]
          BY <5>1 DEF Mb!Contents
        <5> QED
          BY <5>1, <5>2
      <4> QED
        BY <2>1, <4>1
    <3> QED
      BY <2>4, <3>1, <3>2, <3>3, <3>4, <3>5 DEF MailStep, Mb!MailCall, Mb!ThreadPost, Mb!IsrPost
  <2>5. CASE ~MailStep
    <3>1. UNCHANGED << pool, outOff, entry, mails >>
      BY <1>1, <2>5 DEF Next, vars, SemStep, EvStep, CompStep, Expire, Timeout, mailVars
    <3> QED
      BY <2>1, <2>3, <3>1
  <2> QED
    BY <2>4, <2>5
<1> QED
  BY <1>1, InductiveInvariant, PTL DEF Spec, MailboxIsBuffer, Mb!MailboxIsBuffer
=============================================================================
