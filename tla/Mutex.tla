-------------------------------- MODULE Mutex --------------------------------
(***************************************************************************)
(* The mutexes of the kernel (rt-thread/src/ipc.c): rt_mutex_take,         *)
(* rt_mutex_release and rt_mutex_setprioceiling, with nested holding,      *)
(* priority inheritance along chains of owners, priority ceilings and      *)
(* waits with a time-out.  The CAN device serialises its callers with one  *)
(* (components/drivers/can/can.c).                                         *)
(*                                                                         *)
(* A smaller number is a higher priority.  A mutex is used by threads      *)
(* only, under the scheduler lock; interrupt handlers use none, so that    *)
(* each call is a step up to where it sleeps, and the time-out of a waiter *)
(* is one step of the tick handler.  The waiter repairs the priorities     *)
(* its wait had raised when it next runs, not when its time is up.         *)
(***************************************************************************)
EXTENDS Integers, Sequences, FiniteSets, Functions, SequencesExt, ThreadList

CONSTANTS
  Threads, NoThread, Mutexes, NoMutex,
  InitPrio,   \* init_priority of each thread
  Ceilings,   \* the values given to rt_mutex_setprioceiling
  CeiledMutexes,  \* the mutexes it is called for
  TimedThreads,   \* the threads that take with a time-out
  HoldMax     \* RT_MUTEX_HOLD_MAX

NoPrio == 255   \* 0xFF: no ceiling, no waiter

ASSUME NamesAssumption ==
  /\ IsFiniteSet(Threads) /\ NoThread \notin Threads
  /\ IsFiniteSet(Mutexes) /\ NoMutex \notin Mutexes
  /\ CeiledMutexes \subseteq Mutexes /\ TimedThreads \subseteq Threads
ASSUME PrioAssumption ==
  /\ InitPrio \in [Threads -> 0..31] /\ Ceilings \subseteq 0..31
  /\ HoldMax \in Nat \ {0}

VARIABLES
  owner, hold, ceiling,
  mprio,      \* mutex->priority: of its first waiter
  waiters,    \* mutex->parent.suspend_thread, sorted by priority
  prio,       \* current_priority of each thread
  pc, wants,  \* of each thread: where it is in rt_mutex_take, of which mutex
  timed       \* whether its timer runs

mutexVars == << owner, hold, ceiling, mprio, waiters >>
vars == << mutexVars, prio, pc, wants, timed >>

Init ==
  /\ owner = [m \in Mutexes |-> NoThread] /\ hold = [m \in Mutexes |-> 0]
  /\ ceiling = [m \in Mutexes |-> NoPrio] /\ mprio = [m \in Mutexes |-> NoPrio]
  /\ waiters = [m \in Mutexes |-> << >>]
  /\ prio = InitPrio
  /\ pc = [t \in Threads |-> "run"] /\ wants = [t \in Threads |-> NoMutex]
  /\ timed = [t \in Threads |-> FALSE]

(* A thread may call when no thread of a higher priority is on its way out *)
(* of rt_mutex_take; threads outside it may be away.                       *)
Ready == {"handed", "timedOut"}
CanRun(t) == \A u \in Threads : pc[u] \in Ready => prio[t] <= prio[u]

-----------------------------------------------------------------------------
(* Priorities.                                                             *)

(* rt_susp_list_enqueue with RT_IPC_FLAG_PRIO: before the first thread of  *)
(* a lower priority.                                                       *)
Enqueue(list, t, pr) ==
  LET lower == {i \in 1..Len(list) : pr[t] < pr[list[i]]}
  IN  InsertAt(list, Min(lower \cup {Len(list) + 1}), t)

(* _mutex_update_priority.                                                 *)
HeadPrio(list, pr) == IF list = << >> THEN NoPrio ELSE pr[Head(list)]

(* _thread_get_mutex_priority: the highest of its initial priority and of  *)
(* the priorities and ceilings of the mutexes on its taken list.           *)
MutexPriority(t, taken, mp, ceil) ==
  Min({InitPrio[t]} \cup {mp[m] : m \in taken} \cup {ceil[m] : m \in taken})

TakenBy(t) == {m \in Mutexes : owner[m] = t}

(* The mutex a suspended thread waits for (pending_object).                *)
Pending == [t \in Threads |-> IF pc[t] = "asleep" THEN wants[t] ELSE NoMutex]

(* Faulty variants: a thread that waits itself passes nothing on; it keeps *)
(* its place among the waiters.                                            *)
FollowNone(s, pend, ceil) == [s EXCEPT !.more = FALSE]
FollowInPlace(s, pend, ceil) ==
  LET m  == pend[s.at]
      mp == [s.mprio EXCEPT ![m] = HeadPrio(s.waiters[m], s.prio)]
      o  == owner[m]
      p  == MutexPriority(o, TakenBy(o), mp, ceil)
  IN  [waiters |-> s.waiters, mprio |-> mp,
       prio |-> [s.prio EXCEPT ![o] = p], at |-> o, more |-> p # s.prio[o]]

(* _thread_update_priority gives thread t priority p; while the thread is  *)
(* suspended on a mutex it is sorted anew among its waiters, and the owner *)
(* of that mutex gets its priority in turn, until one needs no change.     *)
(* s holds the priorities, the lists and mutex->priority meanwhile.        *)
Follow(s, pend, ceil) ==
  LET m  == pend[s.at]
      q  == Enqueue(Without(s.waiters[m], {s.at}), s.at, s.prio)
      mp == [s.mprio EXCEPT ![m] = HeadPrio(q, s.prio)]
      o  == owner[m]
      p  == MutexPriority(o, TakenBy(o), mp, ceil)
  IN  [waiters |-> [s.waiters EXCEPT ![m] = q], mprio |-> mp,
       prio |-> [s.prio EXCEPT ![o] = p], at |-> o, more |-> p # s.prio[o]]

Updated(t, p, ws, mp, ceil, pend) ==
  LET run[n \in 0..(2 * Cardinality(Threads))] ==
        IF n = 0
          THEN [waiters |-> ws, mprio |-> mp, prio |-> [prio EXCEPT ![t] = p],
                at |-> t, more |-> TRUE]
          ELSE LET s == run[n - 1]
               IN  IF s.more /\ pend[s.at] # NoMutex THEN Follow(s, pend, ceil) ELSE s
  IN  run[2 * Cardinality(Threads)]

SetPriorities(s) == prio' = s.prio /\ waiters' = s.waiters /\ mprio' = s.mprio

-----------------------------------------------------------------------------
(* _rt_mutex_take.                                                         *)

(* Faulty variant: RT_MUTEX_HOLD_MAX is not looked at.                     *)
TakeAgainUnlimited(t, m) ==
  /\ CanRun(t) /\ pc[t] = "run" /\ owner[m] = t
  /\ hold' = [hold EXCEPT ![m] = @ + 1]
  /\ UNCHANGED << owner, ceiling, mprio, waiters, prio, pc, wants, timed >>

(* By its owner: counted, up to RT_MUTEX_HOLD_MAX (-RT_EFULL).             *)
TakeAgain(t, m) ==
  /\ CanRun(t) /\ pc[t] = "run" /\ owner[m] = t /\ hold[m] < HoldMax
  /\ hold' = [hold EXCEPT ![m] = @ + 1]
  /\ UNCHANGED << owner, ceiling, mprio, waiters, prio, pc, wants, timed >>

(* A free mutex: its ceiling, if it has one, is the owner's at once.       *)
TakeFree(t, m) ==
  /\ CanRun(t) /\ pc[t] = "run" /\ owner[m] = NoThread
  /\ owner' = [owner EXCEPT ![m] = t] /\ hold' = [hold EXCEPT ![m] = 1]
  /\ mprio' = [mprio EXCEPT ![m] = NoPrio]
  /\ prio' = [prio EXCEPT ![t] = Min({@, ceiling[m]})]
  /\ UNCHANGED << ceiling, waiters, pc, wants, timed >>

(* Another's: -RT_ETIMEOUT at once with RT_WAITING_NO (no state changes),  *)
(* or suspended, and the owner raised to the waiter's priority.            *)
TakeWait(t, m, withTimeout) ==
  /\ CanRun(t) /\ pc[t] = "run" /\ owner[m] \in Threads \ {t}
  /\ withTimeout => t \in TimedThreads
  /\ LET queued == [waiters EXCEPT ![m] = Enqueue(@, t, prio)]
         raised == [mprio EXCEPT ![m] = Min({@, prio[t]})]
     IN  IF prio[t] < mprio[m] /\ prio[t] < prio[owner[m]]
           THEN SetPriorities(Updated(owner[m], prio[t], queued, raised, ceiling,
                                      [Pending EXCEPT ![t] = m]))
           ELSE waiters' = queued /\ mprio' = raised /\ UNCHANGED prio
  /\ pc' = [pc EXCEPT ![t] = "asleep"] /\ wants' = [wants EXCEPT ![t] = m]
  /\ timed' = [timed EXCEPT ![t] = withTimeout]
  /\ UNCHANGED << owner, hold, ceiling >>

(* Faulty variant: the thread stays on the list.                           *)
TimeoutStaysListed(t) ==
  /\ pc[t] = "asleep" /\ timed[t]
  /\ pc' = [pc EXCEPT ![t] = "timedOut"] /\ timed' = [timed EXCEPT ![t] = FALSE]
  /\ UNCHANGED << mutexVars, prio, wants >>

(* _thread_timeout: off the list and ready, and nothing else.              *)
Timeout(t) ==
  /\ pc[t] = "asleep" /\ timed[t]
  /\ waiters' = [waiters EXCEPT ![wants[t]] = Without(@, {t})]
  /\ pc' = [pc EXCEPT ![t] = "timedOut"] /\ timed' = [timed EXCEPT ![t] = FALSE]
  /\ UNCHANGED << owner, hold, ceiling, mprio, prio, wants >>

(* Back from rt_schedule with the mutex.                                   *)
ResumeOwner(t) ==
  /\ CanRun(t) /\ pc[t] = "handed"
  /\ pc' = [pc EXCEPT ![t] = "run"] /\ wants' = [wants EXCEPT ![t] = NoMutex]
  /\ UNCHANGED << mutexVars, prio, timed >>

(* Back from rt_schedule with an error: mutex->priority is found anew, and *)
(* the owner's priority too if it equals that of this thread.              *)
NeedUpdate(t, m) == owner[m] # NoThread /\ prio[owner[m]] = prio[t]

ResumeTimedOut(t) ==
  LET m  == wants[t]
      o  == owner[m]
      mp == [mprio EXCEPT ![m] = HeadPrio(waiters[m], prio)]
      p  == MutexPriority(o, TakenBy(o), mp, ceiling)
  IN  /\ CanRun(t) /\ pc[t] = "timedOut"
      /\ IF NeedUpdate(t, m) /\ p # prio[o]
           THEN SetPriorities(Updated(o, p, waiters, mp, ceiling, Pending))
           ELSE mprio' = mp /\ UNCHANGED << prio, waiters >>
      /\ pc' = [pc EXCEPT ![t] = "run"] /\ wants' = [wants EXCEPT ![t] = NoMutex]
      /\ UNCHANGED << owner, hold, ceiling, timed >>

-----------------------------------------------------------------------------
(* rt_mutex_release.                                                       *)

(* One of several holds; a caller that is not the owner gets -RT_ERROR and *)
(* changes nothing.                                                        *)
ReleaseOne(t, m) ==
  /\ CanRun(t) /\ pc[t] = "run" /\ owner[m] = t /\ hold[m] > 1
  /\ hold' = [hold EXCEPT ![m] = @ - 1]
  /\ UNCHANGED << owner, ceiling, mprio, waiters, prio, pc, wants, timed >>

(* Faulty variants: the mutex still counts; the priority is left alone.    *)
LoweredTooEarly(t, m) ==
  IF ceiling[m] # NoPrio \/ prio[t] = mprio[m]
    THEN MutexPriority(t, TakenBy(t), mprio, ceiling)
    ELSE prio[t]
LoweredToInit(t, m) == InitPrio[t]

(* _check_and_update_prio: the priority of the owner is found anew, if     *)
(* this mutex may have raised it.                                          *)
Lowered(t, m) ==
  IF ceiling[m] # NoPrio \/ prio[t] = mprio[m]
    THEN MutexPriority(t, TakenBy(t) \ {m}, mprio, ceiling)
    ELSE prio[t]

(* The last hold: the mutex goes to its first waiter, or is free.  The     *)
(* code tries the next waiter when the timer of the first has expired; no  *)
(* thread runs between that and the time-out, so the first is there.       *)
ReleaseLast(t, m) ==
  /\ CanRun(t) /\ pc[t] = "run" /\ owner[m] = t /\ hold[m] = 1
  /\ prio' = [prio EXCEPT ![t] = Lowered(t, m)]
  /\ IF waiters[m] = << >>
       THEN /\ owner' = [owner EXCEPT ![m] = NoThread]
            /\ hold' = [hold EXCEPT ![m] = 0] /\ mprio' = [mprio EXCEPT ![m] = NoPrio]
            /\ UNCHANGED << waiters, pc, timed >>
       ELSE LET next == Head(waiters[m])
            IN  /\ owner' = [owner EXCEPT ![m] = next]
                /\ waiters' = [waiters EXCEPT ![m] = Tail(@)]
                /\ mprio' = [mprio EXCEPT ![m] = HeadPrio(Tail(waiters[m]), prio)]
                /\ pc' = [pc EXCEPT ![next] = "handed"]
                /\ timed' = [timed EXCEPT ![next] = FALSE]
                /\ UNCHANGED hold
  /\ UNCHANGED << ceiling, wants >>

(* rt_mutex_setprioceiling.                                                *)
SetPrioCeiling(t, m, c) ==
  LET o  == owner[m]
      cs == [ceiling EXCEPT ![m] = c]
      p  == MutexPriority(o, TakenBy(o), mprio, cs)
  IN  /\ CanRun(t) /\ pc[t] = "run"
      /\ m \in CeiledMutexes /\ c \in Ceilings
      /\ ceiling' = cs
      /\ IF o # NoThread /\ p # prio[o]
           THEN SetPriorities(Updated(o, p, waiters, mprio, cs, Pending))
           ELSE UNCHANGED << prio, waiters, mprio >>
      /\ UNCHANGED << owner, hold, pc, wants, timed >>

Next ==
  \E t \in Threads :
    \/ Timeout(t) \/ ResumeOwner(t) \/ ResumeTimedOut(t)
    \/ \E m \in Mutexes :
         \/ TakeAgain(t, m) \/ TakeFree(t, m)
         \/ \E withTimeout \in BOOLEAN : TakeWait(t, m, withTimeout)
         \/ ReleaseOne(t, m) \/ ReleaseLast(t, m)
         \/ \E c \in Ceilings : SetPrioCeiling(t, m, c)

Spec == Init /\ [][Next]_vars

-----------------------------------------------------------------------------
(* Properties.                                                             *)

(* Every variable stays within its type.                                   *)
TypeOK ==
  /\ owner \in [Mutexes -> Threads \cup {NoThread}]
  /\ hold \in [Mutexes -> 0..HoldMax]
  /\ ceiling \in [Mutexes -> Ceilings \cup {NoPrio}]
  /\ mprio \in [Mutexes -> 0..31 \cup {NoPrio}]
  /\ waiters \in [Mutexes -> Seq(Threads)]
  /\ prio \in [Threads -> 0..31]
  /\ pc \in [Threads -> {"run", "asleep"} \cup Ready]
  /\ wants \in [Threads -> Mutexes \cup {NoMutex}]
  /\ timed \in [Threads -> BOOLEAN]

(* A thread comes back from its wait with the mutex exactly if it was      *)
(* handed to it (the assertions ipc.c:1457 and 1464), a mutex somebody     *)
(* waits for has an owner to release it, and who sleeps is on one list.    *)
HandedOver ==
  /\ \A t \in Threads : /\ pc[t] = "handed" => owner[wants[t]] = t
                        /\ pc[t] = "timedOut" => owner[wants[t]] # t
  /\ \A m \in Mutexes :
       /\ waiters[m] # << >> => owner[m] # NoThread
       /\ IsInjective(waiters[m])
       /\ Range(waiters[m]) = {t \in Threads : pc[t] = "asleep" /\ wants[t] = m}
  /\ \A m \in Mutexes : hold[m] = 0 <=> owner[m] = NoThread

(* The waiters are sorted by the priorities they have now, inherited ones  *)
(* included: the next owner is the most urgent.                            *)
Sorted ==
  \A m \in Mutexes : \A i, j \in DOMAIN waiters[m] :
     i < j => prio[waiters[m][i]] <= prio[waiters[m][j]]

(* No priority inversion: the owner of a mutex, and through it the owner   *)
(* of the one it waits for itself, runs at least at the priority of each   *)
(* of its waiters ("FIFO cannot solve the unbounded priority inversion     *)
(* problem", ipc.c:1025).                                                  *)
NoInversion ==
  \A m \in Mutexes : \A w \in Range(waiters[m]) : prio[owner[m]] <= prio[w]

(* The priority kept in a mutex is that of its first waiter; it may be too *)
(* high only while a waiter has timed out and not run since.               *)
MutexPrioOfHead ==
  \A m \in Mutexes :
     LET head == HeadPrio(waiters[m], prio)
     IN  mprio[m] # head => /\ mprio[m] < head
                            /\ \E u \in Threads : pc[u] = "timedOut" /\ wants[u] = m

(* A raised priority ends with its reason, be that a waiter or a ceiling,  *)
(* unless the waiter went by a time-out: NeedUpdate compares priorities    *)
(* that may have changed before it runs (ipc.c:1478), and the owner may    *)
(* have released the mutex by then.                                        *)
Boosted ==
  {t \in Threads : prio[t] < MutexPriority(t, TakenBy(t), mprio, ceiling)}
BoostEnds ==
  [][Boosted' \subseteq Boosted \/ \E u \in Threads : pc[u] = "timedOut"]_vars

(* "get highest priority inside its taken object and its init priority"    *)
(* (ipc.c:844): a thread that has taken nothing has its initial priority.  *)
NoBoostLeft == \A t \in Threads : TakenBy(t) = {} => prio[t] = InitPrio[t]
=============================================================================
