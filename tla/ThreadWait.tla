----------------------------- MODULE ThreadWait -----------------------------
(***************************************************************************)
(* How a thread of the RT-Thread kernel waits on an IPC object, possibly   *)
(* with a time-out: rt_thread_suspend_to_list, the thread timer, the       *)
(* resumption by rt_susp_list_dequeue and the one by the timer.            *)
(* Semaphore, Event, Mailbox, Completion and MsgQueue build on it.         *)
(*                                                                         *)
(* The processor is one.  A critical section is a step.  The tick handler  *)
(* has the lowest interrupt priority: _timer_check deactivates an expired  *)
(* timer, restores interrupts, and only then calls _thread_timeout, which  *)
(* disables them again.  In between (expiring # NoThread) no thread runs,  *)
(* but the other interrupt handlers do.                                    *)
(***************************************************************************)
EXTENDS Integers, Sequences, FiniteSets, Functions, ThreadList

CONSTANTS Threads, NoThread

ASSUME ThreadsAssumption == IsFiniteSet(Threads) /\ NoThread \notin Threads

VARIABLES
  suspended,  \* whether the thread is suspended
  ttmr,       \* sched_flag_ttmr_set: its timer was started for this wait
  active,     \* RT_TIMER_FLAG_ACTIVATED of its timer
  expiring,   \* the thread whose time-out function is about to be called
  error       \* thread->error

waitVars == << suspended, ttmr, active, expiring, error >>

WaitTypeOK ==
  /\ suspended \in [Threads -> BOOLEAN]
  /\ ttmr \in [Threads -> BOOLEAN] /\ active \in [Threads -> BOOLEAN]
  /\ expiring \in Threads \cup {NoThread}
  /\ error \in [Threads -> {"OK", "EINTR", "ETIMEOUT", "ERROR"}]

WaitInit ==
  /\ suspended = [t \in Threads |-> FALSE]
  /\ ttmr = [t \in Threads |-> FALSE] /\ active = [t \in Threads |-> FALSE]
  /\ expiring = NoThread
  /\ error = [t \in Threads |-> "OK"]

(* Faulty variant: the flag of an earlier wait is kept.                    *)
SuspendKeepsFlag(t, timed, err) ==
  /\ suspended' = [suspended EXCEPT ![t] = TRUE]
  /\ ttmr' = [ttmr EXCEPT ![t] = @ \/ timed]
  /\ active' = [active EXCEPT ![t] = timed]
  /\ error' = [error EXCEPT ![t] = err]
  /\ UNCHANGED expiring

(* rt_thread_suspend_to_list stops the thread timer; a wait with a time-   *)
(* out sets and starts it again before the critical section ends.  The     *)
(* caller has set thread->error, to -RT_EINTR on all but a completion.     *)
SuspendWith(t, timed, err) ==
  /\ suspended' = [suspended EXCEPT ![t] = TRUE]
  /\ ttmr' = [ttmr EXCEPT ![t] = timed]
  /\ active' = [active EXCEPT ![t] = timed]
  /\ error' = [error EXCEPT ![t] = err]
  /\ UNCHANGED expiring
Suspend(t, timed) == SuspendWith(t, timed, "EINTR")

(* rt_sched_thread_ready: a set timer is stopped first.  That fails on a   *)
(* timer no longer active, and the thread is left where it is; the flag is *)
(* cleared either way.                                                     *)
CanReady(t) == suspended[t] /\ (ttmr[t] => active[t])

ReadyOrFail(t) ==
  /\ ttmr' = [ttmr EXCEPT ![t] = IF suspended[t] THEN FALSE ELSE @]
  /\ IF CanReady(t)
       THEN /\ suspended' = [suspended EXCEPT ![t] = FALSE]
            /\ active' = [active EXCEPT ![t] = FALSE]
            /\ error' = [error EXCEPT ![t] = "OK"]
       ELSE UNCHANGED << suspended, active, error >>
  /\ UNCHANGED expiring

(* rt_susp_list_dequeue of a FIFO list: the list and the thread states     *)
(* after an attempt to resume its first thread.                            *)
Dequeued(list) == IF list # << >> /\ CanReady(Head(list)) THEN Tail(list) ELSE list

DequeueEffect(list) ==
  IF list = << >> THEN UNCHANGED waitVars ELSE ReadyOrFail(Head(list))

(* The attempt misses: the first thread's timer has been found expired and *)
(* its time-out function is yet to run.                                    *)
Missed(list) == list # << >> /\ expiring = Head(list) /\ ttmr[expiring]

(* rt_sched_thread_ready of each thread of a set, with an error for those  *)
(* in notified.                                                            *)
ReadyAll(S, notified, err) ==
  LET done == {t \in S : CanReady(t)}
  IN  /\ ttmr' = [t \in Threads |-> ttmr[t] /\ ~(t \in S /\ suspended[t])]
      /\ suspended' = [t \in Threads |-> suspended[t] /\ t \notin done]
      /\ active' = [t \in Threads |-> active[t] /\ t \notin done]
      /\ error' = [t \in Threads |-> IF t \in notified THEN err ELSE error[t]]
      /\ UNCHANGED expiring

(* rt_susp_list_resume_all with RT_ERROR, called by a thread: no timer is  *)
(* expiring, and every thread on the list can be resumed.                  *)
ResumeAll(S) == ReadyAll(S, S, "ERROR")

(* _timer_check finds the timer of t expired.                              *)
TimerExpires(t) ==
  /\ expiring = NoThread /\ active[t]
  /\ active' = [active EXCEPT ![t] = FALSE]
  /\ expiring' = t
  /\ UNCHANGED << suspended, ttmr, error >>

(* _thread_timeout, which stops the system when its assertion fails.  The  *)
(* caller removes the thread from the suspend list.                        *)
ThreadTimeout(t) ==
  /\ expiring = t /\ suspended[t]
  /\ error' = [error EXCEPT ![t] = "ETIMEOUT"]
  /\ suspended' = [suspended EXCEPT ![t] = FALSE]
  /\ expiring' = NoThread
  /\ UNCHANGED << ttmr, active >>

(* "resume of the thread and stop of the thread timer should be an atomic  *)
(* operation.  So we don't expected that thread had resumed"               *)
(* (thread.c:119-123): the assertion of _thread_timeout.                   *)
TimeoutFindsSuspended == expiring # NoThread => suspended[expiring]
=============================================================================
