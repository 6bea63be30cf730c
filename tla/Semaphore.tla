------------------------------ MODULE Semaphore ------------------------------
(***************************************************************************)
(* rt_sem_take and rt_sem_release (rt-thread/src/ipc.c) on a semaphore     *)
(* with a FIFO suspend list.  A release hands its token to the first       *)
(* suspended thread without touching the value, or increments the value.   *)
(*                                                                         *)
(* tokens is a history variable: the tokens given, by rt_sem_init, by      *)
(* releases that returned RT_EOK and by resets, less those taken.  lost    *)
(* counts the releases that met the first waiter's time-out function just  *)
(* about to run: they return RT_EOK too, but nobody is resumed and the     *)
(* value is left as it is.                                                 *)
(***************************************************************************)
EXTENDS ThreadWait

CONSTANTS
  InitValue, MaxValue,  \* sem->value at rt_sem_init, sem->max_value
  ResetValues, Limits,  \* given with RT_IPC_CMD_RESET, RT_IPC_CMD_SET_VLIMIT
  MaxLost               \* bound: releases that resume nobody, in a behaviour

VARIABLES value, limit, waiting, pc, tokens, lost

semVars == << value, limit, waiting, tokens, lost >>
vars == << waitVars, pc, semVars >>

Init ==
  /\ WaitInit
  /\ value = InitValue /\ limit = MaxValue /\ waiting = << >>
  /\ pc = [t \in Threads |-> "run"]
  /\ tokens = InitValue /\ lost = 0

(* Threads run only while no interrupt handler does.                       *)
ThreadsRun == expiring = NoThread

(* _rt_sem_take with RT_WAITING_NO, a time-out, or RT_WAITING_FOREVER.     *)
Take(t, mode) ==
  /\ ThreadsRun /\ pc[t] = "run"
  /\ CASE value > 0 ->
            /\ value' = value - 1 /\ tokens' = tokens - 1
            /\ UNCHANGED << waiting, pc, waitVars >>
       [] value = 0 /\ mode # "no" ->
            /\ waiting' = Append(waiting, t)
            /\ Suspend(t, mode = "timed")
            /\ pc' = [pc EXCEPT ![t] = "semAsleep"]
            /\ UNCHANGED << value, tokens >>
       [] OTHER -> UNCHANGED vars
  /\ UNCHANGED << limit, lost >>

(* Back from rt_schedule: the error tells whether the token was handed.    *)
Resume(t) ==
  /\ ThreadsRun /\ pc[t] = "semAsleep" /\ ~suspended[t]
  /\ pc' = [pc EXCEPT ![t] = "run"]
  /\ tokens' = IF error[t] = "OK" THEN tokens - 1 ELSE tokens
  /\ UNCHANGED << waitVars, value, limit, waiting, lost >>

(* Faulty variant: max_value is not looked at.                             *)
ReleaseUnlimited ==
  /\ IF waiting # << >>
       THEN /\ DequeueEffect(waiting) /\ waiting' = Dequeued(waiting)
            /\ lost' = IF Missed(waiting) THEN lost + 1 ELSE lost
            /\ lost' <= MaxLost
            /\ UNCHANGED value
       ELSE value' = value + 1 /\ UNCHANGED << waitVars, waiting, lost >>
  /\ tokens' = tokens + 1
  /\ UNCHANGED << pc, limit >>

(* rt_sem_release, from a thread or from an interrupt handler.             *)
Release ==
  /\ IF waiting # << >>
       THEN /\ DequeueEffect(waiting) /\ waiting' = Dequeued(waiting)
            /\ lost' = IF Missed(waiting) THEN lost + 1 ELSE lost
            /\ lost' <= MaxLost
            /\ UNCHANGED value
       ELSE /\ value < limit
            /\ value' = value + 1
            /\ UNCHANGED << waitVars, waiting, lost >>
  /\ tokens' = tokens + 1
  /\ UNCHANGED << pc, limit >>

ThreadRelease(t) == ThreadsRun /\ pc[t] = "run" /\ Release
IsrRelease == Release

(* rt_sem_control with RT_IPC_CMD_RESET, from a thread.                    *)
Reset(t, v) ==
  /\ ThreadsRun /\ pc[t] = "run"
  /\ ResumeAll(Range(waiting)) /\ waiting' = << >>
  /\ value' = v /\ tokens' = tokens + v - value
  /\ UNCHANGED << pc, limit, lost >>

(* ... and with RT_IPC_CMD_SET_VLIMIT.                                     *)
SetLimit(t, n) ==
  /\ ThreadsRun /\ pc[t] = "run"
  /\ limit' = n
  /\ IF n < value
       THEN ResumeAll(Range(waiting)) /\ waiting' = << >>
       ELSE UNCHANGED << waitVars, waiting >>
  /\ UNCHANGED << value, pc, tokens, lost >>

Timeout(t) ==
  /\ ThreadTimeout(t)
  /\ waiting' = Without(waiting, {t})
  /\ UNCHANGED << value, limit, pc, tokens, lost >>

SemCall ==
  \/ \E t \in Threads :
       \/ \E mode \in {"no", "timed", "forever"} : Take(t, mode)
       \/ Resume(t) \/ ThreadRelease(t)
       \/ \E v \in ResetValues : Reset(t, v)
       \/ \E n \in Limits : SetLimit(t, n)
  \/ IsrRelease

Next ==
  \/ SemCall
  \/ \E t \in Threads : Timeout(t) \/ (TimerExpires(t) /\ UNCHANGED << pc, semVars >>)

Spec == Init /\ [][Next]_vars

-----------------------------------------------------------------------------
(* Properties.                                                             *)

Handed == {t \in Threads : pc[t] = "semAsleep" /\ ~suspended[t] /\ error[t] = "OK"}

(* A token given and not yet taken is in the value, or on its way to a     *)
(* thread resumed for it, or was given by a release that found the         *)
(* time-out function of the first waiter about to run.  No token is        *)
(* doubled, and none is lost in any other way: not by time-outs, resets,   *)
(* limits or waits on other objects.                                       *)
TokensAccounted ==
  tokens = value + Cardinality(Handed) + lost
=============================================================================
