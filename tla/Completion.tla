----------------------------- MODULE Completion -----------------------------
(***************************************************************************)
(* The completions of the driver framework                                 *)
(* (components/drivers/ipc/completion_up.c): one word holds the thread     *)
(* that waits, or none, and whether the completion is done.                *)
(*                                                                         *)
(* owed is a history variable: the calls of rt_completion_done that marked *)
(* the completion done, less the waits that returned RT_EOK.               *)
(***************************************************************************)
EXTENDS ThreadWait

VARIABLES compThread, completed, pc, owed

compVars == << compThread, completed, owed >>
vars == << waitVars, pc, compVars >>

Init ==
  /\ WaitInit
  /\ compThread = NoThread /\ completed = FALSE
  /\ pc = [t \in Threads |-> "run"] /\ owed = 0

ThreadsRun == expiring = NoThread

(* A completion that is done is consumed.                                  *)
Consume ==
  /\ compThread' = NoThread /\ completed' = FALSE
  /\ owed' = owed - 1

(* rt_completion_wait_flags.  "only one thread can suspend on complete":   *)
(* its assertion stops the system on a second one.                         *)
Wait(t, mode) ==
  /\ ThreadsRun /\ pc[t] = "run"
  /\ CASE completed -> Consume /\ UNCHANGED << waitVars, pc >>
       [] ~completed /\ compThread = NoThread /\ mode # "no" ->
            /\ SuspendWith(t, mode = "timed", "OK")
            /\ compThread' = t
            /\ pc' = [pc EXCEPT ![t] = "compAsleep"]
            /\ UNCHANGED << completed, owed >>
       [] OTHER -> compThread = NoThread /\ UNCHANGED vars

(* Faulty variant: the error decides, as it does in rt_sem_take.           *)
ResumeByError(t) ==
  /\ ThreadsRun /\ pc[t] = "compAsleep" /\ ~suspended[t]
  /\ pc' = [pc EXCEPT ![t] = "run"]
  /\ compThread' = NoThread /\ completed' = FALSE
  /\ owed' = IF error[t] = "OK" THEN owed - 1 ELSE owed
  /\ UNCHANGED waitVars

(* Back from rt_schedule: a word that changed is looked at again, without  *)
(* waiting; one that did not means a time-out.                             *)
Unchanged(t) == compThread = t /\ ~completed
Resume(t) ==
  /\ ThreadsRun /\ pc[t] = "compAsleep" /\ ~suspended[t]
  /\ CASE completed -> Consume
       [] Unchanged(t) ->
            error[t] # "OK" /\ compThread' = NoThread /\ UNCHANGED << completed, owed >>
       [] OTHER -> compThread = NoThread /\ UNCHANGED << compThread, completed, owed >>
  /\ pc' = [pc EXCEPT ![t] = "run"]
  /\ UNCHANGED waitVars

(* rt_completion_done: -RT_EBUSY when done already.  Whether the thread    *)
(* could be resumed does not matter to the word, and its error is left.    *)
Done ==
  /\ ~completed
  /\ IF compThread = NoThread THEN UNCHANGED waitVars
                              ELSE ReadyAll({compThread}, {}, "OK")
  /\ compThread' = NoThread /\ completed' = TRUE
  /\ owed' = owed + 1
  /\ UNCHANGED pc

ThreadDone(t) == ThreadsRun /\ pc[t] = "run" /\ Done
IsrDone == Done

CompCall ==
  \/ \E t \in Threads :
       \/ \E mode \in {"no", "timed", "forever"} : Wait(t, mode)
       \/ Resume(t) \/ ThreadDone(t)
  \/ IsrDone

-----------------------------------------------------------------------------
(* Properties.                                                             *)

(* Every completion is either still marked or has let exactly one wait     *)
(* return RT_EOK: unlike the token of a semaphore it survives a time-out   *)
(* of its waiter that comes at the same moment.  And a thread that finds   *)
(* the word as it left it was not resumed by a completion ("no changes,    *)
(* waiting failed", completion_up.c:133-136).                              *)
CompletionsKept ==
  /\ owed = IF completed THEN 1 ELSE 0
  /\ \A t \in Threads :
       pc[t] = "compAsleep" /\ ~suspended[t] /\ Unchanged(t) => error[t] # "OK"
=============================================================================
