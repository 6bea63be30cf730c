-------------------------------- MODULE Event --------------------------------
(***************************************************************************)
(* The event sets of the kernel (rt-thread/src/ipc.c): rt_event_send and   *)
(* rt_event_recv with AND, OR and CLEAR, and RT_IPC_CMD_RESET.             *)
(*                                                                         *)
(* A flag is a member of a set, where the code has a bit of a word.        *)
(***************************************************************************)
EXTENDS ThreadWait

CONSTANTS
  Flags, Requests,  \* the flags; what threads ask for
  SentSets,         \* the sets of flags that are sent
  Modes             \* how threads wait: "no", "timed", "forever"

Request == [want : (SUBSET Flags) \ {{}}, all : BOOLEAN, clear : BOOLEAN]
NoRequest == [want |-> {}, all |-> FALSE, clear |-> FALSE]

VARIABLES
  set, eventWaiting,
  request,   \* thread->event_set and event_info, while it waits
  pc

eventVars == << set, eventWaiting, request >>
vars == << waitVars, pc, eventVars >>

Init ==
  /\ WaitInit
  /\ set = {} /\ eventWaiting = << >> /\ request = [t \in Threads |-> NoRequest]
  /\ pc = [t \in Threads |-> "run"]

ThreadsRun == expiring = NoThread

Satisfied(r, s) == IF r.all THEN r.want \subseteq s ELSE r.want \cap s # {}

(* _rt_event_recv: the flags are there, and CLEAR takes all those asked    *)
(* for; or -RT_ETIMEOUT at once; or suspended.                             *)
Recv(t, r, mode) ==
  /\ ThreadsRun /\ pc[t] = "run"
  /\ CASE Satisfied(r, set) ->
            /\ set' = IF r.clear THEN set \ r.want ELSE set
            /\ UNCHANGED << waitVars, pc, eventWaiting, request >>
       [] ~Satisfied(r, set) /\ mode # "no" ->
            /\ request' = [request EXCEPT ![t] = r]
            /\ Suspend(t, mode = "timed")
            /\ eventWaiting' = Append(eventWaiting, t)
            /\ pc' = [pc EXCEPT ![t] = "eventAsleep"]
            /\ UNCHANGED set
       [] OTHER -> UNCHANGED vars

(* Back from rt_schedule, with the flags in event_set or an error.         *)
Resume(t) ==
  /\ ThreadsRun /\ pc[t] = "eventAsleep" /\ ~suspended[t]
  /\ pc' = [pc EXCEPT ![t] = "run"]
  /\ request' = [request EXCEPT ![t] = NoRequest]
  /\ UNCHANGED << waitVars, set, eventWaiting >>

Got(t, s) == IF request[t].all THEN request[t].want ELSE request[t].want \cap s

(* Faulty variant: CLEAR takes effect before the next waiter is looked at. *)
SendClearsAtOnce(s) ==
  LET new == set \cup s
      ask[i \in 0..Len(eventWaiting)] ==
        IF i = 0 THEN [left |-> new, woken |-> {}]
        ELSE LET t == eventWaiting[i]
             IN  IF Satisfied(request[t], ask[i - 1].left)
                   THEN [left |-> IF request[t].clear
                                    THEN ask[i - 1].left \ request[t].want ELSE ask[i - 1].left,
                         woken |-> ask[i - 1].woken \cup {t}]
                   ELSE ask[i - 1]
      result == ask[Len(eventWaiting)]
  IN  /\ set' = result.left
      /\ eventWaiting' = Without(eventWaiting, {t \in result.woken : CanReady(t)})
      /\ ReadyAll(result.woken, result.woken, "OK")
      /\ UNCHANGED << pc, request >>

(* rt_event_send: every waiter whose request is satisfied is resumed, and  *)
(* what those with CLEAR received is then cleared; whether a thread really *)
(* was resumed is not looked at.                                           *)
Send(s) ==
  LET new   == set \cup s
      woken == {t \in Range(eventWaiting) : Satisfied(request[t], new)}
  IN  /\ set' = new \ UNION {Got(t, new) : t \in {u \in woken : request[u].clear}}
      /\ eventWaiting' = Without(eventWaiting, {t \in woken : CanReady(t)})
      /\ request' = [t \in Threads |->
                      IF t \in woken THEN [request[t] EXCEPT !.want = Got(t, new)]
                                     ELSE request[t]]
      /\ ReadyAll(woken, woken, "OK")
      /\ UNCHANGED pc

ThreadSend(t, s) == ThreadsRun /\ pc[t] = "run" /\ Send(s)
IsrSend(s) == Send(s)

(* rt_event_control with RT_IPC_CMD_RESET, from a thread.                  *)
Reset(t) ==
  /\ ThreadsRun /\ pc[t] = "run"
  /\ ResumeAll(Range(eventWaiting)) /\ eventWaiting' = << >>
  /\ set' = {}
  /\ UNCHANGED << pc, request >>

EventCall ==
  \/ \E t \in Threads :
       \/ \E r \in Requests, mode \in Modes : Recv(t, r, mode)
       \/ Resume(t) \/ Reset(t)
       \/ \E s \in SentSets : ThreadSend(t, s)
  \/ \E s \in SentSets : IsrSend(s)

-----------------------------------------------------------------------------
(* Properties.                                                             *)

Asleep(t) == pc[t] = "eventAsleep" /\ suspended[t]

(* Nobody sleeps beside the flags it asks for, and a send resumes every    *)
(* thread that its flags, with those there were, satisfy, also when a      *)
(* thread before it in the list clears them; except the thread whose       *)
(* time-out function is about to run.                                      *)
EventsHeard ==
  /\ [](\A t \in Threads \ {expiring} : Asleep(t) => ~Satisfied(request[t], set))
  /\ [][\A t \in Threads \ {expiring} : \A s \in SentSets :
          Asleep(t) /\ Satisfied(request[t], set \cup s) /\ Send(s) =>
             ~suspended'[t] /\ error'[t] = "OK"]_vars
=============================================================================
