------------------------------- MODULE Mailbox -------------------------------
(***************************************************************************)
(* The mailboxes of the kernel (rt-thread/src/ipc.c): rt_mb_send_wait,     *)
(* rt_mb_urgent, rt_mb_recv and RT_IPC_CMD_RESET on a ring of Size words.  *)
(*                                                                         *)
(* A mail is its number, in the order in which mails enter the mailbox;    *)
(* swallowed counts the mails in the ring whose wake-up was lost.          *)
(***************************************************************************)
EXTENDS ThreadWait

CONSTANTS
  Size,     \* mb->size
  Modes,    \* how threads wait: "no", "timed", "forever"
  MaxMails  \* bound: mails that enter the mailbox in a behaviour

VARIABLES
  pool, inOff, outOff, entry,
  mailWaiting, mailSenders,  \* parent.suspend_thread, suspend_sender_thread
  mailMode,                  \* how a thread waits
  pc,
  mails,      \* mails so far
  swallowed   \* history: mails in the ring that missed their receiver

ring     == << pool, inOff, outOff, entry, mails >>
mailVars == << ring, mailWaiting, mailSenders, mailMode, swallowed >>
vars     == << waitVars, pc, mailVars >>

Init ==
  /\ WaitInit
  /\ pool = [i \in 0..Size - 1 |-> 0] /\ inOff = 0 /\ outOff = 0 /\ entry = 0
  /\ mailWaiting = << >> /\ mailSenders = << >>
  /\ mailMode = [t \in Threads |-> "no"] /\ pc = [t \in Threads |-> "run"]
  /\ mails = 0 /\ swallowed = 0

ThreadsRun == expiring = NoThread

(* The call goes on to wait, or returns and its locals are gone.           *)
Sleep(t, l, mode) ==
  /\ Suspend(t, mode = "timed")
  /\ pc' = [pc EXCEPT ![t] = l] /\ mailMode' = [mailMode EXCEPT ![t] = mode]
Return(t) ==
  /\ pc' = [pc EXCEPT ![t] = "run"] /\ mailMode' = [mailMode EXCEPT ![t] = "no"]

(* Faulty variant: in front of offset 0 the ring does not go round.        *)
StoreNoWrap(urgent) ==
  /\ mails < MaxMails /\ mails' = mails + 1
  /\ IF urgent
       THEN /\ outOff' = IF outOff > 0 THEN outOff - 1 ELSE 0
            /\ pool' = [pool EXCEPT ![outOff'] = mails']
            /\ UNCHANGED inOff
       ELSE /\ pool' = [pool EXCEPT ![inOff] = mails']
            /\ inOff' = (inOff + 1) % Size
            /\ UNCHANGED outOff
  /\ entry' = entry + 1
  /\ DequeueEffect(mailWaiting) /\ mailWaiting' = Dequeued(mailWaiting)
  /\ swallowed' = IF Missed(mailWaiting) THEN swallowed + 1 ELSE swallowed

(* A mail put at the end of the ring or, urgent, in front of its first     *)
(* one; and the first receiver resumed.                                    *)
Store(urgent) ==
  /\ mails < MaxMails /\ mails' = mails + 1
  /\ IF urgent
       THEN /\ outOff' = IF outOff > 0 THEN outOff - 1 ELSE Size - 1
            /\ pool' = [pool EXCEPT ![outOff'] = mails']
            /\ UNCHANGED inOff
       ELSE /\ pool' = [pool EXCEPT ![inOff] = mails']
            /\ inOff' = (inOff + 1) % Size
            /\ UNCHANGED outOff
  /\ entry' = entry + 1
  /\ DequeueEffect(mailWaiting) /\ mailWaiting' = Dequeued(mailWaiting)
  /\ swallowed' = IF Missed(mailWaiting) THEN swallowed + 1 ELSE swallowed

(* rt_mb_send_wait, rt_mb_send and rt_mb_urgent on a mailbox with room,    *)
(* from a thread or an interrupt handler.  Without room, rt_mb_send and    *)
(* rt_mb_urgent change nothing.                                            *)
Post(urgent) ==
  /\ entry < Size /\ Store(urgent)
  /\ UNCHANGED << pc, mailMode, mailSenders >>
ThreadPost(t, urgent) == ThreadsRun /\ pc[t] = "run" /\ Post(urgent)
IsrPost(urgent) == Post(urgent)

(* rt_mb_send_wait on a full one.                                          *)
SendFull(t, mode) ==
  /\ ThreadsRun /\ pc[t] = "run" /\ entry = Size /\ mode # "no"
  /\ Sleep(t, "sendAsleep", mode)
  /\ mailSenders' = Append(mailSenders, t)
  /\ UNCHANGED << ring, mailWaiting, swallowed >>

(* What is left of a time-out, possibly nothing.                           *)
Left(t, mode) == mode = mailMode[t] \/ (mailMode[t] = "timed" /\ mode = "no")

(* Back from rt_schedule in rt_mb_send_wait: an error ends the call; a     *)
(* mailbox that is full again is waited for with what is left.             *)
SendAgain(t, mode) ==
  /\ ThreadsRun /\ pc[t] = "sendAsleep" /\ ~suspended[t] /\ Left(t, mode)
  /\ CASE error[t] = "OK" /\ entry < Size ->
            Store(FALSE) /\ Return(t) /\ UNCHANGED mailSenders
       [] error[t] = "OK" /\ entry = Size /\ mode # "no" ->
            /\ Sleep(t, "sendAsleep", mode)
            /\ mailSenders' = Append(mailSenders, t)
            /\ UNCHANGED << ring, mailWaiting, swallowed >>
       [] OTHER ->
            /\ Return(t)
            /\ UNCHANGED << waitVars, ring, mailWaiting, mailSenders, swallowed >>

(* Faulty variant: the receiver resumes no sender.                         *)
TakeResumesNone ==
  /\ outOff' = (outOff + 1) % Size /\ entry' = entry - 1
  /\ swallowed' = IF swallowed < entry THEN swallowed ELSE entry'
  /\ UNCHANGED << waitVars, pool, inOff, mails, mailSenders >>

(* The first mail taken, and the first sender resumed.                     *)
Take ==
  /\ outOff' = (outOff + 1) % Size /\ entry' = entry - 1
  /\ swallowed' = IF swallowed < entry THEN swallowed ELSE entry'
  /\ DequeueEffect(mailSenders) /\ mailSenders' = Dequeued(mailSenders)
  /\ UNCHANGED << pool, inOff, mails >>

(* rt_mb_recv.                                                             *)
Recv(t, mode) ==
  /\ ThreadsRun /\ pc[t] = "run"
  /\ CASE entry > 0 -> Take /\ UNCHANGED << pc, mailMode, mailWaiting >>
       [] entry = 0 /\ mode # "no" ->
            /\ Sleep(t, "recvAsleep", mode)
            /\ mailWaiting' = Append(mailWaiting, t)
            /\ UNCHANGED << ring, mailSenders, swallowed >>
       [] OTHER -> UNCHANGED vars

RecvAgain(t, mode) ==
  /\ ThreadsRun /\ pc[t] = "recvAsleep" /\ ~suspended[t] /\ Left(t, mode)
  /\ CASE error[t] = "OK" /\ entry > 0 -> Take /\ Return(t) /\ UNCHANGED mailWaiting
       [] error[t] = "OK" /\ entry = 0 /\ mode # "no" ->
            /\ Sleep(t, "recvAsleep", mode)
            /\ mailWaiting' = Append(mailWaiting, t)
            /\ UNCHANGED << ring, mailSenders, swallowed >>
       [] OTHER ->
            /\ Return(t)
            /\ UNCHANGED << waitVars, ring, mailWaiting, mailSenders, swallowed >>

(* rt_mb_control with RT_IPC_CMD_RESET.                                    *)
Reset(t) ==
  /\ ThreadsRun /\ pc[t] = "run"
  /\ ResumeAll(Range(mailWaiting) \cup Range(mailSenders))
  /\ mailWaiting' = << >> /\ mailSenders' = << >>
  /\ entry' = 0 /\ inOff' = 0 /\ outOff' = 0 /\ swallowed' = 0
  /\ UNCHANGED << pc, pool, mailMode, mails >>

MailCall ==
  \/ \E t \in Threads :
       \/ \E mode \in Modes \cup {"no"} : \/ SendFull(t, mode) \/ SendAgain(t, mode)
                              \/ Recv(t, mode) \/ RecvAgain(t, mode)
       \/ \E urgent \in BOOLEAN : ThreadPost(t, urgent)
       \/ Reset(t)
  \/ \E urgent \in BOOLEAN : IsrPost(urgent)

-----------------------------------------------------------------------------
(* Properties.                                                             *)

(* The ring is a buffer of at most Size mails: a mail goes in at the end,  *)
(* or in front if urgent, and the others keep their order; only the first  *)
(* one is taken out, or all of them.                                       *)
Contents == [i \in 1..entry |-> pool[(outOff + i - 1) % Size]]
MailboxIsBuffer ==
  [][/\ entry' <= Size
     /\ \/ mails' = mails /\ Contents' \in {Contents, << >>}
        \/ mails' = mails /\ entry > 0 /\ Contents' = Tail(Contents)
        \/ mails' = mails + 1 /\ Contents' = Append(Contents, mails')
        \/ mails' = mails + 1 /\ Post(TRUE) /\ Contents' = << mails' >> \o Contents]_mailVars

(* While receivers sleep, every mail has a receiver that was resumed for   *)
(* it, but for as many mails as an interrupt handler posted just when the  *)
(* time-out function of the first receiver was about to run: those resumed *)
(* nobody, and wait until a receiver comes by (swallowed).  While senders  *)
(* sleep, every free word has its resumed sender.                          *)
Woken(l) == {t \in Threads : pc[t] = l /\ ~suspended[t] /\ error[t] = "OK"}
MailHeard ==
  /\ mailWaiting # << >> => entry <= Cardinality(Woken("recvAsleep")) + swallowed
  /\ mailSenders # << >> => Size - entry <= Cardinality(Woken("sendAsleep"))
=============================================================================
