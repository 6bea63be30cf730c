-------------------------------- MODULE Ipc --------------------------------
(***************************************************************************)
(* A semaphore, an event, a mailbox and a completion used by the same      *)
(* threads and interrupt handlers.  What they share is the thread: its     *)
(* state, its one timer, its time-out flag and its error, which the wait   *)
(* on one object leaves behind for the wait on the next.                   *)
(***************************************************************************)
EXTENDS ThreadWait

CONSTANTS
  InitValue, MaxValue, ResetValues, Limits, MaxLost,  \* of the semaphore
  Flags, Requests, SentSets, EventModes,     \* of the event
  Size, MailModes, MaxMails                  \* of the mailbox

VARIABLES
  pc,
  value, limit, waiting, tokens, lost,
  set, eventWaiting, request,
  pool, inOff, outOff, entry, mailWaiting, mailSenders, mailMode, mails, swallowed,
  compThread, completed, owed

Sem == INSTANCE Semaphore
Ev  == INSTANCE Event WITH Modes <- EventModes
Mb  == INSTANCE Mailbox WITH Modes <- MailModes
Co  == INSTANCE Completion

semVars   == << value, limit, waiting, tokens, lost >>
eventVars == << set, eventWaiting, request >>
mailVars  == << pool, inOff, outOff, entry, mailWaiting, mailSenders, mailMode,
                mails, swallowed >>
compVars  == << compThread, completed, owed >>
vars == << waitVars, pc, semVars, eventVars, mailVars, compVars >>

ASSUME SemAssumption ==
  /\ MaxValue \in Nat /\ InitValue \in 0..MaxValue
  /\ ResetValues \subseteq 0..MaxValue /\ Limits \subseteq 1..MaxValue
  /\ MaxLost \in Nat
ASSUME EventAssumption ==
  Requests \subseteq Ev!Request /\ SentSets \subseteq (SUBSET Flags) \ {{}}
ASSUME MailAssumption == Size \in Nat \ {0} /\ MaxMails \in Nat
ASSUME ModesAssumption == EventModes \cup MailModes \subseteq {"no", "timed", "forever"}

Init == Sem!Init /\ Ev!Init /\ Mb!Init /\ Co!Init

SemStep  == Sem!SemCall /\ UNCHANGED << eventVars, mailVars, compVars >>
EvStep   == Ev!EventCall /\ UNCHANGED << semVars, mailVars, compVars >>
MailStep == Mb!MailCall /\ UNCHANGED << semVars, eventVars, compVars >>
CompStep == Co!CompCall /\ UNCHANGED << semVars, eventVars, mailVars >>

Expire(t) ==
  /\ TimerExpires(t)
  /\ UNCHANGED << pc, semVars, eventVars, mailVars, compVars >>

(* Faulty variant: the thread's node stays on the event's list.            *)
TimeoutStaysListed(t) ==
  /\ ThreadTimeout(t)
  /\ waiting' = Without(waiting, {t})
  /\ mailWaiting' = Without(mailWaiting, {t}) /\ mailSenders' = Without(mailSenders, {t})
  /\ UNCHANGED << pc, value, limit, tokens, lost,
                  set, eventWaiting, request,
                  pool, inOff, outOff, entry, mailMode, mails, swallowed, compVars >>

(* _thread_timeout takes the thread off the list it is on, whichever it is.*)
Timeout(t) ==
  /\ ThreadTimeout(t)
  /\ waiting' = Without(waiting, {t}) /\ eventWaiting' = Without(eventWaiting, {t})
  /\ mailWaiting' = Without(mailWaiting, {t}) /\ mailSenders' = Without(mailSenders, {t})
  /\ UNCHANGED << pc, value, limit, tokens, lost,
                  set, request,
                  pool, inOff, outOff, entry, mailMode, mails, swallowed, compVars >>

Next ==
  \/ SemStep \/ EvStep \/ MailStep \/ CompStep
  \/ \E t \in Threads : Expire(t) \/ Timeout(t)

Spec == Init /\ [][Next]_vars

-----------------------------------------------------------------------------
(* Properties.                                                             *)

(* Every variable stays within its type: the semaphore's value never       *)
(* exceeds its maximum, nor entry the size of the ring.                    *)
TypeOK ==
  /\ WaitTypeOK
  /\ pc \in [Threads -> {"run", "semAsleep", "eventAsleep", "sendAsleep",
                         "recvAsleep", "compAsleep"}]
  /\ value \in 0..MaxValue /\ limit \in Limits \cup {MaxValue}
  /\ tokens \in Nat /\ lost \in 0..MaxLost /\ owed \in Nat /\ mails \in 0..MaxMails
  /\ set \subseteq Flags
  /\ \A t \in Threads : request[t].want \subseteq Flags
  /\ inOff \in 0..Size - 1 /\ outOff \in 0..Size - 1 /\ entry \in 0..Size
  /\ pool \in [0..Size - 1 -> 0..MaxMails]
  /\ compThread \in Threads \cup {NoThread} /\ completed \in BOOLEAN
  /\ swallowed \in 0..entry

(* A thread is suspended exactly while the list of the object it called,   *)
(* and no other, holds it, once; and threads sleep on the semaphore only   *)
(* while its value is zero.                                                *)
Lists == [semAsleep |-> waiting, eventAsleep |-> eventWaiting,
          recvAsleep |-> mailWaiting, sendAsleep |-> mailSenders]
SleepersListed ==
  /\ \A l \in DOMAIN Lists :
       /\ IsInjective(Lists[l])
       /\ Range(Lists[l]) = {t \in Threads : pc[t] = l /\ suspended[t]}
  /\ \A t \in Threads :
       /\ suspended[t] => pc[t] # "run"
       /\ compThread = t => pc[t] = "compAsleep"
       /\ pc[t] = "compAsleep" /\ suspended[t] => compThread = t \/ expiring = t
  /\ waiting # << >> => value = 0

(* What each object promises holds for threads that use them all, one      *)
(* after the other: the semaphore's tokens are all accounted for;          *)
TokensAccounted == Sem!TokensAccounted
(* every event is heard by those it satisfies;                             *)
EventsHeard     == Ev!EventsHeard
(* the mailbox is a buffer;                                                *)
MailboxIsBuffer == Mb!MailboxIsBuffer
(* nobody sleeps beside a mail or a free word;                             *)
MailHeard       == Mb!MailHeard
(* and no completion is lost or used twice.                                *)
CompletionsKept == Co!CompletionsKept
=============================================================================
