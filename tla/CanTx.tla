-------------------------------- MODULE CanTx --------------------------------
(***************************************************************************)
(* The transmit path of the CAN device: rt_can_write -> _can_int_tx takes  *)
(* a send box, hands the message to the controller's mailbox of the same   *)
(* number and sleeps on the box's completion; the transmit interrupt       *)
(* (_can_tx_isr) or the error interrupt (_can_sce_isr) stores the result   *)
(* through rt_hw_can_isr and completes it.                                 *)
(*                                                                         *)
(* Every critical section of the code is a step; an interrupt handler is   *)
(* one step, for the processor is one and all CAN interrupts have the same *)
(* priority.  In the mailboxes, RQCP and TXOK are the bits of the TSR.     *)
(* AutoRetransmission is disabled: a mailbox is emptied by the first       *)
(* attempt, successful or not.                                             *)
(*                                                                         *)
(* bus and told are history variables: the messages transmitted and the    *)
(* result each write came back with.                                       *)
(***************************************************************************)
EXTENDS Naturals, Sequences, FiniteSets, Functions

CONSTANTS
  Writers,     \* threads that call rt_device_write on the CAN device
  NoWriter,
  NBoxes,      \* config.sndboxnumber
  HalMayFail,  \* whether the controller may be found not started
  MaxWrites    \* bound: writes of each thread

Boxes == 0..(NBoxes - 1)

ASSUME WritersAssumption == IsFiniteSet(Writers) /\ NoWriter \notin Writers
ASSUME BoxesAssumption == NBoxes \in 1..3
ASSUME BoundAssumption == MaxWrites \in Nat /\ HalMayFail \in BOOLEAN

VARIABLES
  pc, count, box,             \* of each writer: where it is, its writes, its box
  free, sem, semq,            \* tx_fifo: freelist, sem and the threads waiting for it
  result, completed, waiter,  \* of each box: result and completion
  mail, rqcp, txok,           \* of each mailbox: message, RQCP and TXOK
  lec, sce,                   \* last error code is ACK; error interrupt pending
  bus, told

thread  == << pc, count, box >>
fifo    == << free, sem, semq >>
boxes   == << result, completed, waiter >>
mailbox == << mail, rqcp, txok, lec, sce >>
vars == << thread, fifo, boxes, mailbox, bus, told >>

Message == [by : Writers, n : 1..MaxWrites]
NoMessage == [by |-> NoWriter, n |-> 0]
Mine(w) == [by |-> w, n |-> count[w]]

Init ==
  /\ pc = [w \in Writers |-> "idle"] /\ count = [w \in Writers |-> 0]
  /\ box = [w \in Writers |-> 0]
  /\ free = [i \in 1..NBoxes |-> i - 1] /\ sem = NBoxes /\ semq = << >>
  /\ result = [b \in Boxes |-> "ok"] /\ completed = [b \in Boxes |-> FALSE]
  /\ waiter = [b \in Boxes |-> NoWriter]
  /\ mail = [b \in Boxes |-> NoMessage]
  /\ rqcp = [b \in Boxes |-> FALSE] /\ txok = [b \in Boxes |-> FALSE]
  /\ lec = FALSE /\ sce = FALSE
  /\ bus = << >> /\ told = {}

-----------------------------------------------------------------------------
(* _can_int_tx.                                                            *)
Goto(w, l) == pc' = [pc EXCEPT ![w] = l]

(* Faulty variant: the semaphore is counted down without waiting.          *)
TakeSemUnchecked(w) ==
  /\ pc[w] = "idle" /\ count[w] < MaxWrites
  /\ count' = [count EXCEPT ![w] = @ + 1]
  /\ sem' = sem - 1 /\ Goto(w, "pop")
  /\ UNCHANGED << box, free, semq, boxes, mailbox, bus, told >>

TakeSem(w) ==
  /\ pc[w] = "idle" /\ count[w] < MaxWrites
  /\ count' = [count EXCEPT ![w] = @ + 1]
  /\ IF sem > 0 THEN sem' = sem - 1 /\ Goto(w, "pop") /\ UNCHANGED semq
                ELSE semq' = Append(semq, w) /\ Goto(w, "semwait") /\ UNCHANGED sem
  /\ UNCHANGED << box, free, boxes, mailbox, bus, told >>

(* Faulty variant: the box stays on freelist.                              *)
PopBoxShared(w) ==
  /\ pc[w] = "pop"
  /\ box' = [box EXCEPT ![w] = Head(free)]
  /\ Goto(w, "init")
  /\ UNCHANGED << count, free, sem, semq, boxes, mailbox, bus, told >>

PopBox(w) ==
  /\ pc[w] = "pop"
  /\ box' = [box EXCEPT ![w] = Head(free)]
  /\ free' = Tail(free)
  /\ Goto(w, "init")
  /\ UNCHANGED << count, sem, semq, boxes, mailbox, bus, told >>

InitBox(w) ==
  /\ pc[w] = "init"
  /\ result' = [result EXCEPT ![box[w]] = "wait"]
  /\ completed' = [completed EXCEPT ![box[w]] = FALSE]
  /\ waiter' = [waiter EXCEPT ![box[w]] = NoWriter]
  /\ Goto(w, "send")
  /\ UNCHANGED << count, box, fifo, mailbox, bus, told >>

(* _can_sendmsg refuses a mailbox that is not empty and a controller that  *)
(* is not started; requesting a transmission clears RQCP.                  *)
SendMsg(w, started) ==
  /\ pc[w] = "send"
  /\ started \/ HalMayFail
  /\ IF started /\ mail[box[w]] = NoMessage
       THEN /\ mail' = [mail EXCEPT ![box[w]] = Mine(w)]
            /\ rqcp' = [rqcp EXCEPT ![box[w]] = FALSE]
            /\ txok' = [txok EXCEPT ![box[w]] = FALSE]
            /\ Goto(w, "wait")
       ELSE Goto(w, "refused") /\ UNCHANGED << mail, rqcp, txok >>
  /\ UNCHANGED << count, box, fifo, boxes, lec, sce, bus, told >>

(* Faulty variant: sleep whether or not the completion has come.           *)
WaitRegardless(w) ==
  /\ pc[w] = "wait"
  /\ waiter' = [waiter EXCEPT ![box[w]] = w]
  /\ Goto(w, "asleep")
  /\ UNCHANGED << count, box, fifo, result, completed, mailbox, bus, told >>

(* rt_completion_wait: return at once when completed, else sleep.          *)
Wait(w) ==
  /\ pc[w] = "wait"
  /\ IF completed[box[w]]
       THEN /\ completed' = [completed EXCEPT ![box[w]] = FALSE]
            /\ Goto(w, "collect") /\ UNCHANGED waiter
       ELSE /\ waiter' = [waiter EXCEPT ![box[w]] = w]
            /\ Goto(w, "asleep") /\ UNCHANGED completed
  /\ UNCHANGED << count, box, fifo, result, mailbox, bus, told >>

(* The box goes back to freelist in one critical section, the semaphore is *)
(* released in the next.  A refused message counts as not sent.            *)
Collect(w) ==
  /\ pc[w] \in {"collect", "refused"}
  /\ free' = Append(free, box[w])
  /\ told' = told \cup {[m |-> Mine(w),
                         ok |-> pc[w] = "collect" /\ result[box[w]] = "ok"]}
  /\ Goto(w, "release")
  /\ UNCHANGED << count, box, sem, semq, boxes, mailbox, bus >>

ReleaseSem(w) ==
  /\ pc[w] = "release"
  /\ IF semq = << >>
       THEN /\ sem' = sem + 1 /\ Goto(w, "idle") /\ UNCHANGED semq
       ELSE /\ semq' = Tail(semq) /\ UNCHANGED sem
            /\ pc' = [pc EXCEPT ![w] = "idle", ![Head(semq)] = "pop"]
  /\ UNCHANGED << count, box, free, boxes, mailbox, bus, told >>

-----------------------------------------------------------------------------
(* The controller (external): it attempts a mailbox and empties it, and    *)
(* flags an error interrupt when the attempt, or a reception, fails.       *)
Transmit(b, outcome) ==
  /\ mail[b] # NoMessage
  /\ mail' = [mail EXCEPT ![b] = NoMessage]
  /\ rqcp' = [rqcp EXCEPT ![b] = TRUE]
  /\ txok' = [txok EXCEPT ![b] = (outcome = "ok")]
  /\ bus' = IF outcome = "ok" THEN Append(bus, mail[b]) ELSE bus
  /\ lec' = (outcome = "noack")
  /\ sce' = (sce \/ outcome # "ok")
  /\ UNCHANGED << thread, fifo, boxes, told >>

(* rt_hw_can_isr with TX_DONE or TX_FAIL: store the result and complete;   *)
(* completing twice changes nothing.                                       *)
Complete(b, r) ==
  /\ result' = [result EXCEPT ![b] = r]
  /\ completed' = [completed EXCEPT ![b] = TRUE]
  /\ IF ~completed[b] /\ waiter[b] # NoWriter
       THEN Goto(waiter[b], "wait") ELSE UNCHANGED pc
  /\ waiter' = [waiter EXCEPT ![b] = NoWriter]

First(b) == rqcp[b] /\ \A c \in Boxes : rqcp[c] => b <= c

(* SET_BIT(TSR, RQCPx) reads the register and writes it back: every RQCP   *)
(* bit that was set is written as one, and cleared, with its TXOK.         *)
ClearRqcp == /\ rqcp' = [b \in Boxes |-> FALSE]
             /\ txok' = [b \in Boxes |-> FALSE]

(* Faulty variant: TXOK is read after the flags are cleared.               *)
TxIsrLate(b) ==
  /\ First(b)
  /\ ClearRqcp
  /\ Complete(b, IF txok'[b] THEN "ok" ELSE "err")
  /\ UNCHANGED << count, box, fifo, mail, lec, sce, bus, told >>

TxIsr(b) ==
  /\ First(b)
  /\ Complete(b, IF txok[b] THEN "ok" ELSE "err")
  /\ ClearRqcp
  /\ UNCHANGED << count, box, fifo, mail, lec, sce, bus, told >>

(* Only an ACK error concerns the mailboxes: a finished, failed one is     *)
(* completed here as well.                                                 *)
SceIsr ==
  /\ sce
  /\ sce' = FALSE
  /\ IF lec /\ \E b \in Boxes : rqcp[b]
       THEN /\ ClearRqcp
            /\ \E b \in Boxes :
                 /\ First(b)
                 /\ IF txok[b] THEN UNCHANGED << boxes, pc >> ELSE Complete(b, "err")
       ELSE UNCHANGED << boxes, pc, rqcp, txok >>
  /\ UNCHANGED << count, box, fifo, mail, lec, bus, told >>

-----------------------------------------------------------------------------
Writer(w) == \/ TakeSem(w) \/ PopBox(w) \/ InitBox(w) \/ Wait(w)
             \/ Collect(w) \/ ReleaseSem(w)
             \/ \E started \in BOOLEAN : SendMsg(w, started)
Controller(b) == \E outcome \in {"ok", "noack", "other"} : Transmit(b, outcome)

Next == \/ \E w \in Writers : Writer(w)
        \/ \E b \in Boxes : Controller(b) \/ TxIsr(b)
        \/ SceIsr

(* Ready threads run, pending interrupts are served, and the controller    *)
(* attempts every mailbox (the bus is not dead for ever).                  *)
Fairness == /\ \A w \in Writers : WF_vars(Writer(w))
            /\ \A b \in Boxes : WF_vars(Controller(b)) /\ WF_vars(TxIsr(b))
            /\ WF_vars(SceIsr)

Spec == Init /\ [][Next]_vars
LiveSpec == Spec /\ Fairness

-----------------------------------------------------------------------------
(* Properties.                                                             *)

(* Every variable stays within its type.                                   *)
TypeOK ==
  /\ pc \in [Writers -> {"idle", "semwait", "pop", "init", "send", "wait",
                         "asleep", "collect", "refused", "release"}]
  /\ count \in [Writers -> 0..MaxWrites] /\ box \in [Writers -> Boxes]
  /\ free \in Seq(Boxes) /\ sem \in 0..NBoxes /\ semq \in Seq(Writers)
  /\ result \in [Boxes -> {"ok", "err", "wait"}]
  /\ completed \in [Boxes -> BOOLEAN] /\ waiter \in [Boxes -> Writers \cup {NoWriter}]
  /\ mail \in [Boxes -> Message \cup {NoMessage}]
  /\ rqcp \in [Boxes -> BOOLEAN] /\ txok \in [Boxes -> BOOLEAN]
  /\ lec \in BOOLEAN /\ sce \in BOOLEAN
  /\ bus \in Seq(Message) /\ told \subseteq [m : Message, ok : BOOLEAN]

Holding(w) == pc[w] \in {"init", "send", "wait", "asleep", "collect", "refused"}

(* A send box is on freelist once or held by one writer, never both; a     *)
(* writer that has the semaphore finds a box (the code takes the head of   *)
(* freelist unchecked, can.c:150).                                         *)
BoxesConserved ==
  /\ IsInjective(free)
  /\ \A w \in Writers : Holding(w) => box[w] \notin Range(free)
  /\ \A v, w \in Writers : Holding(v) /\ Holding(w) /\ box[v] = box[w] => v = w
  /\ \A w \in Writers : pc[w] = "pop" => free # << >>

(* A write reports success exactly when its own message went out on the    *)
(* bus: no completion of an earlier message or of the other interrupt      *)
(* handler is taken for it.                                                *)
ResultTruthful == \A t \in told : t.ok <=> t.m \in Range(bus)

(* Every write returns: no completion and no wake-up is lost.  With one    *)
(* send box this holds; with more, one interrupt clears the flags of all   *)
(* the mailboxes that have finished.                                       *)
EveryWriteReturns == \A w \in Writers : pc[w] # "idle" ~> pc[w] = "idle"
=============================================================================
