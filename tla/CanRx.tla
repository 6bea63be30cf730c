-------------------------------- MODULE CanRx --------------------------------
(***************************************************************************)
(* The receive path of the CAN device, from the controller's three-deep    *)
(* FIFO to can_rx_queue:                                                   *)
(*                                                                         *)
(*   controller --_can_rx_isr, rt_hw_can_isr--> uselist --_can_int_rx-->   *)
(*   can_rx_thread --rt_mq_send--> can_rx_queue                            *)
(*                                                                         *)
(* The interrupt takes a message node from freelist, or the oldest node of *)
(* uselist when none is free, fills it, appends it to uselist and calls    *)
(* rx_indicate, which releases rx_sem.  can_rx_thread takes rx_sem, pops a *)
(* node with interrupts disabled, copies it with interrupts enabled and    *)
(* returns it to freelist with interrupts disabled, so that the interrupt  *)
(* comes in between.  The processor is one: while the interrupt runs the   *)
(* thread does not.                                                        *)
(*                                                                         *)
(* A frame is its position in the order of arrival; 0 is the zeroed rxmsg  *)
(* the thread starts with.  out is a history variable, what was passed to  *)
(* rt_mq_send; unannounced counts the frames stored before userCANInit-    *)
(* ialize had set the callback.                                            *)
(***************************************************************************)
EXTENDS Integers, Sequences, FiniteSets, Functions

CONSTANTS
  Buffers,    \* what rx_fifo->buffer may be: sets of config.msgboxsz nodes
  NoNode,     \* no node
  Unwanted,   \* the frames whose type the filter of can_rx_thread drops
  HwDepth,    \* frames the controller's receive FIFO holds
  SemMax,     \* RT_SEM_VALUE_MAX
  MaxFrames   \* bound: frames on the bus in a behaviour

ASSUME BuffersAssumption ==
  \A B \in Buffers : /\ IsFiniteSet(B) /\ B # {} /\ NoNode \notin B
                     /\ Cardinality(B) <= SemMax
ASSUME SemAssumption == SemMax \in Nat
ASSUME HwAssumption == HwDepth \in Nat \ {0} /\ MaxFrames \in Nat
ASSUME FrameAssumption == 0 \in Unwanted

VARIABLES
  nodes,        \* the nodes of rx_fifo->buffer
  boot,         \* progress of userCANInitialize: "opened", "indicate", "run"
  heard, hw, overrun,   \* frames arrived, receive FIFO, overrun flag
  isr,          \* "idle" or "overrun": inside _can_rx_isr, overrun still to serve
  freelist, uselist, freenumbers, data, held,
  dropedrcvpkg, unannounced,
  sem, pc, rxmsg, out

hwVars   == << heard, hw, overrun >>
fifoVars == << freelist, uselist, freenumbers, data, held >>
vars == << nodes, boot, hwVars, isr, fifoVars, dropedrcvpkg, unannounced, sem, pc, rxmsg, out >>

Box == Cardinality(nodes)
Frame == 0..MaxFrames

(* rt_can_open has linked every node into freelist and enabled the         *)
(* interrupt; the callback and the threads come after.                     *)
Init ==
  /\ nodes \in Buffers
  /\ boot = "opened"
  /\ heard = 0 /\ hw = << >> /\ overrun = FALSE
  /\ isr = "idle"
  /\ freelist \in Bijection(1..Box, nodes)
  /\ uselist = << >> /\ freenumbers = Box /\ data = [n \in nodes |-> 0] /\ held = NoNode
  /\ dropedrcvpkg = 0 /\ unannounced = 0
  /\ sem = 0 /\ pc = "take" /\ rxmsg = 0 /\ out = << >>

-----------------------------------------------------------------------------
(* A frame arrives.  ReceiveFifoLocked is disabled: when the FIFO is full  *)
(* the newest frame in it is overwritten and the overrun flag set.         *)
Arrive ==
  /\ heard < MaxFrames
  /\ heard' = heard + 1
  /\ IF Len(hw) < HwDepth
       THEN hw' = Append(hw, heard') /\ UNCHANGED overrun
       ELSE hw' = [hw EXCEPT ![HwDepth] = heard'] /\ overrun' = TRUE
  /\ UNCHANGED << nodes, boot, isr, fifoVars, dropedrcvpkg, unannounced, sem, pc, rxmsg, out >>

(* Faulty variants: the value is not limited; the waiting thread is not    *)
(* resumed.                                                                *)
ReleaseUnlimited ==
  IF pc = "blocked" THEN pc' = "read" /\ UNCHANGED sem ELSE sem' = sem + 1 /\ UNCHANGED pc
ReleaseResumesNone == sem' = (IF sem < SemMax THEN sem + 1 ELSE sem) /\ UNCHANGED pc

(* rt_sem_release(&rx_sem): hand the token to the waiting thread, or count *)
(* it up to RT_SEM_VALUE_MAX.                                              *)
Release ==
  IF pc = "blocked" THEN pc' = "read" /\ UNCHANGED sem
  ELSE sem' = (IF sem < SemMax THEN sem + 1 ELSE sem) /\ UNCHANGED pc

(* Faulty variant: the callback is invoked when the first frame comes.     *)
IndicateFirst ==
  IF boot # "opened" /\ uselist = << >> /\ uselist' # << >>
    THEN Release /\ UNCHANGED unannounced
    ELSE /\ UNCHANGED << sem, pc >>
         /\ unannounced' = IF boot = "opened" /\ uselist' # << >> THEN unannounced + 1
                                                                 ELSE unannounced

(* The callback is invoked whenever uselist is not empty afterwards.       *)
Indicate ==
  IF boot # "opened" /\ uselist' # << >>
    THEN Release /\ UNCHANGED unannounced
    ELSE /\ UNCHANGED << sem, pc >>
         /\ unannounced' = IF uselist' # << >> THEN unannounced + 1 ELSE unannounced

(* The node a frame is stored in: a free one, or the one that holds the    *)
(* oldest unread frame, which is lost; with neither the new one is.        *)
StoreFree(f, lost) ==
  /\ freelist # << >>
  /\ freelist' = Tail(freelist) /\ freenumbers' = freenumbers - 1
  /\ data' = [data EXCEPT ![Head(freelist)] = f]
  /\ uselist' = Append(uselist, Head(freelist))
  /\ dropedrcvpkg' = dropedrcvpkg + lost

(* Faulty variants: the node stays at the head as well, stays at the head, *)
(* or the lost frame is not counted.                                       *)
StoreOldestLinkedTwice(f, lost) ==
  /\ freelist = << >> /\ uselist # << >>
  /\ data' = [data EXCEPT ![Head(uselist)] = f]
  /\ uselist' = Append(uselist, Head(uselist))
  /\ dropedrcvpkg' = dropedrcvpkg + lost + 1
  /\ UNCHANGED << freelist, freenumbers >>
StoreOldestInPlace(f, lost) ==
  /\ freelist = << >> /\ uselist # << >>
  /\ data' = [data EXCEPT ![Head(uselist)] = f]
  /\ dropedrcvpkg' = dropedrcvpkg + lost + 1
  /\ UNCHANGED << freelist, freenumbers, uselist >>
StoreOldestSilently(f, lost) ==
  /\ freelist = << >> /\ uselist # << >>
  /\ data' = [data EXCEPT ![Head(uselist)] = f]
  /\ uselist' = Append(Tail(uselist), Head(uselist))
  /\ dropedrcvpkg' = dropedrcvpkg + lost
  /\ UNCHANGED << freelist, freenumbers >>

StoreOldest(f, lost) ==
  /\ freelist = << >> /\ uselist # << >>
  /\ data' = [data EXCEPT ![Head(uselist)] = f]
  /\ uselist' = Append(Tail(uselist), Head(uselist))
  /\ dropedrcvpkg' = dropedrcvpkg + lost + 1
  /\ UNCHANGED << freelist, freenumbers >>

StoreNowhere(lost) ==
  /\ freelist = << >> /\ uselist = << >>
  /\ dropedrcvpkg' = dropedrcvpkg + lost
  /\ UNCHANGED << freelist, freenumbers, data, uselist >>

(* rt_hw_can_isr with RX_IND, or with RXOF_IND, which counts a lost frame  *)
(* and falls through.  recvmsg fails on an empty FIFO.                     *)
NothingReceived(lost) ==
  /\ hw = << >>
  /\ dropedrcvpkg' = dropedrcvpkg + lost
  /\ UNCHANGED << hw, fifoVars, unannounced, sem, pc >>

Received(lost) ==
  /\ hw # << >> /\ hw' = Tail(hw)
  /\ \/ StoreFree(Head(hw), lost)
     \/ StoreOldest(Head(hw), lost)
     \/ StoreNowhere(lost)
  /\ UNCHANGED held
  /\ Indicate

HwCanIsr(lost) == NothingReceived(lost) \/ Received(lost)

(* _can_rx_isr: store one frame, then serve the overrun flag.              *)
RxIsr ==
  /\ isr = "idle" /\ hw # << >>
  /\ HwCanIsr(0)
  /\ isr' = IF overrun THEN "overrun" ELSE "idle"
  /\ UNCHANGED << nodes, boot, heard, overrun, rxmsg, out >>

RxIsrOverrun ==
  /\ isr = "overrun"
  /\ overrun' = FALSE
  /\ HwCanIsr(1)
  /\ isr' = "idle"
  /\ UNCHANGED << nodes, boot, heard, rxmsg, out >>

-----------------------------------------------------------------------------
(* userCANInitialize, after the device is open.                            *)
SetIndicate ==
  /\ isr = "idle" /\ boot = "opened"
  /\ boot' = "indicate"
  /\ UNCHANGED << nodes, hwVars, isr, fifoVars, dropedrcvpkg, unannounced, sem, pc, rxmsg, out >>

StartThread ==
  /\ isr = "idle" /\ boot = "indicate"
  /\ boot' = "run"
  /\ UNCHANGED << nodes, hwVars, isr, fifoVars, dropedrcvpkg, unannounced, sem, pc, rxmsg, out >>

(* can_rx_thread.  rt_sem_take waits for ever.                             *)
Running == isr = "idle" /\ boot = "run"

SemTake ==
  /\ Running /\ pc = "take"
  /\ IF sem > 0 THEN sem' = sem - 1 /\ pc' = "read"
                ELSE pc' = "blocked" /\ UNCHANGED sem
  /\ UNCHANGED << nodes, boot, hwVars, isr, fifoVars, dropedrcvpkg, unannounced, rxmsg, out >>

(* _can_int_rx: nothing to read leaves rxmsg as it was, and the thread     *)
(* does not look at the length returned.                                   *)
ReadPop ==
  /\ Running /\ pc = "read"
  /\ IF uselist = << >>
       THEN pc' = "queue" /\ UNCHANGED << uselist, held >>
       ELSE pc' = "copy" /\ held' = Head(uselist) /\ uselist' = Tail(uselist)
  /\ UNCHANGED << nodes, boot, hwVars, isr, freelist, freenumbers, data, dropedrcvpkg,
                  unannounced, sem, rxmsg, out >>

ReadCopy ==
  /\ Running /\ pc = "copy"
  /\ rxmsg' = data[held]
  /\ pc' = "giveback"
  /\ UNCHANGED << nodes, boot, hwVars, isr, fifoVars, dropedrcvpkg, unannounced, sem, out >>

(* Faulty variant: freenumbers is forgotten.                               *)
ReadGiveBackUncounted ==
  /\ Running /\ pc = "giveback"
  /\ freelist' = Append(freelist, held)
  /\ held' = NoNode
  /\ pc' = "queue"
  /\ UNCHANGED << nodes, boot, hwVars, isr, uselist, freenumbers, data, dropedrcvpkg,
                  unannounced, sem, rxmsg, out >>

ReadGiveBack ==
  /\ Running /\ pc = "giveback"
  /\ freelist' = Append(freelist, held)
  /\ freenumbers' = freenumbers + 1
  /\ held' = NoNode
  /\ pc' = "queue"
  /\ UNCHANGED << nodes, boot, hwVars, isr, uselist, data, dropedrcvpkg, unannounced,
                  sem, rxmsg, out >>

Filter ==
  /\ Running /\ pc = "queue"
  /\ out' = IF rxmsg \in Unwanted THEN out ELSE Append(out, rxmsg)
  /\ pc' = "take"
  /\ UNCHANGED << nodes, boot, hwVars, isr, fifoVars, dropedrcvpkg, unannounced, sem, rxmsg >>

-----------------------------------------------------------------------------
Isr    == RxIsr \/ RxIsrOverrun
Thread == SemTake \/ ReadPop \/ ReadCopy \/ ReadGiveBack \/ Filter
Start  == SetIndicate \/ StartThread

Next == Arrive \/ Isr \/ Start \/ Thread

(* A pending interrupt is served and, with no interrupt pending, threads   *)
(* that are ready get to run.                                              *)
Fairness == WF_vars(Isr) /\ WF_vars(Start) /\ WF_vars(Thread)

Spec == Init /\ [][Next]_vars
LiveSpec == Spec /\ Fairness

-----------------------------------------------------------------------------
(* Properties.                                                             *)

(* Every variable stays within its type.                                   *)
TypeOK ==
  /\ nodes \in Buffers
  /\ boot \in {"opened", "indicate", "run"}
  /\ heard \in Nat /\ hw \in Seq(Frame) /\ Len(hw) <= HwDepth /\ overrun \in BOOLEAN
  /\ isr \in {"idle", "overrun"}
  /\ freelist \in Seq(nodes) /\ uselist \in Seq(nodes)
  /\ freenumbers \in Int /\ data \in [nodes -> Frame] /\ held \in nodes \cup {NoNode}
  /\ dropedrcvpkg \in Nat /\ unannounced \in Nat
  /\ sem \in 0..SemMax
  /\ pc \in {"take", "blocked", "read", "copy", "giveback", "queue"}
  /\ rxmsg \in Frame /\ out \in Seq(Frame)

(* The reader has a node in its hands exactly while it copies.             *)
ReaderHolds == held = NoNode <=> pc \notin {"copy", "giveback"}

(* Every message node is in exactly one place - freelist, uselist, or in   *)
(* the hands of the reader while it copies - and freenumbers counts the    *)
(* free ones, so that the assertions at can.c:114 and can.c:809 hold,      *)
(* whatever the interrupt does between the reader's critical sections.     *)
NodesConserved ==
  /\ IsInjective(freelist) /\ IsInjective(uselist)
  /\ Range(freelist) \cap Range(uselist) = {}
  /\ held \notin Range(freelist) /\ held \notin Range(uselist)
  /\ Range(freelist) \cup Range(uselist) \cup {held} = nodes \cup {held}
  /\ ReaderHolds
  /\ freenumbers = Len(freelist) /\ freenumbers <= Box

(* No lost wake-up: can_rx_thread is never asleep on rx_sem while uselist  *)
(* holds frames, except for as many as had arrived before the callback was *)
(* set.                                                                    *)
NoStranded == pc = "blocked" => Len(uselist) <= unannounced

(* Frames are queued in the order they arrived, and a frame is queued      *)
(* twice only after the interrupt has overwritten one.                     *)
QueuedInOrder ==
  \A i, j \in 1..Len(out) : i < j =>
     out[i] < out[j] \/ (out[i] = out[j] /\ dropedrcvpkg > 0)

(* The frames between the bus and can_rx_queue, and those already there.   *)
InTransit == Range(hw) \cup {data[n] : n \in Range(uselist)} \cup Range(out)
             \cup (IF held # NoNode THEN {data[held]} ELSE {})
             \cup (IF pc = "queue" THEN {rxmsg} ELSE {})

(* A frame that other nodes sent and the filter wants is on its way, or    *)
(* its loss shows in dropedrcvpkg (or will, once the overrun is served).   *)
(* With two nodes or more, that is: a single one in the reader's hands     *)
(* leaves the interrupt none to store a frame in (can.c:794-812).          *)
LossReported ==
  Box > 1 =>
  \A f \in (1..heard) \ Unwanted :
     f \in InTransit \/ dropedrcvpkg > 0 \/ overrun

(* "Read one frame from CAN" (user_can.c:52): each token of rx_sem stands  *)
(* for a frame, and no frame is queued twice.                              *)
NoFrameTwice == \A i, j \in 1..Len(out) : i # j => out[i] # out[j]

(* The thread catches up: frames in uselist do not stay there, except for  *)
(* as many as had arrived before the callback was set.                     *)
CatchesUp == Len(uselist) > unannounced ~> Len(uselist) <= unannounced
=============================================================================
