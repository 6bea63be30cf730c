------------------------------- MODULE Gateway -------------------------------
(***************************************************************************)
(* The application: the threads main, can_rx_thread, can_tx_thread and     *)
(* md_m_send of applications/*.c, the two message queues between them, and *)
(* the Modbus slaves on the RS485 line.                                    *)
(*                                                                         *)
(*   CAN -> can_rx_thread -> can_rx_queue -> md_m_send -> RS485 slaves     *)
(*   CAN <- can_tx_thread <- can_tx_queue <- md_m_send, main (heartbeat)   *)
(*                                                                         *)
(* The queues are bounded sequences here; MsgQueue models how the kernel   *)
(* implements them, CanRx and CanTx what lies between the threads and the  *)
(* controller.  Delays are not modelled as time: every transaction, reply  *)
(* and wait is a step of its own and other threads run in between.         *)
(*                                                                         *)
(* got, issued, applied, heeded, misled and bus are history variables: the *)
(* frames received so far, how many transactions each has sent, the writes *)
(* a slave has executed, the reads that took an answer, the transactions   *)
(* for whose answer the code took bytes that held a refusal, another       *)
(* transaction's answer or noise, the frames put on the CAN bus.  A        *)
(* request is named by its position in got.                                *)
(***************************************************************************)
EXTENDS Protocol, FiniteSets

CONSTANTS
  Frames,         \* the CAN frames that other nodes send
  RxCap, TxCap,   \* capacities of can_rx_queue and can_tx_queue
  MaxFrames,      \* bound: frames received in a behaviour
  MaxBeats,       \* bound: heartbeats main sends in a behaviour
  MaxMoves,       \* bound: position changes of the motor
  MaxFaults,      \* bound: faults of the line in a behaviour
  Pos0,           \* the position of the motor at power on
  Status,         \* the word every other register of a slave holds
  Garbage,        \* what an uninitialised local may hold
  BoardAddr,      \* the address set on the board's switches
  Faults,         \* what can go wrong on the RS485 line
  ConnectMayFail  \* whether rs485_connect may fail

FaultKinds == {"lost",       \* a request or its answer does not arrive
               "exception",  \* the slave refuses with an exception answer
               "garbled",    \* the answer arrives damaged
               "garbledRefusal",  \* an exception answer arrives damaged
               "noise",      \* bytes arrive that no slave has sent
               "late",       \* the answer arrives after the receive time-out
               "ioerror"}    \* the RS485 driver returns a negative length

ASSUME FramesAssumption == Frames \subseteq CanData
ASSUME CapAssumption == RxCap \in Nat /\ TxCap \in Nat
ASSUME BoundAssumption == MaxFrames \in Nat /\ MaxBeats \in Nat /\ MaxMoves \in Nat
                          /\ MaxFaults \in Nat
ASSUME SlaveAssumption == Pos0 \in Nat /\ Status \in Word /\ Garbage \subseteq Word
ASSUME BoardAssumption == BoardAddr \in Byte /\ Garbage # {}
ASSUME FaultAssumption == Faults \subseteq FaultKinds /\ ConnectMayFail \in BOOLEAN

VARIABLES
  boot,     \* "modbus": main has yet to run userModbusInitialize; "run"; "nomodbus"
  beat,     \* heartTime
  rxq, txq, \* can_rx_queue, can_tx_queue
  sending,  \* the message can_tx_thread has received and not yet written
  pc, cur, k, vals,  \* md_m_send: where it is, its request, transaction, words read
  wire,     \* requests the slaves have not served yet
  fifo,     \* the answers in the receive FIFO of the UART
  pos,      \* the position of the motor
  faults,   \* faults of the line so far
  got, issued, applied, heeded, misled, bus

mdVars == << pc, cur, k, vals >>
history == << got, issued, applied, heeded, misled, bus >>
vars == << boot, beat, rxq, txq, sending, mdVars, wire, fifo, pos, faults, history >>

-----------------------------------------------------------------------------
(* What travels through the queues: a request with its identity, and a     *)
(* message to the bus with the producer and the producer's own numbering.  *)

Request == [id : Nat \ {0}, frame : CanData]
NoRequest == [id |-> 0, frame |-> [type |-> 0, addr |-> 0, flag |-> 0,
                                   index |-> 0, data |-> << 0, 0 >>]]
Message == [src : {"main", "modbus"}, seq : Nat, frame : CanData]

(* The index byte of a heartbeat is never set.                             *)
Heartbeat(n, junk) ==
  [src |-> "main", seq |-> n,
   frame |-> [type |-> MSG_HEARTBEAT, addr |-> BoardAddr, flag |-> 0,
              index |-> junk % 256,
              data |-> << n % 65536, (n \div 65536) % 65536 >>]]

Answer == [m : [id : Nat, k : Nat], fn : 0..127, slave : Byte,
           kind : {"ok", "exception", "garbled", "garbledRefusal", "noise"}, val : Word]
Refusals == {"exception", "garbledRefusal"}
NoiseBytes == [m |-> [id |-> 0, k |-> 0], fn |-> 0, slave |-> 0, kind |-> "noise", val |-> 0]

(* Faulty variant: rt_mq_urgent.                                           *)
MqSendUrgent(q, cap, m) == IF Len(q) < cap THEN << m >> \o q ELSE q

(* rt_mq_send never waits: a full queue drops the message (-RT_EFULL),     *)
(* and no caller looks at the result.                                      *)
MqSend(q, cap, m) == IF Len(q) < cap THEN Append(q, m) ELSE q

Init ==
  /\ boot = "modbus"
  /\ beat = 0
  /\ rxq = << >> /\ txq = << >> /\ sending = << >>
  /\ pc = "off" /\ cur = NoRequest /\ k = 0 /\ vals = << >>
  /\ wire = << >> /\ fifo = << >>
  /\ pos = Pos0 /\ faults = 0
  /\ got = << >> /\ issued = << >> /\ applied = {} /\ heeded = {} /\ misled = {}
  /\ bus = << >>

-----------------------------------------------------------------------------
(* main: after the CAN threads are started, userModbusInitialize connects  *)
(* the RS485 port and starts md_m_send; it returns without the thread when *)
(* that fails, and main goes on to its heartbeat loop either way.          *)
MainModbusInit(connected) ==
  /\ boot = "modbus"
  /\ connected \/ ConnectMayFail
  /\ boot' = IF connected THEN "run" ELSE "nomodbus"
  /\ pc' = IF connected THEN "poll" ELSE "off"
  /\ UNCHANGED << beat, rxq, txq, sending, cur, k, vals, wire, fifo, pos, faults, history >>

MainBeat ==
  /\ boot # "modbus"
  /\ beat < MaxBeats
  /\ beat' = beat + 1
  /\ \E junk \in Garbage : txq' = MqSend(txq, TxCap, Heartbeat(beat', junk))
  /\ UNCHANGED << boot, rxq, sending, mdVars, wire, fifo, pos, faults, history >>

(* can_rx_thread reads a frame, filters it and queues its data.            *)
CanRxFrame(f) ==
  /\ Len(got) < MaxFrames
  /\ got' = Append(got, f)
  /\ issued' = Append(issued, 0)
  /\ rxq' = IF Accepted(f)
              THEN MqSend(rxq, RxCap, [id |-> Len(got'), frame |-> f])
              ELSE rxq
  /\ UNCHANGED << boot, beat, txq, sending, mdVars, wire, fifo, pos, faults, applied, heeded,
                  misled, bus >>

(* Faulty variant: the last message is left for the next one to push out.  *)
TxTakeKeepsLast ==
  /\ sending = << >> /\ Len(txq) > 1
  /\ sending' = << Head(txq) >>
  /\ txq' = Tail(txq)
  /\ UNCHANGED << boot, beat, rxq, mdVars, wire, fifo, pos, faults, history >>

(* can_tx_thread takes a message and writes it to the controller; a frame  *)
(* the controller could not send is gone.                                  *)
TxTake ==
  /\ sending = << >> /\ txq # << >>
  /\ sending' = << Head(txq) >>
  /\ txq' = Tail(txq)
  /\ UNCHANGED << boot, beat, rxq, mdVars, wire, fifo, pos, faults, history >>

TxWrite(sent) ==
  /\ sending # << >>
  /\ bus' = IF sent THEN bus \o sending ELSE bus
  /\ sending' = << >>
  /\ UNCHANGED << boot, beat, rxq, txq, mdVars, wire, fifo, pos, faults,
                  got, issued, applied, heeded, misled >>

-----------------------------------------------------------------------------
(* md_m_send.  It polls can_rx_queue.entry, takes a request and runs the   *)
(* transactions of its plan; a request with an empty plan is dropped.      *)
CurPlan == Plan(cur.frame)

MdTake ==
  /\ pc = "poll" /\ rxq # << >>
  /\ rxq' = Tail(rxq)
  /\ IF Plan(Head(rxq).frame) = << >>
       THEN UNCHANGED mdVars
       ELSE /\ cur' = Head(rxq)
            /\ k' = 1 /\ vals' = << >> /\ pc' = "send"
  /\ UNCHANGED << boot, beat, txq, sending, wire, fifo, pos, faults, history >>

(* agile_modbus serializes the request, rs485_send_then_recv writes it.    *)
MdSend ==
  /\ pc = "send"
  /\ pc' = "await"
  /\ wire' = Append(wire, [m |-> [id |-> cur.id, k |-> k], t |-> CurPlan[k]])
  /\ issued' = [issued EXCEPT ![cur.id] = k]
  /\ UNCHANGED << boot, beat, rxq, txq, sending, cur, k, vals, fifo, pos, faults,
                  got, applied, heeded, misled, bus >>

(* The end of transaction k: on to the next one, to the reply, or back to  *)
(* polling when a write has failed.                                        *)
Idle == pc' = "poll" /\ cur' = NoRequest /\ k' = 0 /\ vals' = << >>
Advance ==
  /\ IF k < Len(CurPlan) THEN pc' = "send" /\ k' = k + 1
                         ELSE pc' = "reply" /\ k' = k
  /\ UNCHANGED cur

(* Faulty variants: the first success answers the command; a time-out is   *)
(* taken for a success.                                                    *)
WriteDoneReplies(recLen) ==
  IF recLen > 0 THEN pc' = "reply" /\ UNCHANGED << cur, k, vals >> ELSE Idle
WriteDoneAnyLength(recLen) ==
  IF recLen >= 0 THEN Advance /\ UNCHANGED vals ELSE Idle

WriteDone(recLen) ==
  IF recLen > 0 THEN Advance /\ UNCHANGED vals ELSE Idle

ReadDone(results) == \E v \in results : vals' = Append(vals, v) /\ Advance

(* agile_modbus_deserialize_read_registers accepts exactly one undamaged   *)
(* answer of the slave and function asked; it cannot see which register    *)
(* the answer is about.                                                    *)
Accepts(rs) ==
  /\ CurPlan[k].fn # WRITE_REGISTER
  /\ Len(rs) = 1 /\ rs[1].kind = "ok"
  /\ rs[1].fn = CurPlan[k].fn /\ rs[1].slave = CurPlan[k].slave

(* Faulty variant: a failed read hands on the error code, not a word.      *)
ReadResultsRaw(rs) == IF Accepts(rs) THEN {rs[1].val} ELSE {-1}

(* When it accepts none the caller's buffer keeps what it held: an         *)
(* uninitialised local, or the 0 of handle_power_read.                     *)
ReadResults(rs) ==
  IF Accepts(rs) THEN {rs[1].val}
  ELSE IF CurPlan[k].fn = READ_REGISTERS THEN Garbage ELSE {0}

(* The code takes rs for the answer of this transaction, as a write does   *)
(* with anything, though some answer in it refuses, damaged or not, or is  *)
(* not an answer to this transaction at all.                               *)
Deceptive(rs) ==
  /\ CurPlan[k].fn = WRITE_REGISTER \/ Accepts(rs)
  /\ \E i \in 1..Len(rs) : rs[i].kind \in Refusals \/ rs[i].m # [id |-> cur.id, k |-> k]

(* Something goes wrong on the line.                                       *)
Fault(kind) == kind \in Faults /\ faults < MaxFaults /\ faults' = faults + 1

(* The receive call returns everything the FIFO holds once the line is     *)
(* quiet, 0 on a time-out, or a negative error.                            *)
MdReceive ==
  /\ pc = "await" /\ fifo # << >>
  /\ fifo' = << >>
  /\ IF CurPlan[k].fn = WRITE_REGISTER THEN WriteDone(1) ELSE ReadDone(ReadResults(fifo))
  /\ heeded' = IF Accepts(fifo) THEN heeded \cup {[id |-> cur.id, k |-> k]} ELSE heeded
  /\ misled' = IF Deceptive(fifo) THEN misled \cup {[id |-> cur.id, k |-> k]} ELSE misled
  /\ UNCHANGED << boot, beat, rxq, txq, sending, wire, pos, faults, got, issued, applied, bus >>

(* Faulty variants: a read without answer is given up without a reply; a   *)
(* write waits for its answer for ever.                                    *)
MdTimeoutGivesUp ==
  /\ pc = "await" /\ fifo = << >>
  /\ IF wire = << >> THEN UNCHANGED faults ELSE Fault("late")
  /\ Idle
  /\ UNCHANGED << boot, beat, rxq, txq, sending, wire, fifo, pos, history >>
MdTimeoutReadsOnly ==
  /\ pc = "await" /\ fifo = << >> /\ CurPlan[k].fn # WRITE_REGISTER
  /\ IF wire = << >> THEN UNCHANGED faults ELSE Fault("late")
  /\ ReadDone(ReadResults(<< >>))
  /\ UNCHANGED << boot, beat, rxq, txq, sending, wire, fifo, pos, history >>

MdTimeout ==
  /\ pc = "await" /\ fifo = << >>
  /\ IF wire = << >> THEN UNCHANGED faults ELSE Fault("late")
  /\ IF CurPlan[k].fn = WRITE_REGISTER THEN WriteDone(0) ELSE ReadDone(ReadResults(<< >>))
  /\ UNCHANGED << boot, beat, rxq, txq, sending, wire, fifo, pos, history >>

MdError ==
  /\ pc = "await" /\ Fault("ioerror")
  /\ CASE CurPlan[k].fn = WRITE_REGISTER -> WriteDone(-1)
       [] CurPlan[k].fn = READ_REGISTERS -> ReadDone({1})
       [] OTHER                          -> ReadDone({0})
  /\ UNCHANGED << boot, beat, rxq, txq, sending, wire, fifo, pos, history >>

(* The reply goes to can_tx_queue, whose result is ignored; motor 6000     *)
(* writes have none.                                                       *)
MdReply ==
  /\ pc = "reply"
  /\ txq' = IF IsReg6000(cur.frame) THEN txq
            ELSE MqSend(txq, TxCap, [src |-> "modbus", seq |-> cur.id,
                                     frame |-> ReplyFrame(cur.frame, vals)])
  /\ Idle
  /\ UNCHANGED << boot, beat, rxq, sending, wire, fifo, pos, faults, history >>

-----------------------------------------------------------------------------
(* The RS485 slaves and the line (external).                               *)
RegVal(r) == CASE r = PositionLo -> pos % 65536
               [] r = PositionHi -> (pos \div 65536) % 65536
               [] OTHER          -> Status

Executed(q) == IF q.t.fn = WRITE_REGISTER THEN applied \cup {q.m} ELSE applied

Serve(kind) ==
  /\ wire # << >>
  /\ IF kind = "ok" THEN UNCHANGED faults ELSE Fault(kind)
  /\ LET q == Head(wire)
     IN  /\ fifo' = Append(fifo, [m |-> q.m, fn |-> q.t.fn, slave |-> q.t.slave,
                                  kind |-> kind, val |-> RegVal(q.t.reg)])
         /\ applied' = IF kind \in Refusals THEN applied ELSE Executed(q)
  /\ wire' = Tail(wire)
  /\ UNCHANGED << boot, beat, rxq, txq, sending, mdVars, pos, got, issued, heeded,
                  misled, bus >>

Lose(executed) ==
  /\ wire # << >> /\ Fault("lost")
  /\ applied' = IF executed THEN Executed(Head(wire)) ELSE applied
  /\ wire' = Tail(wire)
  /\ UNCHANGED << boot, beat, rxq, txq, sending, mdVars, fifo, pos, got, issued,
                  heeded, misled, bus >>

(* Noise at any other time stays in the FIFO until the next receive call,  *)
(* which cannot tell when it came.                                         *)
Noise ==
  /\ pc = "await" /\ Fault("noise")
  /\ fifo' = Append(fifo, NoiseBytes)
  /\ UNCHANGED << boot, beat, rxq, txq, sending, mdVars, wire, pos, history >>

(* Where a motor is matters when it is about to be asked, and a move before *)
(* that is taken as one just then.                                         *)
Move ==
  /\ wire # << >> /\ Head(wire).t.reg \in {PositionLo, PositionHi}
  /\ pos < Pos0 + MaxMoves
  /\ pos' = pos + 1
  /\ UNCHANGED << boot, beat, rxq, txq, sending, mdVars, wire, fifo, faults, history >>

-----------------------------------------------------------------------------
Main   == MainBeat \/ \E c \in BOOLEAN : MainModbusInit(c)
CanTx  == TxTake \/ \E sent \in BOOLEAN : TxWrite(sent)
Md     == MdTake \/ MdSend \/ MdReceive \/ MdTimeout \/ MdError \/ MdReply
Slave  == \/ \E kind \in {"ok", "exception", "garbled", "garbledRefusal"} : Serve(kind)
          \/ \E executed \in BOOLEAN : Lose(executed)
CanRx  == \E f \in Frames : CanRxFrame(f)

Next == Main \/ CanRx \/ CanTx \/ Md \/ Slave \/ Noise \/ Move

(* Every thread that can run does: main and can_tx_thread (priority 10)    *)
(* and can_rx_thread (25) block on delays, a semaphore or a queue, which   *)
(* leaves the processor to md_m_send (30).                                 *)
Fairness == /\ WF_vars(Md) /\ WF_vars(CanTx) /\ WF_vars(Slave)
            /\ WF_vars(\E c \in BOOLEAN : MainModbusInit(c))

Spec == Init /\ [][Next]_vars
LiveSpec == Spec /\ Fairness

-----------------------------------------------------------------------------
(* Properties.                                                             *)

(* Every variable stays within its type.                                   *)
TypeOK ==
  /\ boot \in {"modbus", "run", "nomodbus"}
  /\ beat \in 0..MaxBeats
  /\ rxq \in Seq(Request) /\ txq \in Seq(Message) /\ sending \in Seq(Message)
  /\ pc \in {"off", "poll", "send", "await", "reply"}
  /\ cur \in Request \cup {NoRequest} /\ k \in 0..2 /\ vals \in Seq(Word)
  /\ wire \in Seq([m : [id : Nat, k : Nat], t : Transaction])
  /\ fifo \in Seq(Answer)
  /\ pos \in Nat /\ faults \in 0..MaxFaults
  /\ got \in Seq(Frames) /\ issued \in Seq(0..2)
  /\ applied \cup heeded \cup misled \subseteq [id : Nat, k : Nat]
  /\ bus \in Seq(Message)

(* What has been produced for the CAN bus, oldest first.                   *)
TxPath == bus \o sending \o txq
Outgoing == {TxPath[i] : i \in 1..Len(TxPath)}
Replies == {m \in Outgoing : m.src = "modbus"}

(* The frames of one producer reach the bus in the order it produced them, *)
(* none twice: heartbeats count up, and replies come in the order their    *)
(* requests arrived.  (can_tx_queue, modbus_to_can_handle.c and main.c.)   *)
BusOrder ==
  \A i, j \in 1..Len(bus) :
     i < j /\ bus[i].src = bus[j].src => bus[i].seq < bus[j].seq

(* A reply answers the request it came from, and only after md_m_send has  *)
(* issued every transaction of that request: a command given up half way   *)
(* is never answered.                                                      *)
RepliesAnswer ==
  \A m \in Replies :
     /\ m.seq \in 1..Len(got)
     /\ LET f == got[m.seq]
        IN  /\ m.frame.type = f.type /\ m.frame.addr = f.addr
            /\ m.frame.index = f.index /\ m.frame.flag = f.flag
            /\ Plan(f) # << >> /\ issued[m.seq] = Len(Plan(f))

(* "If the Modbus write succeeded, return the CAN frame as it is"          *)
(* (modbus_to_can_handle.c:152): a write is echoed only when the slave has *)
(* executed every register write of the command.                           *)
EchoMeansWritten ==
  \A m \in Replies : IsLsWrite(m.frame) =>
     \A i \in 1..Len(Plan(m.frame)) : [id |-> m.seq, k |-> i] \in applied

(* What does hold of an echo: a write of the command that was not executed *)
(* was ended by bytes that held a refusal, damaged or not, an answer that  *)
(* had come too late for another transaction, or noise (user_modbus.c:170  *)
(* takes any answer of positive length for a success).  Only silence and   *)
(* errors of the driver never pass for success.                            *)
EchoUnlessMisled ==
  \A m \in Replies : IsLsWrite(m.frame) =>
     \A i \in 1..Len(Plan(m.frame)) : [id |-> m.seq, k |-> i] \in applied \cup misled

(* The two halves of a position are written high word first: a slave never *)
(* executes the low word of a command whose high word it has not executed, *)
(* unless such bytes stood in for the answer to the high word.             *)
NoLoneLowHalf ==
  \A m \in applied : m.k = 2 => [id |-> m.id, k |-> 1] \in applied \cup misled

(* "Read the 16-bit integer of the given slave and register"               *)
(* (user_modbus.c:212): when every read of a request took an answer, and   *)
(* its own, the words reported are the ones the registers hold, the alarm  *)
(* word masked; each half of a position belongs to a position the motor    *)
(* has held (the two need not belong to the same one).                     *)
Answered(m) == \A i \in 1..Len(Plan(m.frame)) : [id |-> m.seq, k |-> i] \in heeded \ misled
Held == Pos0..pos

ReadsHonest ==
  \A m \in Replies : IsLsRead(m.frame) /\ Answered(m) =>
     CASE m.frame.index = 5 -> /\ Lo(m.frame) \in {p % 65536 : p \in Held}
                              /\ Hi(m.frame) \in {(p \div 65536) % 65536 : p \in Held}
       [] m.frame.index = 8 -> m.frame.data = << Status % 4096, 0 >>
       [] OTHER             -> m.frame.data = << Status, 0 >>

(* Whatever the line does, every read request that got into can_rx_queue   *)
(* is answered on can_tx_queue, unless that queue fills up, and every other *)
(* request is dealt with; and the bus always catches up with can_tx_queue. *)
Waiting(i) == \E n \in 1..Len(rxq) : rxq[n].id = i
InHand(i)  == Waiting(i) \/ cur.id = i
IsRead(f)  == Plan(f) # << >> /\ (IsLsRead(f) \/ IsPowerRead(f))

ReadsAnswered ==
  \A i \in 1..MaxFrames :
     (boot = "run" /\ Waiting(i) /\ IsRead(got[i])) ~>
        (Len(txq) = TxCap \/ \E m \in Replies : m.seq = i)

RequestsServed ==
  \A i \in 1..MaxFrames : (boot = "run" /\ Waiting(i)) ~> ~InHand(i)

TxDrains == []<>(txq = << >> /\ sending = << >>)
=============================================================================
