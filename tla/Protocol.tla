------------------------------ MODULE Protocol ------------------------------
(***************************************************************************)
(* The CAN protocol of the gateway board (applications/Inc/protcol.h) and  *)
(* the tables of applications/modbus_to_can_handle.c: which CAN frame asks *)
(* for which Modbus transactions.                                          *)
(*                                                                         *)
(* A frame carries four header bytes and four data bytes; the data bytes   *)
(* are kept as the two 16-bit words the handlers copy them into            *)
(* (DataStack.data_16t[0] and [1], little endian).                         *)
(***************************************************************************)
EXTENDS Integers, Sequences

Byte == 0..255
Word == 0..65535

MSG_HEARTBEAT                  == 1
MSG_MODBUS_MOTOR_REG6000       == 19
MSG_MODBUS_POWER_READ_VOLTAGE  == 31
MSG_MODBUS_POWER_READ_CURRENT  == 32
MSG_MODBUS_POWER_READ_POWER    == 33
MSG_LS_CHAIN_CTRL              == 104

CanData == [type : Byte, addr : Byte, flag : Byte, index : Byte,
            data : Word \X Word]

Lo(f) == f.data[1]
Hi(f) == f.data[2]

(* The filter of can_rx_thread: every other frame is dropped there.        *)
Accepted(f) == f.type \in {MSG_LS_CHAIN_CTRL, MSG_MODBUS_POWER_READ_VOLTAGE,
                           MSG_MODBUS_POWER_READ_CURRENT,
                           MSG_MODBUS_POWER_READ_POWER}

(* Modbus function codes the master uses, and a transaction it asks for.   *)
READ_REGISTERS       == 3
READ_INPUT_REGISTERS == 4
WRITE_REGISTER       == 6

Transaction == [fn : {READ_REGISTERS, READ_INPUT_REGISTERS, WRITE_REGISTER},
                slave : Byte, reg : Word, val : Word]

Write(s, r, v) == [fn |-> WRITE_REGISTER, slave |-> s, reg |-> r, val |-> v]
Read(s, r)     == [fn |-> READ_REGISTERS, slave |-> s, reg |-> r, val |-> 0]
ReadInput(s, r) ==
    [fn |-> READ_INPUT_REGISTERS, slave |-> s, reg |-> r, val |-> 0]

(* handle_ls_write: the register writes a flag # 1 LS frame asks for.  An  *)
(* unknown index or mode asks for none.  A position is written high word   *)
(* first (0x6201), then low word (0x6202).                                 *)
LsWrites(f) ==
  LET One(r, v) == << Write(f.addr, r, v) >>
      zero_mode == Lo(f) % 256
  IN  CASE f.index = 0 /\ Lo(f) = 2    -> One(\h6002, \h0010)
        [] f.index = 0 /\ Lo(f) = 8    -> One(\h6002, \h0040)
        [] f.index = 0 /\ Lo(f) = 4    -> One(\h6002, \h0020)
        [] f.index = 1 /\ Lo(f) = 0    -> One(\h6200, \h0001)
        [] f.index = 1 /\ Lo(f) = 1    -> One(\h6200, \h0002)
        [] f.index = 2 /\ zero_mode = 1 -> One(\h600A, \h0005)
        [] f.index = 2 /\ zero_mode = 2 -> One(\h600A, \h0004)
        [] f.index = 3 -> One(\h620C, Lo(f))
        [] f.index = 4 -> One(\h620D, Lo(f))
        [] f.index = 5 -> One(\h6201, Hi(f)) \o One(\h6202, Lo(f))
        [] f.index = 6 -> One(\h6203, Lo(f))
        [] OTHER       -> << >>

(* handle_ls_read: a position is two separate reads.  Every read asks for  *)
(* two registers and keeps the first.                                      *)
PositionLo == \h0B18
PositionHi == \h0B19

LsReads(f) ==
  CASE f.index = 5 -> << Read(f.addr, PositionLo), Read(f.addr, PositionHi) >>
    [] f.index = 6 -> << Read(f.addr, \h0B09) >>
    [] f.index = 7 -> << Read(f.addr, \h0B05) >>
    [] f.index = 8 -> << Read(f.addr, \h2203) >>
    [] OTHER       -> << >>

IsLsRead(f)    == f.type = MSG_LS_CHAIN_CTRL /\ f.flag = 1
IsLsWrite(f)   == f.type = MSG_LS_CHAIN_CTRL /\ f.flag # 1
IsReg6000(f)   == f.type = MSG_MODBUS_MOTOR_REG6000 /\ f.flag = 0
IsPowerRead(f) == /\ f.flag = 1
                  /\ f.type \in {MSG_MODBUS_POWER_READ_VOLTAGE,
                                 MSG_MODBUS_POWER_READ_CURRENT,
                                 MSG_MODBUS_POWER_READ_POWER}

PowerReg(f) ==
  CASE f.type = MSG_MODBUS_POWER_READ_CURRENT -> \h33
    [] f.type = MSG_MODBUS_POWER_READ_VOLTAGE -> \h32
    [] OTHER                                  -> \h34

(* The dispatch of send_thread_entry: the transactions a frame asks for.   *)
(* Motor 6000 and power frames address the slave by their index field.     *)
Plan(f) ==
  CASE IsReg6000(f)   -> << Write(f.index, \h6000, Lo(f)) >>
    [] IsLsRead(f)    -> LsReads(f)
    [] IsLsWrite(f)   -> LsWrites(f)
    [] IsPowerRead(f) -> << ReadInput(f.index, PowerReg(f)) >>
    [] OTHER          -> << >>

(* Faulty variant: the alarm word goes back whole.                         *)
ReplyFrameUnmasked(f, vals) ==
  CASE IsLsWrite(f) -> f
    [] IsLsRead(f) /\ f.index = 5 -> [f EXCEPT !.data = << vals[1], vals[2] >>]
    [] IsLsRead(f) /\ f.index # 5 -> [f EXCEPT !.data = << vals[1], 0 >>]
    [] OTHER                      -> [f EXCEPT !.data = << vals[1], Hi(f) >>]

(* The CAN frame sent back once the transactions of f have returned the    *)
(* words vals: an echo of a write, the words read (the alarm word with its *)
(* four high bits masked), or the power request with its first word        *)
(* replaced.                                                               *)
ReplyFrame(f, vals) ==
  CASE IsLsWrite(f) -> f
    [] IsLsRead(f) /\ f.index = 5 -> [f EXCEPT !.data = << vals[1], vals[2] >>]
    [] IsLsRead(f) /\ f.index = 8 -> [f EXCEPT !.data = << vals[1] % 4096, 0 >>]
    [] IsLsRead(f) /\ f.index \notin {5, 8} -> [f EXCEPT !.data = << vals[1], 0 >>]
    [] OTHER                      -> [f EXCEPT !.data = << vals[1], Hi(f) >>]
=============================================================================
