----------------------------- MODULE MCGateway -----------------------------
(***************************************************************************)
(* Values of the constants of Gateway for TLC: the CAN frames other nodes  *)
(* send, one LS motor at address 3 and one power supply at address 7.      *)
(***************************************************************************)
EXTENDS Gateway

Frame(t, a, fl, ix, d) ==
  [type |-> t, addr |-> a, flag |-> fl, index |-> ix, data |-> d]

LS == MSG_LS_CHAIN_CTRL

StartMotor    == Frame(LS, 3, 0, 0, << 2, 0 >>)
BadMode       == Frame(LS, 3, 0, 1, << 9, 0 >>)
WritePosition == Frame(LS, 3, 0, 5, << 7, 1 >>)
ReadPosition  == Frame(LS, 3, 1, 5, << 0, 0 >>)
ReadAlarm     == Frame(LS, 3, 1, 8, << 0, 0 >>)
ReadVoltage   == Frame(MSG_MODBUS_POWER_READ_VOLTAGE, 0, 1, 7, << 0, 5 >>)
Other         == Frame(MSG_HEARTBEAT, 9, 0, 0, << 0, 0 >>)

MixedFrames == {BadMode, WritePosition, ReadAlarm, ReadPosition, ReadVoltage, Other}
WriteFrames == {StartMotor, WritePosition}

\* A status word with alarm bits above the mask; a position about to carry.
StatusWord == \h5008
NearCarry  == 65535
Words      == {77}
=============================================================================
