---------------------------- MODULE MCModbusMotor ----------------------------
(***************************************************************************)
(* An instance of ModbusMotor for TLC: a move and a stop, beside the       *)
(* force-on and the polls of the adapter, so that a late echo of one write *)
(* can be met by another.                                                  *)
(***************************************************************************)
EXTENDS ModbusMotor

CONSTANTS m1, stop

MCActionOf == [c \in Controls |-> "stop"]
MCGoalOf == [c \in Moves |-> 1]
=============================================================================
