------------------------------- MODULE MCModbus -------------------------------
(***************************************************************************)
(* Modbus for TLC: two reads that differ only in their register (the        *)
(* 0x1000 and 0x1100 polls of sensor list 0x1097), a longer read, and a     *)
(* write, as the polling timer, the MQTT commands and the cloud send them.  *)
(***************************************************************************)
EXTENDS Modbus

ReadA == [addr |-> 1, fcode |-> 3, reg |-> 1, len |-> 16]
ReadB == [addr |-> 1, fcode |-> 3, reg |-> 2, len |-> 16]
Write == [addr |-> 1, fcode |-> 6, reg |-> 3, len |-> 100]

MCFrames == {ReadA, ReadB, Write}
MCTwoFrames == {ReadA, Write}
==============================================================================
