---------------------------- MODULE MCSerialToUsb ----------------------------
(* A ring of four cells, packets of up to two bytes, data held back up to two *)
(* bytes and one tick of a clock that wraps around after four.               *)
EXTENDS SerialToUsb

MCMarks == {2}
MCReadSizes == {2}

\* The hypothesis of the theorem about the pipe.
ASSUME MCRoom == RoomAboveMark
=============================================================================
