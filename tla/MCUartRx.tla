------------------------------ MODULE MCUartRx ------------------------------
(* A ring of six cells, copies of two and four bytes: copies that wrap      *)
(* around, that leave bytes behind and that empty the ring.                 *)
EXTENDS UartRx

\* High-water marks.  A peer that stops within one byte, with up to two bytes
\* between polls, needs three cells above the mark.
MCMarks == {2, 3}
MCReadSizes == {2, 4}

\* The hypothesis of the theorems about loss.
ASSUME MCRoom == RoomAboveMark
=============================================================================
