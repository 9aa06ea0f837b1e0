--------------------------- MODULE MCUsbToSerial ----------------------------
(* Packets of up to two bytes, so high water is at four bytes of room, and a *)
(* ring of seven cells: two packets fit before the endpoint is paused.       *)
EXTENDS UsbToSerial

MCChunkSizes == {1, 3}
=============================================================================
