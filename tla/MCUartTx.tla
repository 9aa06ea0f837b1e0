------------------------------ MODULE MCUartTx ------------------------------
(* A ring of five cells, transfers of one to three bytes, packets of up to  *)
(* four: packets that fit, that wrap around, that fill the ring exactly and *)
(* that exceed it.                                                          *)
EXTENDS UartTx

MCChunkSizes == {1, 3}
=============================================================================
