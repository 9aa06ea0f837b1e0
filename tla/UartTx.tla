------------------------------- MODULE UartTx -------------------------------
(***************************************************************************)
(* The transmit side of class uart_impl (firmware/src/uart.cpp): the ring  *)
(* buffer tx_buf, the DMA channel that feeds the USART from it, and the    *)
(* two pieces of code that touch both, transmit() (called from the USB     *)
(* callback) and poll() (called from the main loop).                       *)
(*                                                                         *)
(* A byte is represented by a number: what it is worth does not matter,    *)
(* its place in the stream does.  Here the k-th byte accepted into the     *)
(* ring is k-1; UsbToSerial numbers the bytes as the host sends them.      *)
(***************************************************************************)
EXTENDS Integers, Sequences

CONSTANTS
    UART_TX_BUF_LEN,    \* length of tx_buf (1024 in uart.h)
    ChunkSizes,         \* values set_baudrate() gives tx_max_chunk_size (16..256)
    DefaultChunk,       \* the one for 9600 bps, which enable() selects (16)
    MaxPacket,          \* longest block passed to transmit() (64)
    MaxBytes            \* bound: bytes offered to transmit() in a behaviour

ASSUME TxAssumption ==
    /\ UART_TX_BUF_LEN \in Nat /\ UART_TX_BUF_LEN > 1
    /\ ChunkSizes \subseteq Nat \ {0}
    /\ DefaultChunk \in ChunkSizes
    /\ MaxPacket \in Nat \ {0}
    /\ MaxBytes \in Nat

VARIABLES
    tx_buf,             \* the ring, byte numbers (-1: never written)
    tx_buf_head, tx_buf_tail,
    tx_max_chunk_size,
    xfer,               \* the transfer: is_transmitting and tx_size of
                        \* uart_impl, then the DMA channel: on, pos (the next
                        \* cell), left (CNDTR), tcif (transfer complete flag)
    offered,            \* history: bytes passed to transmit()
    accepted,           \* history: bytes copied into the ring
    tx_base,            \* history: number of the first byte since enable()
    wire                \* history: bytes sent by the USART since enable()

uartTxVars == <<tx_buf, tx_buf_head, tx_buf_tail, tx_max_chunk_size, xfer>>
txVars == <<uartTxVars, offered, accepted, tx_base, wire>>

Lesser(a, b) == IF a <= b THEN a ELSE b
Cells == 0 .. UART_TX_BUF_LEN - 1

----------------------------------------------------------------------------
(* Positions in the ring. *)

\* A position that has run to the end of the buffer restarts at 0.
TxWrap(pos) == IF pos >= UART_TX_BUF_LEN THEN 0 ELSE pos

\* uart_impl::tx_data_avail() for given positions.
TxAvail(head, tail) ==
    IF head >= tail THEN UART_TX_BUF_LEN - (head - tail) - 1
                    ELSE tail - head - 1

TxDataAvail == TxAvail(tx_buf_head, tx_buf_tail)

\* Mutants: the last cell before the end is left unused; the cell that tells
\* a full ring from an empty one is used when the tail is at 0.
AvailChunkShort(head, tail) ==
    CASE head < tail              -> tail - head - 1
      [] head >= tail /\ tail # 0 -> UART_TX_BUF_LEN - 1 - head
      [] head >= tail /\ tail = 0 -> UART_TX_BUF_LEN - 1 - head
AvailChunkFull(head, tail) ==
    IF head < tail THEN tail - head - 1 ELSE UART_TX_BUF_LEN - head

\* The number of bytes transmit() can copy at head without wrapping around.
AvailChunk(head, tail) ==
    CASE head < tail              -> tail - head - 1
      [] head >= tail /\ tail # 0 -> UART_TX_BUF_LEN - head
      [] head >= tail /\ tail = 0 -> UART_TX_BUF_LEN - 1 - head

----------------------------------------------------------------------------
(* The transfer from the ring to the USART. *)

Idle == [is_transmitting |-> FALSE, tx_size |-> 0,
         on |-> FALSE, pos |-> 0, left |-> 0, tcif |-> FALSE]

\* The length of the DMA transfer start_transmission() programs.
DmaChunk(head, tail) ==
    Lesser((IF head <= tail THEN UART_TX_BUF_LEN ELSE head) - tail,
           tx_max_chunk_size)

\* Mutant: a busy UART is started again.
StartTransmissionBusy(x, head, tail) ==
    IF head = tail
    THEN x
    ELSE [is_transmitting |-> TRUE, tx_size |-> DmaChunk(head, tail),
          on |-> TRUE, pos |-> tail, left |-> DmaChunk(head, tail),
          tcif |-> x.tcif]

\* start_transmission(): nothing to do if the UART is busy or the ring empty.
StartTransmission(x, head, tail) ==
    IF x.is_transmitting \/ head = tail
    THEN x
    ELSE [is_transmitting |-> TRUE, tx_size |-> DmaChunk(head, tail),
          on |-> TRUE, pos |-> tail, left |-> DmaChunk(head, tail),
          tcif |-> x.tcif]

----------------------------------------------------------------------------
\* transmit(): len bytes, numbered from data.  The function calls itself for
\* what did not fit before the end of the buffer: the first call copies c1
\* bytes at the head, the second c2 bytes after the wrap-around, and a third
\* finds the ring full (lemma TwoCalls in UartTxProofs).  A call that copied
\* something starts the transmission before the next call is made, which then
\* finds the UART busy.
Transmit(data, len) ==
    LET c1 == Lesser(len, AvailChunk(tx_buf_head, tx_buf_tail))
        h1 == TxWrap(tx_buf_head + c1)
        c2 == Lesser(len - c1, AvailChunk(h1, tx_buf_tail))
    IN  /\ tx_buf' = [i \in Cells |->
                        IF i \in tx_buf_head .. tx_buf_head + c1 - 1
                        THEN data + (i - tx_buf_head)
                        ELSE IF i \in h1 .. h1 + c2 - 1
                        THEN data + c1 + (i - h1)
                        ELSE tx_buf[i]]
        /\ tx_buf_head' = TxWrap(h1 + c2)
        /\ xfer' = IF c1 = 0 THEN xfer
                   ELSE StartTransmission(xfer, h1, tx_buf_tail)
        /\ offered' = offered + len
        /\ accepted' = accepted + c1 + c2
        /\ UNCHANGED <<tx_buf_tail, tx_max_chunk_size, tx_base, wire>>

\* Mutant: the transfer stays marked as running after its completion.
XferStaysBusy == IF xfer.tcif THEN [xfer EXCEPT !.tcif = FALSE] ELSE xfer

\* poll_tx_complete(): the space of a completed transfer is given back.
TailAfterComplete == IF xfer.tcif THEN TxWrap(tx_buf_tail + xfer.tx_size)
                                  ELSE tx_buf_tail
XferAfterComplete == IF xfer.tcif THEN Idle ELSE xfer

\* The TX side of poll(): poll_tx_complete(), then start_transmission().
PollTx ==
    /\ tx_buf_tail' = TailAfterComplete
    /\ xfer' = StartTransmission(XferAfterComplete, tx_buf_head,
                                 TailAfterComplete)
    /\ UNCHANGED <<tx_buf, tx_buf_head, tx_max_chunk_size,
                   offered, accepted, tx_base, wire>>

\* set_coding() gives the chunk size the baud rate calls for.
SetCoding ==
    /\ tx_max_chunk_size' \in ChunkSizes
    /\ UNCHANGED <<tx_buf, tx_buf_head, tx_buf_tail, xfer,
                   offered, accepted, tx_base, wire>>

\* Mutant: enable() forgets the running transfer.
EnableKeepsTransfer ==
    /\ tx_buf_head' = 0
    /\ tx_buf_tail' = 0
    /\ tx_max_chunk_size' = DefaultChunk
    /\ tx_base' = accepted
    /\ wire' = <<>>
    /\ UNCHANGED <<tx_buf, offered, accepted, xfer>>

\* enable(): SET_CONFIGURATION starts over; what was in the ring is dropped.
\* dma_channel_reset() disables the channel and clears its flags.
Enable ==
    /\ tx_buf_head' = 0
    /\ tx_buf_tail' = 0
    /\ xfer' = Idle
    /\ tx_max_chunk_size' = DefaultChunk
    /\ tx_base' = accepted
    /\ wire' = <<>>
    /\ UNCHANGED <<tx_buf, offered, accepted>>

\* Hardware: the DMA channel moves one byte to the USART, which sends it.
DmaByte ==
    /\ xfer.on /\ xfer.left > 0
    /\ wire' = Append(wire, tx_buf[xfer.pos])
    /\ xfer' = [xfer EXCEPT !.pos = @ + 1, !.left = @ - 1,
                            !.tcif = (xfer.left = 1)]
    /\ UNCHANGED <<tx_buf, tx_buf_head, tx_buf_tail, tx_max_chunk_size,
                   offered, accepted, tx_base>>

----------------------------------------------------------------------------
\* The state after the first enable().
TxInit ==
    /\ tx_buf = [i \in Cells |-> -1]
    /\ tx_buf_head = 0 /\ tx_buf_tail = 0
    /\ tx_max_chunk_size = DefaultChunk
    /\ xfer = Idle
    /\ offered = 0 /\ accepted = 0 /\ tx_base = 0
    /\ wire = <<>>

TransmitSome == \E len \in 1 .. MaxPacket :
                    offered + len <= MaxBytes /\ Transmit(accepted, len)

TxNext == TransmitSome \/ PollTx \/ SetCoding \/ Enable \/ DmaByte

\* The main loop polls for ever, and the peer keeps CTS asserted long enough
\* for the USART to send the next byte.  USB traffic is not owed to anyone.
TxFairness == WF_txVars(PollTx) /\ WF_txVars(DmaByte)

TxSpec == TxInit /\ [][TxNext]_txVars /\ TxFairness

----------------------------------------------------------------------------
(* Properties *)

Transfer == [is_transmitting : BOOLEAN, tx_size : Nat, on : BOOLEAN,
             pos : Nat, left : Nat, tcif : BOOLEAN]

TxTypeOK ==
    /\ tx_buf \in [Cells -> Int]
    /\ tx_buf_head \in Cells
    /\ tx_buf_tail \in Cells
    /\ tx_max_chunk_size \in ChunkSizes
    /\ xfer \in Transfer
    /\ offered \in Nat /\ accepted \in Nat /\ tx_base \in Nat
    /\ wire \in Seq(Int)

\* The bytes leave in the order they were accepted, none twice, none skipped:
\* the ring and the chunked, unwrapped DMA transfers together are a FIFO.
WireInOrder == \A i \in 1 .. Len(wire) : wire[i] = tx_base + i - 1

\* Number of bytes the ring holds, those of the running transfer included.
UsedBetween(head, tail) == UART_TX_BUF_LEN - 1 - TxAvail(head, tail)
Used == UsedBetween(tx_buf_head, tx_buf_tail)

\* Every accepted byte is on the wire or still held by the ring; the ring can
\* never be taken for empty when it is full, nor the other way round.
TxConservation ==
    accepted = tx_base + Len(wire) + Used - (xfer.tx_size - xfer.left)

\* transmit() and poll() leave the UART idle only when nothing is left to
\* send: no later event would restart a transmission that was not started.
IdleOnlyWhenEmpty == ~xfer.is_transmitting => tx_buf_head = tx_buf_tail

\* The number of the byte at the tail.
FirstHeld == tx_base + Len(wire) - (xfer.tx_size - xfer.left)

\* The distance of a cell from the tail.
Offset(i) == IF i >= tx_buf_tail THEN i - tx_buf_tail
                                 ELSE i - tx_buf_tail + UART_TX_BUF_LEN

\* The ring holds the bytes that follow those on the wire.
HeldInOrder ==
    \A i \in Cells : Offset(i) < Used => tx_buf[i] = FirstHeld + Offset(i)

\* A transfer covers cells the ring holds, from its tail, without wrapping
\* around; what is left of it ends where it ends.
XferOK(x, tail, used) ==
    IF x.is_transmitting
    THEN /\ x.on
         /\ x.tx_size \in 1 .. used
         /\ tail + x.tx_size <= UART_TX_BUF_LEN
         /\ x.left \in 0 .. x.tx_size
         /\ x.pos = tail + x.tx_size - x.left
         /\ x.tcif = (x.left = 0)
    ELSE x = Idle

XferInv == XferOK(xfer, tx_buf_tail, Used)

\* The inductive invariant.
TxInv == /\ TxTypeOK
         /\ WireInOrder
         /\ TxConservation
         /\ IdleOnlyWhenEmpty
         /\ XferInv
         /\ HeldInOrder

\* The cells the DMA channel has yet to read are not written by anyone.
DmaCellsStable ==
    [][\A i \in Cells : i >= xfer.pos /\ i < xfer.pos + xfer.left
            => tx_buf'[i] = tx_buf[i]]_txVars

\* transmit() discards a byte only when tx_data_avail() has no room for it:
\* the recursion over the wrap-around uses the last free cell.
DiscardOnlyWhenFull ==
    [][offered' # offered =>
         accepted' = accepted + Lesser(offered' - offered, TxDataAvail)]_txVars

\* Every accepted byte is sent, unless the device is configured anew.
AcceptedIsSent ==
    \A n \in 1 .. MaxBytes :
        accepted >= n ~> tx_base + Len(wire) >= n
=============================================================================
