------------------------------- MODULE UartRx -------------------------------
(***************************************************************************)
(* The receive side of class uart_impl (firmware/src/uart.cpp): the ring   *)
(* rx_buf, which a circular DMA channel fills beside the main loop, the    *)
(* reader copy_rx_data(), the RTS output that holds the peer back, and the *)
(* detection of overruns.                                                  *)
(*                                                                         *)
(* Bytes are numbered in the order they arrive, from 0.                    *)
(***************************************************************************)
EXTENDS Integers, Sequences

CONSTANTS
    UART_RX_BUF_LEN,    \* length of rx_buf (1024 in uart.h)
    Marks,              \* values set_coding() gives rx_high_water_mark
    DefaultMark,        \* the one for 9600 bps, which enable() selects
    ReadSizes,          \* lengths passed to copy_rx_data() (64)
    PollBytes,          \* bytes that may arrive between two calls of poll()
    Slack,              \* bytes the peer still sends after RTS is withdrawn
    Peers,              \* what the peer may be like: it "obeys" or "ignores" RTS
    MaxReceived         \* bound: bytes that arrive in a behaviour

ASSUME RxAssumption ==
    /\ UART_RX_BUF_LEN \in Nat /\ UART_RX_BUF_LEN > 1
    /\ Marks \subseteq 0 .. UART_RX_BUF_LEN
    /\ DefaultMark \in Marks
    /\ ReadSizes \subseteq Nat \ {0}
    /\ Peers \subseteq {"obeys", "ignores"}
    /\ PollBytes \in Nat \ {0} /\ Slack \in Nat /\ MaxReceived \in Nat

VARIABLES
    rx_buf,             \* the ring, byte numbers (-1: never written)
    rx_pos,             \* the cell the DMA channel fills next
    rx_buf_tail, last_rx_size, rx_overrun_occurred,
    rx_high_water_mark,
    rts,                \* RTS asserted
    rx_step,            \* the main loop: "poll" (before uart.poll()), "read"
                        \* (after it), "copy" (inside copy_rx_data())
    reading,            \* copy_rx_data(): the head sampled, the length to copy
    received,           \* history: bytes the DMA channel has stored
    next_rx,            \* history: bytes copied or discarded, so the number
                        \* of the byte the tail stands for
    copied,             \* history: bytes copy_rx_data() has returned
    since_poll,         \* bytes since the last poll()
    peer,               \* what the peer is like
    peer_slack          \* bytes the peer still sends while RTS is withdrawn

uartRxVars == <<rx_buf_tail, last_rx_size, rx_overrun_occurred>>
rxVars == <<rx_buf, rx_pos, uartRxVars, rx_high_water_mark, rts, rx_step,
            reading, received, next_rx, copied, since_poll, peer, peer_slack>>

RxCells == 0 .. UART_RX_BUF_LEN - 1
NotReading == [head |-> 0, len |-> 0]

Smaller(a, b) == IF a <= b THEN a ELSE b

----------------------------------------------------------------------------
(* Positions in the ring. *)

\* Mutant: the distance without the wrap-around.
RxLenNoWrap(head, tail) == IF head >= tail THEN head - tail ELSE tail - head

\* rx_data_len() for given positions.
RxLen(head, tail) == IF head >= tail THEN head - tail
                                     ELSE UART_RX_BUF_LEN - tail + head

RxDataLen == RxLen(rx_pos, rx_buf_tail)

\* Mutant: an exact fit does not wrap around.
RxWrapLate(pos) == IF pos > UART_RX_BUF_LEN THEN 0 ELSE pos

RxWrap(pos) == IF pos >= UART_RX_BUF_LEN THEN 0 ELSE pos

\* What check_rx_overrun() may compute from the counter of the DMA channel:
\* at the start of the ring the counter reads as 0 until it is reloaded, a
\* case the other functions provide for.
RawHead == IF rx_pos = 0 THEN {0, UART_RX_BUF_LEN} ELSE {rx_pos}

----------------------------------------------------------------------------
(* copy_rx_data() with the head it has sampled: the chunk up to the end of *)
(* the buffer, then the chunk up to the head.                              *)

FirstChunk(head, len) ==
    IF rx_buf_tail > head THEN Smaller(len, UART_RX_BUF_LEN - rx_buf_tail) ELSE 0

TailAfterFirst(head, len) == RxWrap(rx_buf_tail + FirstChunk(head, len))

\* Mutants: there is no second chunk; the first one is not taken off the length.
SecondChunkNever(head, len) == 0
SecondChunkLong(head, len) ==
    IF TailAfterFirst(head, len) < head
    THEN Smaller(len, head - TailAfterFirst(head, len)) ELSE 0

SecondChunk(head, len) ==
    IF TailAfterFirst(head, len) < head
    THEN Smaller(len - FirstChunk(head, len), head - TailAfterFirst(head, len))
    ELSE 0

CopiedLen(head, len) == FirstChunk(head, len) + SecondChunk(head, len)

\* Mutant: the second chunk goes where the first one went.
CopiedBytesOverlap(head, len) ==
    [i \in 1 .. CopiedLen(head, len) |->
        IF i <= SecondChunk(head, len)
        THEN rx_buf[TailAfterFirst(head, len) + i - 1]
        ELSE IF i <= FirstChunk(head, len) THEN rx_buf[rx_buf_tail + i - 1] ELSE -1]

\* The bytes memcpy() finds in the ring.
CopiedBytes(head, len) ==
    [i \in 1 .. CopiedLen(head, len) |->
        IF i <= FirstChunk(head, len)
        THEN rx_buf[rx_buf_tail + i - 1]
        ELSE rx_buf[TailAfterFirst(head, len) + i - 1 - FirstChunk(head, len)]]

\* last_rx_size: measured only if there was something to copy.
SizeAfterCopy(head, len) ==
    IF head = rx_buf_tail
    THEN last_rx_size
    ELSE RxLen(head, rx_buf_tail) - CopiedLen(head, len)

CopyRxData(head, len) ==
    /\ copied' = copied \o CopiedBytes(head, len)
    /\ rx_buf_tail' = TailAfterFirst(head, len) + SecondChunk(head, len)
    /\ last_rx_size' = SizeAfterCopy(head, len)
    /\ next_rx' = next_rx + CopiedLen(head, len)

----------------------------------------------------------------------------
(* Actions. *)

\* Mutants: RTS is never asserted; it is withdrawn one byte late.
RtsNever(len) == FALSE
RtsLate(len) == len <= rx_high_water_mark

\* update_rts(): asserted below the high-water mark.
RtsFor(len) == len < rx_high_water_mark

\* Mutant: an unchanged length is taken for an overrun.
OverrunOrIdle == RxDataLen <= last_rx_size

\* check_rx_overrun(): fewer bytes than the last copy left behind.
OverrunSeen == RxDataLen < last_rx_size

\* The RX side of poll(): update_rts(), then check_rx_overrun(), which
\* discards everything.
RxPoll ==
    /\ rx_step = "poll"
    /\ rx_step' = "read"
    /\ rts' = RtsFor(RxDataLen)
    /\ peer_slack' = IF rts /\ ~rts' THEN Slack ELSE peer_slack
    /\ IF OverrunSeen
       THEN /\ rx_buf_tail' \in RawHead
            /\ last_rx_size' = 0
            /\ rx_overrun_occurred' = TRUE
            /\ next_rx' = received
       ELSE UNCHANGED <<uartRxVars, next_rx>>
    /\ since_poll' = 0
    /\ UNCHANGED <<rx_buf, rx_pos, rx_high_water_mark, reading, received, copied,
                   peer>>

\* has_rx_overrun_occurred() reports an overrun once; nothing is copied in
\* this turn.
TakeOverrun ==
    /\ rx_step = "read"
    /\ rx_overrun_occurred
    /\ rx_overrun_occurred' = FALSE
    /\ rx_step' = "poll"
    /\ UNCHANGED <<rx_buf, rx_pos, rx_buf_tail, last_rx_size, rx_high_water_mark,
                   rts, reading, received, next_rx, copied, since_poll, peer,
                   peer_slack>>

\* Nothing is read in this turn: not connected, data held back, host busy.
SkipRead ==
    /\ rx_step = "read"
    /\ rx_step' = "poll"
    /\ UNCHANGED <<rx_buf, rx_pos, uartRxVars, rx_high_water_mark, rts, reading,
                   received, next_rx, copied, since_poll, peer, peer_slack>>

\* copy_rx_data() samples the head ...
ReadBegin ==
    /\ rx_step = "read" /\ ~rx_overrun_occurred
    /\ \E len \in ReadSizes : reading' = [head |-> rx_pos, len |-> len]
    /\ rx_step' = "copy"
    /\ UNCHANGED <<rx_buf, rx_pos, uartRxVars, rx_high_water_mark, rts, received,
                   next_rx, copied, since_poll, peer, peer_slack>>

\* ... and copies what it has seen, while more bytes arrive.
ReadEnd ==
    /\ rx_step = "copy"
    /\ CopyRxData(reading.head, reading.len)
    /\ reading' = NotReading
    /\ rx_step' = "poll"
    /\ UNCHANGED <<rx_buf, rx_pos, rx_overrun_occurred, rx_high_water_mark, rts,
                   received, since_poll, peer, peer_slack>>

\* set_coding() sets the mark for the baud rate.
SetMark ==
    /\ rx_step = "poll"
    /\ rx_high_water_mark' \in Marks
    /\ UNCHANGED <<rx_buf, rx_pos, uartRxVars, rts, rx_step, reading, received,
                   next_rx, copied, since_poll, peer, peer_slack>>

\* enable(), called anew for every SET_CONFIGURATION: the DMA channel starts at
\* the beginning of the ring; last_rx_size and rx_overrun_occurred are kept.
RxEnable ==
    /\ rx_step = "poll"
    /\ rx_pos' = 0
    /\ rx_buf_tail' = 0
    /\ rts' = FALSE
    /\ peer_slack' = IF rts THEN Slack ELSE peer_slack
    /\ rx_high_water_mark' = DefaultMark
    /\ next_rx' = received
    /\ UNCHANGED <<rx_buf, last_rx_size, rx_overrun_occurred, rx_step, reading,
                   received, copied, since_poll, peer>>

\* Hardware: a byte arrives.  A peer that obeys RTS stops soon after it is
\* withdrawn.
RxByte ==
    /\ received < MaxReceived
    /\ since_poll < PollBytes
    /\ rts \/ peer_slack > 0 \/ peer = "ignores"
    /\ peer_slack' = IF rts \/ peer = "ignores" THEN peer_slack ELSE peer_slack - 1
    /\ rx_buf' = [rx_buf EXCEPT ![rx_pos] = received]
    /\ rx_pos' = RxWrap(rx_pos + 1)
    /\ received' = received + 1
    /\ since_poll' = since_poll + 1
    /\ UNCHANGED <<uartRxVars, rx_high_water_mark, rts, rx_step, reading, next_rx,
                   copied, peer>>

----------------------------------------------------------------------------
\* The state after the first enable().
RxInit ==
    /\ rx_buf = [i \in RxCells |-> -1]
    /\ rx_pos = 0 /\ rx_buf_tail = 0
    /\ last_rx_size = 0 /\ rx_overrun_occurred = FALSE
    /\ rx_high_water_mark = DefaultMark
    /\ rts = FALSE /\ peer \in Peers /\ peer_slack = 0
    /\ rx_step = "poll" /\ reading = NotReading
    /\ received = 0 /\ next_rx = 0 /\ copied = <<>>
    /\ since_poll = 0

Reader == ReadBegin \/ SkipRead \/ TakeOverrun

RxNext == RxPoll \/ Reader \/ ReadEnd \/ SetMark \/ RxByte

\* The main loop never stops and, as the host keeps reading, copies again and
\* again.
RxFairness ==
    /\ WF_rxVars(RxPoll) /\ WF_rxVars(ReadEnd) /\ WF_rxVars(Reader)
    /\ SF_rxVars(ReadBegin)

RxSpec == RxInit /\ [][RxNext]_rxVars /\ RxFairness

\* The device is configured more than once.
RxSpecReconfigured == RxInit /\ [][RxNext \/ RxEnable]_rxVars /\ RxFairness

----------------------------------------------------------------------------
(* Properties *)

RxTypeOK ==
    /\ rx_buf \in [RxCells -> Int]
    /\ rx_pos \in RxCells
    /\ rx_buf_tail \in 0 .. UART_RX_BUF_LEN
    /\ last_rx_size \in 0 .. UART_RX_BUF_LEN - 1
    /\ rx_overrun_occurred \in BOOLEAN
    /\ rx_high_water_mark \in Marks
    /\ rts \in BOOLEAN
    /\ rx_step \in {"poll", "read", "copy"}
    /\ reading \in [head : RxCells, len : ReadSizes \cup {0}]
    /\ received \in Nat /\ next_rx \in Nat
    /\ copied \in Seq(Int)
    /\ since_poll \in 0 .. PollBytes
    /\ peer \in Peers /\ peer_slack \in 0 .. Slack

Unread == received - next_rx

\* The positions of the ring agree with the number of bytes, up to the turns
\* the DMA channel has gained on the reader.
PositionsAgree == RxDataLen = Unread % UART_RX_BUF_LEN

\* The peer obeys RTS and poll() is called often enough: no byte is lost, and
\* no copy races with the DMA channel.
CopiedInOrder == peer = "obeys" => \A i \in 1 .. Len(copied) : copied[i] = i - 1
UnreadFits == peer = "obeys" => Unread < UART_RX_BUF_LEN

\* No byte is read that was not received: what the copy under way has seen is
\* among the bytes not read yet.
CountsAgree ==
    /\ 0 <= Unread
    /\ rx_step = "copy" =>
        /\ RxLen(reading.head, rx_buf_tail) <= Unread
        /\ reading.len \in ReadSizes

\* And so is what the last copy has left behind, unless there was an enable().
LastSizeAgrees == last_rx_size <= Unread

\* Above every mark there is room for what arrives until poll() is called again
\* and for what the peer sends after RTS has been withdrawn.
RoomAboveMark == \A mark \in Marks : mark + PollBytes + Slack <= UART_RX_BUF_LEN

\* The part of it that is still left.
RoomLeft ==
    IF rts THEN Unread - since_poll + PollBytes + Slack < UART_RX_BUF_LEN
           ELSE Unread + peer_slack < UART_RX_BUF_LEN

\* The i-th position after pos.
RxAdvance(pos, i) ==
    IF pos + i >= UART_RX_BUF_LEN THEN pos + i - UART_RX_BUF_LEN ELSE pos + i

\* From the tail on, the ring holds the bytes that follow those copied.
UnreadInOrder ==
    \A i \in 0 .. Unread - 1 : rx_buf[RxAdvance(rx_buf_tail, i)] = next_rx + i

\* What is true whatever the peer does, and what is true of one that obeys RTS.
RingInv == RxTypeOK /\ PositionsAgree /\ CountsAgree
LosslessInv ==
    peer = "obeys" =>
        RoomLeft /\ UnreadInOrder /\ Len(copied) = next_rx

\* The inductive invariant, given RoomAboveMark.
RxInv == RingInv /\ LastSizeAgrees /\ CopiedInOrder /\ UnreadFits /\ LosslessInv

\* An overrun is reported only if bytes were lost.
OverrunMeansLoss ==
    [][rx_overrun_occurred' /\ ~rx_overrun_occurred
         => Unread >= UART_RX_BUF_LEN]_rxVars

\* "If it has been overrun, data is discarded and the error state reset":
\* right after poll() no overrun is left unnoticed.
OverrunDetected == since_poll = 0 => Unread < UART_RX_BUF_LEN

\* A copy never returns more than it was asked for: the packet buffer of the
\* caller is not overrun.
CopyFits == [][copied' # copied =>
                 Len(copied') - Len(copied) <= reading.len]_rxVars

\* RTS is asserted again, so a peer that obeys it is never blocked for good.
RtsComesBack == peer = "obeys" /\ ~rts ~> rts

\* Every byte received from a peer that obeys RTS is handed to the reader.
ReceivedIsCopied ==
    \A n \in 1 .. MaxReceived :
        peer = "obeys" /\ received >= n ~> Len(copied) >= n
=============================================================================
