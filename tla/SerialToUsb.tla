----------------------------- MODULE SerialToUsb -----------------------------
(***************************************************************************)
(* The way of a byte from the serial line to the USB host: the receive     *)
(* side of the UART (UartRx), the part of usb_serial_impl::poll() that     *)
(* decides when to send (data held back, zero-length packets), the double- *)
(* buffered IN endpoint of qsb_drv_fsdev_plus.c and the host, which        *)
(* collects packets into transfers and ends a transfer with a short packet.*)
(***************************************************************************)
EXTENDS UartRx

CONSTANTS
    MaxPacket,          \* CDCACM_PACKET_SIZE, 64
    TX_HOLDBACK_MAX_LEN, TX_HOLDBACK_MAX_TIME,  \* 16 bytes, 3 ms
    Clock               \* 2^32: the counter of milliseconds wraps around

ASSUME SendAssumption ==
    /\ MaxPacket \in Nat \ {0}
    /\ ReadSizes = {MaxPacket}
    /\ TX_HOLDBACK_MAX_LEN \in Nat /\ TX_HOLDBACK_MAX_TIME \in Nat
    /\ Clock \in Nat /\ Clock > 2 * TX_HOLDBACK_MAX_TIME

VARIABLES
    needs_zlp,
    tx_timestamp, millis_count,
    turned,             \* the main loop has turned since the last tick
    sending,            \* poll() has decided to send and not yet called
                        \* copy_rx_data()
    in_state,           \* ep_state_tx of the IN endpoint
    in_sw_buf,          \* SW_BUF_TX: the buffer the driver fills next
    in_hw_buf,          \* DTOG_TX: the buffer the peripheral sends next
    in_buf,             \* the two packet buffers
    in_filled,          \* buffers filled and not yet sent
    ctr_tx,             \* CTR_TX of the endpoint register
    host_got,           \* history: bytes the host has received
    host_done           \* history: how many of them in complete transfers

endpointVars == <<in_state, in_sw_buf, in_hw_buf, in_buf, in_filled, ctr_tx,
                  host_got, host_done>>
sendVars == <<needs_zlp, tx_timestamp, millis_count, turned, sending, endpointVars>>
vars == <<rxVars, sendVars>>

\* ep_state_tx_e of a double-buffered endpoint.
dbl_buf_en_0_pkts == 2
dbl_buf_en_1_pkt == 3
dbl_buf_en_2_pkts == 4

----------------------------------------------------------------------------
\* has_expired(): the sign of the difference of two 32-bit numbers.
HasExpired(timeout) ==
    LET difference == (timeout - millis_count) % Clock
    IN  difference = 0 \/ difference >= Clock \div 2

\* Mutant: a lone byte waits for company.
WantsToSendLater ==
    needs_zlp \/ RxDataLen >= TX_HOLDBACK_MAX_LEN

\* poll() has something to send and need not wait for more.
WantsToSend ==
    \/ needs_zlp
    \/ /\ RxDataLen > 0
       /\ \/ RxDataLen >= TX_HOLDBACK_MAX_LEN
          \/ HasExpired(tx_timestamp + TX_HOLDBACK_MAX_TIME)

\* Mutant: two packets are not enough.
TransmitAvailBoth == IF in_state \in dbl_buf_en_0_pkts .. dbl_buf_en_2_pkts
                     THEN MaxPacket ELSE 0

\* qsb_dev_ep_transmit_avail().
TransmitAvail == IF in_state \in {dbl_buf_en_0_pkts, dbl_buf_en_1_pkt}
                 THEN MaxPacket ELSE 0

\* Mutants: no zero-length packet is ever due; one is due after an empty packet.
NeedsZlpNever(len) == FALSE
NeedsZlpAlways(len) == len % MaxPacket = 0

\* A packet of the maximum length does not end a transfer.
NeedsZlp(len) == len > 0 /\ len % MaxPacket = 0

\* Mutant: SW_BUF is not toggled.
TransmitPacketSameBuffer(packet) ==
    /\ in_buf' = [in_buf EXCEPT ![in_sw_buf] = packet]
    /\ in_state' = in_state + 1
    /\ in_filled' = in_filled + 1
    /\ UNCHANGED in_sw_buf

\* qsb_dev_ep_transmit_packet(), with a buffer free.
TransmitPacket(packet) ==
    /\ in_buf' = [in_buf EXCEPT ![in_sw_buf] = packet]
    /\ in_state' = in_state + 1
    /\ in_sw_buf' = 1 - in_sw_buf
    /\ in_filled' = in_filled + 1

\* The end of a packet in qsb_dev_poll().
StateAfterPacket == IF in_state # dbl_buf_en_0_pkts THEN in_state - 1 ELSE in_state

----------------------------------------------------------------------------
(* The main loop. *)

\* qsb_dev_poll(): the peripheral has sent a packet.
UsbDataTransmitted ==
    /\ rx_step = "poll" /\ ctr_tx
    /\ ctr_tx' = FALSE
    /\ in_state' = StateAfterPacket
    /\ UNCHANGED <<rxVars, needs_zlp, tx_timestamp, millis_count, turned, sending,
                   in_sw_buf, in_hw_buf, in_buf, in_filled, host_got, host_done>>

UsbSetMark == SetMark /\ UNCHANGED sendVars

UartPoll ==
    /\ RxPoll
    /\ turned' = TRUE
    /\ UNCHANGED <<needs_zlp, tx_timestamp, millis_count, sending, endpointVars>>

\* An overrun is reported (on_interrupt_occurred()) and ends the turn.
ReportOverrun == ~sending /\ TakeOverrun /\ UNCHANGED sendVars

\* Nothing to send, data held back, or both buffers busy.
HoldBack ==
    /\ SkipRead
    /\ ~rx_overrun_occurred /\ ~sending
    /\ ~WantsToSend \/ TransmitAvail = 0
    /\ UNCHANGED sendVars

\* There is something to send and a buffer free.
Decide ==
    /\ rx_step = "read"
    /\ ~rx_overrun_occurred /\ ~sending
    /\ WantsToSend /\ TransmitAvail # 0
    /\ sending' = TRUE
    /\ UNCHANGED <<rxVars, needs_zlp, tx_timestamp, millis_count, turned,
                   endpointVars>>

\* copy_rx_data() reads the counter of the DMA channel anew: what it finds need
\* not be what the decision was made on.
SendBegin ==
    /\ sending
    /\ ReadBegin
    /\ sending' = FALSE
    /\ tx_timestamp' = millis_count
    /\ UNCHANGED <<needs_zlp, millis_count, turned, endpointVars>>

SendEnd ==
    /\ ReadEnd
    /\ LET packet == CopiedBytes(reading.head, reading.len)
       IN  /\ needs_zlp' = NeedsZlp(Len(packet))
           /\ TransmitPacket(packet)
    /\ UNCHANGED <<tx_timestamp, millis_count, turned, sending, in_hw_buf, ctr_tx,
                   host_got, host_done>>

----------------------------------------------------------------------------
(* Interrupts and hardware. *)

\* sys_tick_handler().  A turn of the main loop takes less than a millisecond.
Tick ==
    /\ turned
    /\ turned' = FALSE
    /\ millis_count' = (millis_count + 1) % Clock
    /\ UNCHANGED <<rxVars, needs_zlp, tx_timestamp, sending, endpointVars>>

UartByte == RxByte /\ UNCHANGED sendVars

\* The host asks for a packet; the peripheral sends the older buffer.  It does
\* not send the next one before the driver has seen CTR_TX.
HostPacket ==
    /\ in_filled > 0 /\ ~ctr_tx
    /\ host_got' = host_got \o in_buf[in_hw_buf]
    /\ host_done' = IF Len(in_buf[in_hw_buf]) < MaxPacket THEN Len(host_got')
                                                         ELSE host_done
    /\ in_hw_buf' = 1 - in_hw_buf
    /\ in_filled' = in_filled - 1
    /\ ctr_tx' = TRUE
    /\ UNCHANGED <<rxVars, needs_zlp, tx_timestamp, millis_count, turned, sending,
                   in_state, in_sw_buf, in_buf>>

----------------------------------------------------------------------------
\* The state after on_usb_configured(), which sets tx_timestamp back so that
\* the first byte need not wait (it subtracts 100 ms).
Init ==
    /\ RxInit
    /\ needs_zlp = FALSE
    /\ millis_count = 0
    /\ tx_timestamp = (0 - TX_HOLDBACK_MAX_TIME) % Clock
    /\ turned = FALSE /\ sending = FALSE
    /\ in_state = dbl_buf_en_0_pkts
    /\ in_sw_buf = 0 /\ in_hw_buf = 0
    /\ in_buf = [b \in 0 .. 1 |-> <<>>]
    /\ in_filled = 0 /\ ctr_tx = FALSE
    /\ host_got = <<>> /\ host_done = 0

Send == ReportOverrun \/ HoldBack \/ Decide \/ SendBegin

Next == \/ UsbDataTransmitted \/ UsbSetMark \/ UartPoll \/ Send \/ SendEnd
        \/ Tick \/ UartByte \/ HostPacket

\* The main loop never stops and looks at the endpoint in each turn (CTR_TX
\* stays set until it does), time passes, and the host has a read pending.
Fairness ==
    /\ WF_vars(UartPoll) /\ WF_vars(Send) /\ WF_vars(SendEnd)
    /\ SF_vars(UsbDataTransmitted)
    /\ WF_vars(Tick) /\ WF_vars(HostPacket)

Spec == Init /\ [][Next]_vars /\ Fairness

----------------------------------------------------------------------------
(* Properties *)

TypeOK ==
    /\ RxTypeOK
    /\ needs_zlp \in BOOLEAN
    /\ tx_timestamp \in 0 .. Clock - 1 /\ millis_count \in 0 .. Clock - 1
    /\ turned \in BOOLEAN /\ sending \in BOOLEAN
    /\ in_state \in dbl_buf_en_0_pkts .. dbl_buf_en_2_pkts
    /\ in_sw_buf \in 0 .. 1 /\ in_hw_buf \in 0 .. 1
    /\ in_buf \in [0 .. 1 -> Seq(Int)] /\ \A b \in 0 .. 1 : Len(in_buf[b]) <= MaxPacket
    /\ in_filled \in 0 .. 2 /\ ctr_tx \in BOOLEAN
    /\ host_got \in Seq(Int) /\ host_done \in Nat

\* Driver and peripheral agree on the two packet buffers: the driver counts the
\* packets the peripheral has yet to complete, so that no buffer is filled while
\* it is being sent, and the buffer sent next is the one filled first.
EndpointAgrees ==
    /\ in_state - dbl_buf_en_0_pkts = in_filled + (IF ctr_tx THEN 1 ELSE 0)
    /\ in_sw_buf = (in_hw_buf + in_filled) % 2

\* A buffer is free for the packet that is being made or about to be.
FreeForCopy ==
    /\ sending => rx_step = "read"
    /\ sending \/ rx_step = "copy" => in_state # dbl_buf_en_2_pkts

\* The k-th packet buffer to be sent, from 0, and what the buffers hold.
Pending(k) == in_buf[(in_hw_buf + k) % 2]
InFlight == CASE in_filled = 0 -> <<>>
              [] in_filled = 1 -> Pending(0)
              [] in_filled = 2 -> Pending(0) \o Pending(1)

\* What has been taken from the ring the host has got, or will from the buffers.
NothingLost == copied = host_got \o InFlight

\* The k-th packet to be sent comes after one that does not end a transfer.
ContinuesTransfer(k) == IF k = 0 THEN host_done < Len(host_got)
                                 ELSE Len(Pending(k - 1)) = MaxPacket

\* A zero-length packet is due only while a transfer is to be completed.  A copy
\* that finds the ring empty is there to make one, or else the DMA channel has
\* gained a whole turn on the reader: the channel writes on between the two
\* readings of its counter, and a full ring looks like an empty one.
TransfersAgree ==
    /\ host_done <= Len(host_got)
    /\ needs_zlp => ContinuesTransfer(in_filled)
    /\ sending => needs_zlp \/ Unread > 0
    /\ rx_step = "copy" /\ RxLen(reading.head, rx_buf_tail) = 0
         => needs_zlp \/ Unread >= UART_RX_BUF_LEN

\* The inductive invariant of this part, given that of the receive side.
SendInv == TypeOK /\ EndpointAgrees /\ FreeForCopy /\ NothingLost /\ TransfersAgree

\* The bus is not flooded.  An empty packet is made only if one is due or the
\* ring has been overrun; with a peer that obeys RTS, whose bytes never overrun
\* it, every empty packet the host gets completes a transfer.
NoNeedlessPackets ==
    [][/\ in_filled' > in_filled /\ copied' = copied
            => needs_zlp \/ Unread >= UART_RX_BUF_LEN
       /\ peer = "obeys" /\ in_filled' < in_filled /\ in_buf[in_hw_buf] = <<>>
            => host_done < Len(host_got)]_vars

\* Every byte reaches the program on the host: its transfer is completed, by a
\* zero-length packet if need be, however few bytes follow.  (With finitely many
\* bytes: again and again none is outstanding.)
ReceivedIsDone == []<>(peer = "obeys" => host_done = received)

\* With a peer that obeys RTS the path implements the lossless pipe: what the ring
\* and the two packet buffers hold is its capacity.
PipeSent == IF peer = "obeys" THEN received ELSE 0
PipeOut == IF peer = "obeys" THEN host_got ELSE <<>>
Pipe == INSTANCE BytePipe WITH
            sent <- PipeSent,
            out <- PipeOut,
            MaxBlock <- MaxPacket,
            Capacity <- UART_RX_BUF_LEN - 1 + 2 * MaxPacket,
            MaxSent <- MaxReceived
PipeSpec == Pipe!Spec
PipeSafety == Pipe!Init /\ [][Pipe!Next]_<<PipeSent, PipeOut>>
=============================================================================
