---------------------------- MODULE UsbToSerial -----------------------------
(***************************************************************************)
(* The way of a byte from the USB host to the wire: the double-buffered    *)
(* OUT endpoint of the USB peripheral, its driver (qsb_drv_fsdev_plus.c),  *)
(* the data callback and the flow control of usb_serial.cpp, and the       *)
(* transmit side of the UART (UartTx).                                     *)
(*                                                                         *)
(* The firmware is one main loop (pc is its place in usb_serial.poll());   *)
(* the USB peripheral and the DMA channel run beside it and may step       *)
(* between any two of its steps.                                           *)
(***************************************************************************)
EXTENDS UartTx

CONSTANT RxDepth        \* packets the peripheral takes without being given a
                        \* buffer back: 1 if it answers NAK while DTOG_RX =
                        \* SW_BUF_RX, 2 if both buffers may fill up (the worst
                        \* case qsb_device.h documents)

VARIABLES
    pc,                 \* "usb": qsb_dev_poll, "uart": uart.poll, "nak": update_nak
    is_tx_high_water,
    rx,                 \* OUT endpoint: ep_state_rx, ep_outstanig_rx_acks, and
                        \* the hardware's count of buffers not given back
    ctr_rx,             \* CTR_RX of the endpoint register
    pma,                \* the two packet buffers: first byte and length
    pma_fill,           \* the one the hardware fills next
    host_sent           \* history: bytes the host has sent

usbVars == <<pc, is_tx_high_water, rx, ctr_rx, pma, pma_fill, host_sent>>
vars == <<txVars, usbVars>>

\* Two packet buffers of 64 bytes; "two more packages" below high water.
PmaBuffers == 0 .. 1
TX_USB_BUF_SIZE == 2 * MaxPacket

ASSUME FlowControlAssumption ==
    /\ UART_TX_BUF_LEN > TX_USB_BUF_SIZE
    /\ RxDepth \in 1 .. 2

\* ep_state_rx_e of a double-buffered endpoint; the low bit is the buffer the
\* next packet is in.
dbl_buf_ready_0 == 2
dbl_buf_ready_1 == 3
dbl_buf_paused_0 == 4
dbl_buf_paused_1 == 5

IsReady(r) == r.state \in {dbl_buf_ready_0, dbl_buf_ready_1}
IsPaused(r) == r.state \in {dbl_buf_paused_0, dbl_buf_paused_1}
BufferOf(r) == r.state % 2

----------------------------------------------------------------------------
(* The endpoint driver.  r is the endpoint's rx record. *)

\* qsb_dev_ep_pause(): packets are no longer acknowledged from now on.
Pause(r) == IF IsReady(r) THEN [r EXCEPT !.state = @ + 2] ELSE r

\* qsb_dev_ep_unpause(): gives back every buffer whose acknowledgement has
\* been withheld (one toggle of SW_BUF each).
Unpause(r) ==
    IF IsPaused(r)
    THEN [state |-> r.state - 2, acks |-> 0, unacked |-> r.unacked - r.acks]
    ELSE r

\* Mutant: a pause made by the callback is forgotten.
AfterCallbackReopens(r) ==
    [state   |-> IF BufferOf(r) = 0 THEN dbl_buf_ready_1 ELSE dbl_buf_ready_0,
     acks    |-> IF IsReady(r) THEN r.acks ELSE r.acks + 1,
     unacked |-> IF IsReady(r) THEN r.unacked - 1 ELSE r.unacked]

\* The end of the OUT branch of qsb_dev_poll(), after the callback.
AfterCallback(r) ==
    [state   |-> IF BufferOf(r) = 0 THEN r.state + 1 ELSE r.state - 1,
     acks    |-> IF IsReady(r) THEN r.acks ELSE r.acks + 1,
     unacked |-> IF IsReady(r) THEN r.unacked - 1 ELSE r.unacked]

\* Mutant: room for one packet only.
IsHighWaterLate(avail) == avail < MaxPacket

\* usb_serial_impl::update_nak() with avail bytes of room in the UART's ring.
IsHighWater(avail) == avail < TX_USB_BUF_SIZE
UpdateNak(r, avail) ==
    CASE IsHighWater(avail) /\ ~is_tx_high_water -> Pause(r)
      [] ~IsHighWater(avail) /\ is_tx_high_water -> Unpause(r)
      [] OTHER                                   -> r

----------------------------------------------------------------------------
(* The main loop. *)

\* qsb_dev_poll(), one turn of its CTR loop: the OUT packet is handed to
\* on_usb_data_received(), which passes it to uart.transmit() and updates the
\* flow control; an empty packet is only acknowledged.
UsbDataReceived ==
    /\ pc = "usb" /\ ctr_rx
    /\ LET packet == pma[BufferOf(rx)]
       IN  IF packet.len = 0
           THEN /\ rx' = AfterCallback(rx)
                /\ UNCHANGED <<txVars, is_tx_high_water>>
           ELSE /\ Transmit(packet.first, packet.len)
                /\ LET avail == TxAvail(tx_buf_head', tx_buf_tail)
                   IN  /\ rx' = AfterCallback(UpdateNak(rx, avail))
                       /\ is_tx_high_water' = IsHighWater(avail)
    /\ ctr_rx' = FALSE
    /\ UNCHANGED <<pc, pma, pma_fill, host_sent>>

\* A SET_LINE_CODING request handled by the same loop.
UsbLineCoding ==
    /\ pc = "usb"
    /\ SetCoding
    /\ UNCHANGED usbVars

\* No event left: the loop of qsb_dev_poll() ends.
UsbIdle ==
    /\ pc = "usb" /\ ~ctr_rx
    /\ pc' = "uart"
    /\ UNCHANGED <<txVars, is_tx_high_water, rx, ctr_rx, pma, pma_fill, host_sent>>

\* uart.poll().
UartPoll ==
    /\ pc = "uart"
    /\ PollTx
    /\ pc' = "nak"
    /\ UNCHANGED <<is_tx_high_water, rx, ctr_rx, pma, pma_fill, host_sent>>

\* Mutant: the main loop does not update the flow control.
PollNakMissing ==
    /\ pc = "nak"
    /\ pc' = "usb"
    /\ UNCHANGED <<txVars, is_tx_high_water, rx, ctr_rx, pma, pma_fill, host_sent>>

\* update_nak() in usb_serial_impl::poll().
PollNak ==
    /\ pc = "nak"
    /\ rx' = UpdateNak(rx, TxDataAvail)
    /\ is_tx_high_water' = IsHighWater(TxDataAvail)
    /\ pc' = "usb"
    /\ UNCHANGED <<txVars, ctr_rx, pma, pma_fill, host_sent>>

----------------------------------------------------------------------------
(* The hardware. *)

\* The peripheral accepts a packet into the next buffer unless the driver holds
\* the buffers or has not seen the packet before; else it answers NAK and the
\* host tries again.
HostPacket ==
    /\ ~ctr_rx /\ rx.unacked < RxDepth
    /\ \E len \in 0 .. MaxPacket :
          /\ host_sent + len <= MaxBytes
          /\ pma' = [pma EXCEPT ![pma_fill] = [first |-> host_sent, len |-> len]]
          /\ host_sent' = host_sent + len
    /\ pma_fill' = 1 - pma_fill
    /\ rx' = [rx EXCEPT !.unacked = @ + 1]
    /\ ctr_rx' = TRUE
    /\ UNCHANGED <<txVars, pc, is_tx_high_water>>

UartByte == DmaByte /\ UNCHANGED usbVars

----------------------------------------------------------------------------
\* The state after on_usb_configured(): SW_BUF is set, DTOG cleared, so that
\* the hardware fills buffer 0 first.
Init ==
    /\ TxInit
    /\ pc = "usb"
    /\ is_tx_high_water = FALSE
    /\ rx = [state |-> dbl_buf_ready_0, acks |-> 0, unacked |-> 0]
    /\ ctr_rx = FALSE
    /\ pma = [b \in PmaBuffers |-> [first |-> 0, len |-> 0]]
    /\ pma_fill = 0
    /\ host_sent = 0

MainLoop == UsbDataReceived \/ UsbIdle \/ UartPoll \/ PollNak

Next == MainLoop \/ UsbLineCoding \/ HostPacket \/ UartByte

\* The main loop never stops (main() is a while (1) without waiting), and the
\* peer lets the USART send (CTS).  A packet takes longer on the bus than in
\* the callback, so the CTR loop of qsb_dev_poll() ends again and again even
\* if the host sends without a break: strong fairness.  The host owes nothing.
Fairness ==
    /\ WF_vars(UsbDataReceived) /\ SF_vars(UsbIdle)
    /\ WF_vars(UartPoll) /\ WF_vars(PollNak)
    /\ WF_vars(UartByte)

Spec == Init /\ [][Next]_vars /\ Fairness

----------------------------------------------------------------------------
(* Properties *)

TypeOK ==
    /\ TxTypeOK
    /\ pc \in {"usb", "uart", "nak"}
    /\ is_tx_high_water \in BOOLEAN
    /\ rx \in [state : dbl_buf_ready_0 .. dbl_buf_paused_1,
               acks : 0 .. 2, unacked : 0 .. 2]
    /\ ctr_rx \in BOOLEAN
    /\ pma \in [PmaBuffers -> [first : Nat, len : 0 .. MaxPacket]]
    /\ pma_fill \in PmaBuffers
    /\ host_sent \in Nat

\* transmit() never has to discard: pausing at "two more packages" leaves room
\* for the packet that is still accepted after the pause.
NothingDiscarded == accepted = offered

\* A packet waiting in the endpoint always fits into the ring.
PendingLen == IF ctr_rx THEN pma[BufferOf(rx)].len ELSE 0
PendingFits == PendingLen <= TxDataAvail

\* The packet handed to the callback is the one received last: driver and
\* hardware agree on the buffer, and no byte is skipped or repeated.
EndpointInOrder ==
    /\ ctr_rx => pma[BufferOf(rx)].first = accepted
    /\ host_sent = accepted + PendingLen

\* Every buffer the hardware waits for is owed by exactly one withheld or one
\* upcoming acknowledgement: none is lost when pausing and unpausing.
AckAccounting == rx.unacked = rx.acks + (IF ctr_rx THEN 1 ELSE 0)

\* usb_serial's idea of the flow control is the driver's.
NakAgrees == is_tx_high_water = IsPaused(rx)

\* The buffer the hardware fills next is the one the driver reads next.
BufferAgreement == pma_fill = IF ctr_rx THEN 1 - BufferOf(rx) ELSE BufferOf(rx)

\* Room in the ring: for two packets while the endpoint is open, for the one
\* that may still come when the first one after the pause has been withheld.
Room ==
    IF is_tx_high_water
    THEN rx.acks \in 1 .. 2 /\ (rx.acks = 1 => MaxPacket <= TxDataAvail)
    ELSE rx.acks = 0 /\ TX_USB_BUF_SIZE <= TxDataAvail

\* The inductive invariant.
Inv == /\ TypeOK
       /\ TxInv
       /\ tx_base = 0
       /\ NothingDiscarded
       /\ EndpointInOrder
       /\ AckAccounting
       /\ NakAgrees
       /\ BufferAgreement
       /\ Room

\* Every byte the host has sent goes out on the wire, and an endpoint that
\* answers NAK takes a packet again: the host is never blocked for good.
HostBytesAreSent ==
    /\ \A n \in 1 .. MaxBytes : host_sent >= n ~> Len(wire) >= n
    /\ rx.unacked = RxDepth ~> rx.unacked < RxDepth

\* The whole path implements the lossless pipe, with the ring's capacity.
Pipe == INSTANCE BytePipe WITH
            sent <- host_sent, out <- wire, Capacity <- UART_TX_BUF_LEN - 1,
            MaxBlock <- MaxPacket, MaxSent <- MaxBytes
PipeSpec == Pipe!Spec
PipeSafety == Pipe!Init /\ [][Pipe!Next]_<<host_sent, wire>>
=============================================================================
