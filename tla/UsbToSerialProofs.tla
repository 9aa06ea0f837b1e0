------------------------- MODULE UsbToSerialProofs --------------------------
(* Theorems about the way from the USB host to the wire (UsbToSerial), for   *)
(* every ring, packet and chunk length.                                      *)
EXTENDS UsbToSerial, UartTxProofs

\* The four states of the endpoint and what they stand for.
LEMMA RxStates ==
    ASSUME NEW r, r.state \in dbl_buf_ready_0 .. dbl_buf_paused_1
    PROVE  /\ r.state \in {2, 3, 4, 5}
           /\ BufferOf(r) \in PmaBuffers
           /\ IsReady(r) <=> ~IsPaused(r)
           /\ IsReady(r) <=> r.state \in {2, 3}
           /\ BufferOf(r) = 0 <=> r.state \in {2, 4}
<1>1. r.state \in {2, 3, 4, 5}
  BY DEF dbl_buf_ready_0, dbl_buf_paused_1
<1>2. 2 % 2 = 0 /\ 3 % 2 = 1 /\ 4 % 2 = 0 /\ 5 % 2 = 1
  OBVIOUS
<1>3. /\ BufferOf(r) \in PmaBuffers
      /\ BufferOf(r) = 0 <=> r.state \in {2, 4}
  BY <1>1, <1>2 DEF BufferOf, PmaBuffers
<1> QED BY <1>1, <1>3 DEF IsReady, IsPaused, dbl_buf_ready_0, dbl_buf_ready_1,
                          dbl_buf_paused_0, dbl_buf_paused_1

\* Single values, for the arithmetic.
LEMMA RxFacts ==
    ASSUME TypeOK
    PROVE  /\ rx.state \in dbl_buf_ready_0 .. dbl_buf_paused_1
           /\ rx.acks \in 0 .. 2 /\ rx.unacked \in 0 .. 2
           /\ rx = [state |-> rx.state, acks |-> rx.acks, unacked |-> rx.unacked]
           /\ host_sent \in Nat
BY DEF TypeOK

LEMMA ConstantFacts ==
    /\ MaxPacket \in Nat /\ MaxPacket > 0
    /\ TX_USB_BUF_SIZE = 2 * MaxPacket /\ TX_USB_BUF_SIZE \in Nat
    /\ UART_TX_BUF_LEN \in Nat /\ UART_TX_BUF_LEN > 2 * MaxPacket
BY TxAssumption, FlowControlAssumption DEF TX_USB_BUF_SIZE

----------------------------------------------------------------------------
LEMMA InitInv == Init => Inv
<1> SUFFICES ASSUME Init PROVE Inv
  OBVIOUS
<1>1. TxInv /\ TxTypeOK
  BY TxInitInv DEF Init, TxInv
<1>2. rx = [state |-> 2, acks |-> 0, unacked |-> 0]
  BY DEF Init, dbl_buf_ready_0
<1>3. BufferOf(rx) = 0 /\ IsPaused(rx) = FALSE
  BY <1>2, RxStates DEF dbl_buf_ready_0, dbl_buf_paused_1, IsPaused,
                        dbl_buf_paused_0
<1>4. TypeOK
  <2>1. rx \in [state : dbl_buf_ready_0 .. dbl_buf_paused_1,
                acks : 0 .. 2, unacked : 0 .. 2]
    BY <1>2 DEF dbl_buf_ready_0, dbl_buf_paused_1
  <2>2. pma \in [PmaBuffers -> [first : Nat, len : 0 .. MaxPacket]]
    <3>1. [first |-> 0, len |-> 0] \in [first : Nat, len : 0 .. MaxPacket]
      BY ConstantFacts
    <3> QED BY <3>1 DEF Init
  <2>3. pc = "usb" /\ is_tx_high_water = FALSE /\ ctr_rx = FALSE
    BY DEF Init
  <2>4. pma_fill \in PmaBuffers /\ host_sent \in Nat
    BY DEF Init, PmaBuffers
  <2> QED BY <1>1, <2>1, <2>2, <2>3, <2>4 DEF TypeOK
<1>5. EndpointInOrder /\ NothingDiscarded /\ tx_base = 0
  BY DEF Init, TxInit, EndpointInOrder, PendingLen, NothingDiscarded
<1>6. AckAccounting /\ NakAgrees /\ BufferAgreement
  <2>1. ctr_rx = FALSE /\ is_tx_high_water = FALSE /\ pma_fill = 0
    BY DEF Init
  <2>2. AckAccounting
    BY <1>2, <2>1 DEF AckAccounting
  <2>3. NakAgrees /\ BufferAgreement
    BY <1>3, <2>1 DEF NakAgrees, BufferAgreement
  <2> QED BY <2>2, <2>3
<1>7. Room
  <2>1. TxDataAvail = UART_TX_BUF_LEN - 1
    BY ConstantFacts DEF Init, TxInit, TxDataAvail, TxAvail
  <2>2. rx.acks = 0 /\ is_tx_high_water = FALSE
    BY <1>2 DEF Init
  <2> QED BY <2>1, <2>2, ConstantFacts DEF Room
<1> QED BY <1>1, <1>4, <1>5, <1>6, <1>7 DEF Inv

----------------------------------------------------------------------------
(* The steps that leave the endpoint alone. *)

\* Room in the ring is an integer, now and after a step.
LEMMA AvailFacts ==
    ASSUME TxTypeOK
    PROVE  /\ TxDataAvail \in Int /\ Used \in Int
           /\ TxDataAvail = UART_TX_BUF_LEN - 1 - Used
<1>1. tx_buf_head \in Int /\ tx_buf_tail \in Int /\ UART_TX_BUF_LEN \in Int
  BY TxAssumption DEF TxTypeOK, Cells
<1> QED BY <1>1 DEF TxDataAvail, TxAvail, Used, UsedBetween

LEMMA AvailFactsNext ==
    ASSUME TxTypeOK'
    PROVE  /\ TxDataAvail' \in Int /\ Used' \in Int
           /\ TxDataAvail' = UART_TX_BUF_LEN - 1 - Used'
<1>1. tx_buf_head' \in Int /\ tx_buf_tail' \in Int /\ UART_TX_BUF_LEN \in Int
  BY TxAssumption DEF TxTypeOK, Cells
<1> QED BY <1>1 DEF TxDataAvail, TxAvail, Used, UsedBetween

\* A step of the UART that keeps what was accepted and frees or keeps cells
\* preserves the invariant of the endpoint.
LEMMA UartStepInv ==
    ASSUME Inv, TxInv', pc' \in {"usb", "uart", "nak"},
           UNCHANGED <<is_tx_high_water, rx, ctr_rx, pma, pma_fill, host_sent>>,
           UNCHANGED <<offered, accepted, tx_base>>,
           TxDataAvail <= TxDataAvail'
    PROVE  Inv'
<1>1. TypeOK'
  BY DEF Inv, TypeOK, TxInv
<1>2. NothingDiscarded' /\ tx_base' = 0
  BY DEF Inv, NothingDiscarded
<1>3. EndpointInOrder'
  BY DEF Inv, EndpointInOrder, PendingLen
<1>4. AckAccounting' /\ NakAgrees' /\ BufferAgreement'
  BY DEF Inv, AckAccounting, NakAgrees, BufferAgreement
<1>5. Room'
  <2>1. TxDataAvail \in Int /\ TxDataAvail' \in Int
    BY <1>1, AvailFacts, AvailFactsNext DEF Inv, TypeOK
  <2>2. rx' = rx /\ is_tx_high_water' = is_tx_high_water
    OBVIOUS
  <2>3. Room
    BY DEF Inv
  <2> QED BY <2>1, <2>2, <2>3, ConstantFacts DEF Room
<1> QED BY <1>1, <1>2, <1>3, <1>4, <1>5 DEF Inv

\* Completing a transfer frees cells; starting one takes none.
LEMMA PollTxFrees ==
    ASSUME TxInv, PollTx
    PROVE  Used' <= Used
<1>1. /\ UART_TX_BUF_LEN \in Nat /\ UART_TX_BUF_LEN > 1
      /\ tx_buf_head \in Cells /\ tx_buf_tail \in Cells /\ Used \in Nat
  BY TxFacts
<1>2. tx_buf_head' = tx_buf_head /\ tx_buf_tail' = TailAfterComplete
  BY DEF PollTx
<1>3. CASE ~xfer.tcif
  <2>1. Used' = Used
    BY <1>2, <1>3 DEF TailAfterComplete, Used
  <2> QED BY <1>1, <2>1
<1>4. CASE xfer.tcif
  <2>1. xfer.is_transmitting
    <3>1. Idle.tcif = FALSE
      BY DEF Idle
    <3> QED BY <1>4, <3>1 DEF TxInv, XferInv, XferOK
  <2>2. xfer.tx_size \in 1 .. Used /\ tx_buf_tail + xfer.tx_size <= UART_TX_BUF_LEN
    BY <2>1 DEF TxInv, XferInv, XferOK
  <2>3. tx_buf_tail' = TxWrap(tx_buf_tail + xfer.tx_size)
    BY <1>2, <1>4 DEF TailAfterComplete
  <2>4. /\ tx_buf_head \in Nat /\ tx_buf_head < UART_TX_BUF_LEN
        /\ tx_buf_tail \in Nat /\ tx_buf_tail < UART_TX_BUF_LEN
        /\ xfer.tx_size \in Nat /\ xfer.tx_size <= Used
    BY <1>1, <2>2 DEF Cells
  <2> QED BY <1>1, <1>2, <2>2, <2>3, <2>4
           DEF Used, UsedBetween, TxAvail, TxWrap
<1> QED BY <1>3, <1>4

LEMMA UsbIdleInv == Inv /\ UsbIdle => Inv'
<1> SUFFICES ASSUME Inv, UsbIdle PROVE Inv'
  OBVIOUS
<1>1. TxInv'
  BY DEF Inv, UsbIdle, TxInv, txVars, uartTxVars, TxTypeOK, WireInOrder,
         TxConservation, IdleOnlyWhenEmpty, XferInv, HeldInOrder, Used,
         UsedBetween, FirstHeld, Offset
<1>2. TxDataAvail' = TxDataAvail
  BY DEF UsbIdle, txVars, uartTxVars, TxDataAvail
<1>3. TxDataAvail \in Int
  BY AvailFacts DEF Inv, TypeOK
<1>4. TxDataAvail <= TxDataAvail'
  BY <1>2, <1>3
<1> QED BY <1>1, <1>4, UartStepInv DEF UsbIdle, txVars

LEMMA UsbLineCodingInv == Inv /\ UsbLineCoding => Inv'
<1> SUFFICES ASSUME Inv, UsbLineCoding PROVE Inv'
  OBVIOUS
<1>1. TxInv'
  BY SetCodingInv DEF Inv, UsbLineCoding
<1>2. TxDataAvail' = TxDataAvail
  BY DEF UsbLineCoding, SetCoding, TxDataAvail
<1>3. TxDataAvail \in Int
  BY AvailFacts DEF Inv, TypeOK
<1>4. TxDataAvail <= TxDataAvail'
  BY <1>2, <1>3
<1>5. pc' \in {"usb", "uart", "nak"}
  BY DEF Inv, TypeOK, UsbLineCoding, usbVars
<1> QED BY <1>1, <1>4, <1>5, UartStepInv DEF UsbLineCoding, SetCoding, usbVars

LEMMA UartByteInv == Inv /\ UartByte => Inv'
<1> SUFFICES ASSUME Inv, UartByte PROVE Inv'
  OBVIOUS
<1>1. TxInv'
  BY DmaByteInv DEF Inv, UartByte
<1>2. TxDataAvail' = TxDataAvail
  BY DEF UartByte, DmaByte, TxDataAvail
<1>3. TxDataAvail \in Int
  BY AvailFacts DEF Inv, TypeOK
<1>4. TxDataAvail <= TxDataAvail'
  BY <1>2, <1>3
<1>5. pc' \in {"usb", "uart", "nak"}
  BY DEF Inv, TypeOK, UartByte, usbVars
<1> QED BY <1>1, <1>4, <1>5, UartStepInv DEF UartByte, DmaByte, usbVars

LEMMA UartPollInv == Inv /\ UartPoll => Inv'
<1> SUFFICES ASSUME Inv, UartPoll PROVE Inv'
  OBVIOUS
<1>1. TxInv' /\ Used' <= Used
  BY PollTxInv, PollTxFrees DEF Inv, UartPoll
<1>2. TxDataAvail <= TxDataAvail'
  <2>1. TxTypeOK /\ TxTypeOK'
    BY <1>1 DEF Inv, TypeOK, TxInv
  <2>2. /\ TxDataAvail = UART_TX_BUF_LEN - 1 - Used /\ TxDataAvail \in Int
        /\ TxDataAvail' = UART_TX_BUF_LEN - 1 - Used' /\ TxDataAvail' \in Int
        /\ Used \in Int /\ Used' \in Int
    BY <2>1, AvailFacts, AvailFactsNext
  <2>3. \A n, u, v \in Int : v <= u => n - 1 - u <= n - 1 - v
    OBVIOUS
  <2>4. Used' <= Used /\ UART_TX_BUF_LEN \in Int
    BY <1>1, ConstantFacts
  <2>5. UART_TX_BUF_LEN - 1 - Used <= UART_TX_BUF_LEN - 1 - Used'
    BY <2>2, <2>3, <2>4
  <2> QED BY <2>2, <2>5
<1> QED BY <1>1, <1>2, UartStepInv DEF UartPoll, PollTx

----------------------------------------------------------------------------
(* The driver's calls, on the endpoint's record. *)

RxType == [state : dbl_buf_ready_0 .. dbl_buf_paused_1,
           acks : 0 .. 2, unacked : 0 .. 2]

\* qsb_dev_ep_pause() only closes the endpoint.
LEMMA PauseFacts ==
    ASSUME NEW r \in RxType, ~IsPaused(r), NEW p, p = Pause(r)
    PROVE  /\ p \in RxType
           /\ IsPaused(p) /\ BufferOf(p) = BufferOf(r)
           /\ p.acks = r.acks /\ p.unacked = r.unacked
<1>1. r.state \in dbl_buf_ready_0 .. dbl_buf_paused_1
  BY DEF RxType
<1>2. r.state \in {2, 3} /\ IsReady(r)
  BY <1>1, RxStates
<1>3. p = [r EXCEPT !.state = @ + 2]
  BY <1>2 DEF Pause
<1>4. p.state = r.state + 2 /\ p.acks = r.acks /\ p.unacked = r.unacked
      /\ p \in [state : Int, acks : 0 .. 2, unacked : 0 .. 2]
  BY <1>3 DEF RxType, dbl_buf_ready_0, dbl_buf_paused_1
<1>5. p.state \in dbl_buf_ready_0 .. dbl_buf_paused_1
  BY <1>2, <1>4 DEF dbl_buf_ready_0, dbl_buf_paused_1
<1>6. p \in RxType
  BY <1>4, <1>5 DEF RxType
<1>7. IsPaused(p)
  BY <1>2, <1>4 DEF IsPaused, dbl_buf_paused_0, dbl_buf_paused_1
<1>8. BufferOf(p) = BufferOf(r)
  <2>1. BufferOf(p) \in {0, 1} /\ BufferOf(r) \in {0, 1}
        /\ (BufferOf(p) = 0 <=> p.state \in {2, 4})
        /\ (BufferOf(r) = 0 <=> r.state \in {2, 4})
    BY <1>1, <1>5, RxStates DEF PmaBuffers
  <2> QED BY <1>2, <1>4, <2>1
<1> QED BY <1>4, <1>6, <1>7, <1>8

\* qsb_dev_ep_unpause() opens it and gives back what was withheld.
LEMMA UnpauseFacts ==
    ASSUME NEW r \in RxType, IsPaused(r), r.acks <= r.unacked,
           NEW p, p = Unpause(r)
    PROVE  /\ p \in RxType
           /\ ~IsPaused(p) /\ BufferOf(p) = BufferOf(r)
           /\ p.acks = 0 /\ p.unacked = r.unacked - r.acks
<1>1. /\ r.state \in dbl_buf_ready_0 .. dbl_buf_paused_1
      /\ r.acks \in 0 .. 2 /\ r.unacked \in 0 .. 2
  BY DEF RxType
<1>2. r.state \in {4, 5}
  BY <1>1, RxStates
<1>3. p = [state |-> r.state - 2, acks |-> 0, unacked |-> r.unacked - r.acks]
  BY DEF Unpause
<1>4. p.state = r.state - 2 /\ p.acks = 0 /\ p.unacked = r.unacked - r.acks
  BY <1>3
<1>5. p.state \in {2, 3} /\ p.state \in dbl_buf_ready_0 .. dbl_buf_paused_1
  BY <1>2, <1>4 DEF dbl_buf_ready_0, dbl_buf_paused_1
<1>6. p \in RxType
  <2>1. r.unacked - r.acks \in 0 .. 2
    BY <1>1
  <2>2. r.state - 2 \in dbl_buf_ready_0 .. dbl_buf_paused_1
    BY <1>4, <1>5
  <2> QED BY <1>3, <2>1, <2>2 DEF RxType
<1>7. ~IsPaused(p)
  BY <1>5, RxStates
<1>8. BufferOf(p) = BufferOf(r)
  <2>1. BufferOf(p) \in {0, 1} /\ BufferOf(r) \in {0, 1}
        /\ (BufferOf(p) = 0 <=> p.state \in {2, 4})
        /\ (BufferOf(r) = 0 <=> r.state \in {2, 4})
    BY <1>1, <1>5, RxStates DEF PmaBuffers
  <2> QED BY <1>2, <1>4, <2>1
<1> QED BY <1>4, <1>6, <1>7, <1>8

\* After the callback the next buffer is due; the acknowledgement of this one
\* is given if the endpoint is open and withheld if it is paused.
LEMMA AfterCallbackFacts ==
    ASSUME NEW r \in RxType, r.unacked = r.acks + 1, IsPaused(r) \/ r.acks = 0,
           NEW p, p = AfterCallback(r)
    PROVE  /\ p \in RxType
           /\ IsPaused(p) <=> IsPaused(r)
           /\ BufferOf(p) = 1 - BufferOf(r)
           /\ p.unacked = p.acks
           /\ p.acks = IF IsPaused(r) THEN r.acks + 1 ELSE 0
<1>1. /\ r.state \in dbl_buf_ready_0 .. dbl_buf_paused_1
      /\ r.acks \in 0 .. 2 /\ r.unacked \in 0 .. 2
  BY DEF RxType
<1>2. /\ r.state \in {2, 3, 4, 5} /\ BufferOf(r) \in {0, 1}
      /\ IsReady(r) <=> ~IsPaused(r)
      /\ IsReady(r) <=> r.state \in {2, 3}
      /\ BufferOf(r) = 0 <=> r.state \in {2, 4}
  BY <1>1, RxStates DEF PmaBuffers
<1>3. /\ p.state = IF BufferOf(r) = 0 THEN r.state + 1 ELSE r.state - 1
      /\ p.acks = IF IsReady(r) THEN r.acks ELSE r.acks + 1
      /\ p.unacked = IF IsReady(r) THEN r.unacked - 1 ELSE r.unacked
      /\ p = [state |-> p.state, acks |-> p.acks, unacked |-> p.unacked]
  BY DEF AfterCallback
<1>4. p.acks = IF IsPaused(r) THEN r.acks + 1 ELSE 0
  BY <1>2, <1>3
<1>5. p.unacked = p.acks
  BY <1>1, <1>2, <1>3
<1>6. p.acks \in 0 .. 2 /\ p.unacked \in 0 .. 2
  BY <1>1, <1>4, <1>5
<1>7. p.state \in {2, 3, 4, 5} /\ p.state \in dbl_buf_ready_0 .. dbl_buf_paused_1
  BY <1>2, <1>3 DEF dbl_buf_ready_0, dbl_buf_paused_1
<1>8. p \in RxType
  BY <1>3, <1>6, <1>7 DEF RxType
<1>9. /\ BufferOf(p) \in {0, 1}
      /\ IsReady(p) <=> ~IsPaused(p)
      /\ IsReady(p) <=> p.state \in {2, 3}
      /\ BufferOf(p) = 0 <=> p.state \in {2, 4}
  BY <1>7, RxStates DEF PmaBuffers
<1>10. (IsPaused(p) <=> IsPaused(r)) /\ BufferOf(p) = 1 - BufferOf(r)
  BY <1>2, <1>3, <1>7, <1>9
<1> QED BY <1>4, <1>5, <1>8, <1>10

----------------------------------------------------------------------------
(* The steps of the endpoint. *)

\* What Inv says, value by value.
LEMMA InvFacts ==
    ASSUME Inv
    PROVE  /\ TypeOK /\ TxTypeOK /\ TxInv /\ tx_base = 0
           /\ rx \in RxType
           /\ rx.acks \in 0 .. 2 /\ rx.unacked \in 0 .. 2
           /\ BufferOf(rx) \in PmaBuffers /\ pma_fill \in PmaBuffers
           /\ is_tx_high_water = IsPaused(rx)
           /\ is_tx_high_water \in BOOLEAN /\ ctr_rx \in BOOLEAN
           /\ ctr_rx => rx.unacked = rx.acks + 1
           /\ ~ctr_rx => rx.unacked = rx.acks
           /\ accepted = offered /\ accepted \in Nat /\ host_sent \in Nat
           /\ TxDataAvail \in Int
<1>1. TypeOK /\ TxTypeOK /\ TxInv /\ tx_base = 0
  BY DEF Inv, TypeOK
<1>2. /\ rx \in RxType /\ rx.acks \in 0 .. 2 /\ rx.unacked \in 0 .. 2
      /\ rx.state \in dbl_buf_ready_0 .. dbl_buf_paused_1
      /\ pma_fill \in PmaBuffers /\ host_sent \in Nat
      /\ is_tx_high_water \in BOOLEAN /\ ctr_rx \in BOOLEAN
  BY <1>1 DEF TypeOK, RxType
<1>3. BufferOf(rx) \in PmaBuffers
  BY <1>2, RxStates
<1>4. is_tx_high_water = IsPaused(rx)
  BY DEF Inv, NakAgrees
<1>5. /\ ctr_rx => rx.unacked = rx.acks + 1
      /\ ~ctr_rx => rx.unacked = rx.acks
  BY <1>2 DEF Inv, AckAccounting
<1>6. accepted = offered /\ accepted \in Nat
  BY <1>1 DEF Inv, NothingDiscarded, TxTypeOK
<1>7. TxDataAvail \in Int
  BY <1>1, AvailFacts
<1> QED BY <1>1, <1>2, <1>3, <1>4, <1>5, <1>6, <1>7

\* update_nak() in the main loop: an open endpoint has room for two packets
\* and stays open, a paused one is opened when the room is back.
LEMMA PollNakInv == Inv /\ PollNak => Inv'
<1> SUFFICES ASSUME Inv, PollNak PROVE Inv'
  OBVIOUS
<1>1. /\ rx' = UpdateNak(rx, TxDataAvail)
      /\ is_tx_high_water' = IsHighWater(TxDataAvail)
      /\ pc' = "usb"
      /\ UNCHANGED <<ctr_rx, pma, pma_fill, host_sent>>
      /\ UNCHANGED <<offered, accepted, tx_base>>
  BY DEF PollNak, txVars
<1>2. TxInv' /\ TxTypeOK' /\ TxDataAvail' = TxDataAvail
  BY InvFacts DEF PollNak, txVars, uartTxVars, TxInv, TxTypeOK, WireInOrder,
     TxConservation, IdleOnlyWhenEmpty, XferInv, HeldInOrder, Used,
     UsedBetween, FirstHeld, Offset, TxDataAvail
<1>3. /\ rx' \in RxType
      /\ is_tx_high_water' = IsPaused(rx')
      /\ is_tx_high_water' \in BOOLEAN
      /\ BufferOf(rx') = BufferOf(rx)
      /\ ctr_rx => rx'.unacked = rx'.acks + 1
      /\ ~ctr_rx => rx'.unacked = rx'.acks
      /\ IF is_tx_high_water'
         THEN rx'.acks \in 1 .. 2 /\ (rx'.acks = 1 => MaxPacket <= TxDataAvail)
         ELSE rx'.acks = 0 /\ TX_USB_BUF_SIZE <= TxDataAvail
  <2>1. Room
    BY DEF Inv
  <2>2. CASE ~is_tx_high_water
    <3>1. ~IsHighWater(TxDataAvail)
      BY <2>1, <2>2, InvFacts, ConstantFacts DEF Room, IsHighWater
    <3>2. rx' = rx /\ is_tx_high_water' = FALSE
      BY <1>1, <2>2, <3>1 DEF UpdateNak
    <3> QED BY <2>1, <2>2, <3>2, InvFacts DEF Room
  <2>3. CASE is_tx_high_water /\ IsHighWater(TxDataAvail)
    <3>1. rx' = rx /\ is_tx_high_water' = TRUE
      BY <1>1, <2>3 DEF UpdateNak
    <3>2. IsPaused(rx) = TRUE
      BY <2>3, InvFacts
    <3> QED BY <2>1, <2>3, <3>1, <3>2, InvFacts DEF Room
  <2>4. CASE is_tx_high_water /\ ~IsHighWater(TxDataAvail)
    <3>1. rx' = Unpause(rx) /\ is_tx_high_water' = FALSE
      BY <1>1, <2>4 DEF UpdateNak
    <3>2. rx \in RxType /\ IsPaused(rx) /\ rx.acks \in 0 .. 2
          /\ rx.unacked \in 0 .. 2
          /\ (ctr_rx => rx.unacked = rx.acks + 1)
          /\ (~ctr_rx => rx.unacked = rx.acks)
          /\ ctr_rx \in BOOLEAN
      BY <2>4, InvFacts
    <3>3. rx.acks <= rx.unacked
      BY <3>2
    <3>4. /\ rx' \in RxType /\ ~IsPaused(rx') /\ BufferOf(rx') = BufferOf(rx)
          /\ rx'.acks = 0 /\ rx'.unacked = rx.unacked - rx.acks
      BY <3>1, <3>2, <3>3, UnpauseFacts
    <3>5. TX_USB_BUF_SIZE <= TxDataAvail
      BY <2>4, InvFacts, ConstantFacts DEF IsHighWater
    <3>6. (ctr_rx => rx'.unacked = rx'.acks + 1)
          /\ (~ctr_rx => rx'.unacked = rx'.acks)
      BY <3>2, <3>4
    <3>7. IsPaused(rx') = FALSE
      BY <3>4 DEF IsPaused
    <3> QED BY <3>1, <3>4, <3>5, <3>6, <3>7
  <2> QED BY <2>2, <2>3, <2>4
<1>4. TypeOK'
  BY <1>1, <1>2, <1>3, InvFacts DEF TypeOK, RxType
<1>5. NothingDiscarded' /\ tx_base' = 0
  BY <1>1, InvFacts DEF Inv, NothingDiscarded
<1>6. EndpointInOrder'
  BY <1>1, <1>3 DEF Inv, EndpointInOrder, PendingLen
<1>7. AckAccounting'
  <2>1. rx'.unacked \in Int /\ rx'.acks \in Int
    BY <1>3 DEF RxType
  <2> QED BY <1>1, <1>3, <2>1 DEF AckAccounting
<1>8. NakAgrees' /\ BufferAgreement'
  BY <1>1, <1>3 DEF Inv, NakAgrees, BufferAgreement
<1>9. Room'
  BY <1>2, <1>3 DEF Room
<1> QED BY <1>2, <1>4, <1>5, <1>6, <1>7, <1>8, <1>9 DEF Inv

\* The hardware takes a packet only while it may.
LEMMA HostPacketInv == Inv /\ HostPacket => Inv'
<1> SUFFICES ASSUME Inv, HostPacket PROVE Inv'
  OBVIOUS
<1>1. PICK len \in 0 .. MaxPacket :
          /\ pma' = [pma EXCEPT ![pma_fill] = [first |-> host_sent, len |-> len]]
          /\ host_sent' = host_sent + len
  BY DEF HostPacket
<1>2. /\ ~ctr_rx /\ rx.unacked < 2 /\ ctr_rx' = TRUE
      /\ pma_fill' = 1 - pma_fill
      /\ rx' = [rx EXCEPT !.unacked = @ + 1]
      /\ UNCHANGED <<pc, is_tx_high_water>>
      /\ UNCHANGED <<offered, accepted, tx_base>>
  <2>1. rx.unacked < 2
    BY InvFacts, FlowControlAssumption DEF HostPacket
  <2> QED BY <2>1 DEF HostPacket, txVars
<1>3. TxInv' /\ TxTypeOK' /\ TxDataAvail' = TxDataAvail
  BY InvFacts DEF HostPacket, txVars, uartTxVars, TxInv, TxTypeOK, WireInOrder,
     TxConservation, IdleOnlyWhenEmpty, XferInv, HeldInOrder, Used,
     UsedBetween, FirstHeld, Offset, TxDataAvail
<1>4. /\ rx' \in RxType /\ rx'.state = rx.state /\ rx'.acks = rx.acks
      /\ rx'.unacked = rx'.acks + 1
  <2>1. /\ rx'.state = rx.state /\ rx'.acks = rx.acks
        /\ rx'.unacked = rx.unacked + 1
    BY <1>2, InvFacts DEF RxType
  <2>2. rx.unacked + 1 \in 0 .. 2
    BY <1>2, InvFacts
  <2>3. rx' \in RxType
    BY <1>2, <2>2, InvFacts DEF RxType
  <2> QED BY <1>2, <2>1, <2>3, InvFacts
<1>5. BufferOf(rx') = BufferOf(rx) /\ IsPaused(rx') = IsPaused(rx)
  BY <1>4 DEF BufferOf, IsPaused
<1>6. pma_fill = BufferOf(rx) /\ pma_fill \in PmaBuffers
  BY <1>2, InvFacts DEF Inv, BufferAgreement
<1>7. /\ pma' \in [PmaBuffers -> [first : Nat, len : 0 .. MaxPacket]]
      /\ pma'[BufferOf(rx')] = [first |-> host_sent, len |-> len]
  <2>1. pma \in [PmaBuffers -> [first : Nat, len : 0 .. MaxPacket]]
    BY InvFacts DEF TypeOK
  <2>2. [first |-> host_sent, len |-> len] \in [first : Nat, len : 0 .. MaxPacket]
    BY InvFacts
  <2> QED BY <1>1, <1>5, <1>6, <2>1, <2>2
<1>8. host_sent = accepted
  BY <1>2, InvFacts DEF Inv, EndpointInOrder, PendingLen
<1>9. TypeOK'
  <2>1. pma_fill' \in PmaBuffers
    BY <1>2, <1>6 DEF PmaBuffers
  <2>2. host_sent' \in Nat
    BY <1>1, InvFacts, ConstantFacts
  <2>3. pc' \in {"usb", "uart", "nak"} /\ is_tx_high_water' \in BOOLEAN
        /\ ctr_rx' \in BOOLEAN
    BY <1>2, InvFacts DEF TypeOK
  <2> QED BY <1>3, <1>4, <1>7, <2>1, <2>2, <2>3 DEF TypeOK, RxType
<1>10. NothingDiscarded' /\ tx_base' = 0
  BY <1>2, InvFacts DEF Inv, NothingDiscarded
<1>11. EndpointInOrder'
  BY <1>1, <1>2, <1>7, <1>8 DEF EndpointInOrder, PendingLen
<1>12. AckAccounting'
  BY <1>2, <1>4 DEF AckAccounting
<1>13. NakAgrees' /\ BufferAgreement'
  BY <1>2, <1>5, <1>6, InvFacts DEF NakAgrees, BufferAgreement
<1>14. Room'
  BY <1>2, <1>3, <1>4 DEF Inv, Room
<1> QED BY <1>3, <1>9, <1>10, <1>11, <1>12, <1>13, <1>14 DEF Inv

\* A packet in the endpoint fits into the ring.
LEMMA Fits ==
    ASSUME Inv, ctr_rx
    PROVE  /\ pma[BufferOf(rx)].len \in 0 .. MaxPacket
           /\ pma[BufferOf(rx)].first = accepted
           /\ host_sent = accepted + pma[BufferOf(rx)].len
           /\ pma[BufferOf(rx)].len <= TxDataAvail
           /\ IsPaused(rx) => rx.acks = 1
           /\ ~IsPaused(rx) => rx.acks = 0 /\ TX_USB_BUF_SIZE <= TxDataAvail
<1>1. pma[BufferOf(rx)].len \in 0 .. MaxPacket
  BY InvFacts DEF TypeOK
<1>2. /\ pma[BufferOf(rx)].first = accepted
      /\ host_sent = accepted + pma[BufferOf(rx)].len
  BY DEF Inv, EndpointInOrder, PendingLen
<1>3. /\ rx.acks \in 0 .. 2 /\ rx.unacked \in 0 .. 2 /\ TxDataAvail \in Int
      /\ rx.unacked = rx.acks + 1
      /\ is_tx_high_water = IsPaused(rx)
  BY InvFacts
<1>4. Room
  BY DEF Inv
<1>5. CASE is_tx_high_water
  <2>1. rx.acks = 1
    BY <1>3, <1>4, <1>5 DEF Room
  <2> QED BY <1>1, <1>2, <1>3, <1>4, <1>5, <2>1, ConstantFacts DEF Room
<1>6. CASE ~is_tx_high_water
  <2>1. rx.acks = 0 /\ TX_USB_BUF_SIZE <= TxDataAvail
    BY <1>4, <1>6 DEF Room
  <2> QED BY <1>1, <1>2, <1>3, <1>6, <2>1, ConstantFacts
<1> QED BY <1>5, <1>6

\* What is left of the proof of UsbDataReceivedInv when the ring, the flow
\* control and the endpoint's record are known.
LEMMA ReceivedStep ==
    ASSUME Inv, ctr_rx, TxInv', ctr_rx' = FALSE,
           UNCHANGED <<pc, pma, pma_fill, host_sent>>,
           tx_base' = 0, accepted' = offered', accepted' = host_sent,
           NEW r \in RxType, r.unacked = r.acks + 1,
           IsPaused(r) \/ r.acks = 0,
           IsPaused(r) => r.acks \in 0 .. 1,
           IsPaused(r) /\ r.acks = 0 => MaxPacket <= TxDataAvail',
           ~IsPaused(r) => TX_USB_BUF_SIZE <= TxDataAvail',
           BufferOf(r) = BufferOf(rx),
           rx' = AfterCallback(r), is_tx_high_water' = IsPaused(r),
           is_tx_high_water' \in BOOLEAN
    PROVE  Inv'
<1>1. /\ rx' \in RxType
      /\ IsPaused(rx') <=> IsPaused(r)
      /\ BufferOf(rx') = 1 - BufferOf(r)
      /\ rx'.unacked = rx'.acks
      /\ rx'.acks = IF IsPaused(r) THEN r.acks + 1 ELSE 0
  BY AfterCallbackFacts
<1>2. TypeOK'
  <2>1. pc \in {"usb", "uart", "nak"} /\ pma_fill \in PmaBuffers /\ host_sent \in Nat
        /\ pma \in [PmaBuffers -> [first : Nat, len : 0 .. MaxPacket]]
    BY DEF Inv, TypeOK
  <2> QED BY <1>1, <2>1 DEF TypeOK, RxType, TxInv
<1>3. NothingDiscarded'
  BY DEF NothingDiscarded
<1>4. EndpointInOrder'
  <2>1. accepted' = host_sent' /\ PendingLen' = 0 /\ host_sent' \in Nat
    BY InvFacts DEF PendingLen
  <2> QED BY <2>1 DEF EndpointInOrder
<1>5. AckAccounting'
  <2>1. rx'.acks \in Int
    BY <1>1 DEF RxType
  <2> QED BY <1>1, <2>1 DEF AckAccounting
<1>6. NakAgrees'
  <2>1. IsPaused(rx') \in BOOLEAN /\ IsPaused(r) \in BOOLEAN
    BY DEF IsPaused
  <2> QED BY <1>1, <2>1 DEF NakAgrees
<1>7. BufferAgreement'
  <2>1. pma_fill = 1 - BufferOf(rx)
    BY DEF Inv, BufferAgreement
  <2> QED BY <1>1, <2>1 DEF BufferAgreement
<1>8. Room'
  <2>1. rx'.acks \in Int /\ r.acks \in Int
    BY <1>1 DEF RxType
  <2>2. CASE IsPaused(r)
    <3>1. is_tx_high_water' /\ rx'.acks = r.acks + 1 /\ r.acks \in 0 .. 1
      BY <1>1, <2>2
    <3>2. rx'.acks \in 1 .. 2 /\ (rx'.acks = 1 => MaxPacket <= TxDataAvail')
      BY <2>1, <2>2, <3>1
    <3> QED BY <3>1, <3>2 DEF Room
  <2>3. CASE ~IsPaused(r)
    BY <1>1, <2>3 DEF Room
  <2> QED BY <2>2, <2>3
<1> QED BY <1>2, <1>3, <1>4, <1>5, <1>6, <1>7, <1>8 DEF Inv

\* The packet in the endpoint fits; after it there is room for the one that
\* may still come.
LEMMA UsbDataReceivedInv == Inv /\ UsbDataReceived => Inv'
<1> SUFFICES ASSUME Inv, UsbDataReceived PROVE Inv'
  OBVIOUS
<1> DEFINE packet == pma[BufferOf(rx)]
<1>1. ctr_rx /\ ctr_rx' = FALSE /\ UNCHANGED <<pc, pma, pma_fill, host_sent>>
  BY DEF UsbDataReceived
<1>2. /\ packet.len \in 0 .. MaxPacket
      /\ packet.first = accepted
      /\ host_sent = accepted + packet.len
      /\ packet.len <= TxDataAvail
      /\ IsPaused(rx) => rx.acks = 1
      /\ ~IsPaused(rx) => rx.acks = 0 /\ TX_USB_BUF_SIZE <= TxDataAvail
  BY <1>1, Fits
<1>3. /\ TxInv /\ rx \in RxType /\ rx.unacked = rx.acks + 1 /\ tx_base = 0
      /\ is_tx_high_water = IsPaused(rx) /\ is_tx_high_water \in BOOLEAN
      /\ accepted = offered /\ accepted \in Nat /\ TxDataAvail \in Int
      /\ rx.acks \in 0 .. 2 /\ rx.unacked \in 0 .. 2
  BY <1>1, InvFacts
<1>4. CASE packet.len = 0
  <2>1. /\ rx' = AfterCallback(rx) /\ is_tx_high_water' = is_tx_high_water
        /\ UNCHANGED txVars
    BY <1>4 DEF UsbDataReceived
  <2>2. TxInv' /\ TxDataAvail' = TxDataAvail
    BY <1>3, <2>1 DEF txVars, uartTxVars, TxInv, TxTypeOK, WireInOrder,
       TxConservation, IdleOnlyWhenEmpty, XferInv, HeldInOrder, Used,
       UsedBetween, FirstHeld, Offset, TxDataAvail
  <2>3. tx_base' = 0 /\ accepted' = offered' /\ accepted' = host_sent
    BY <1>2, <1>3, <1>4, <2>1 DEF txVars
  <2>4. /\ IsPaused(rx) \/ rx.acks = 0
        /\ IsPaused(rx) => rx.acks \in 0 .. 1
        /\ ~(IsPaused(rx) /\ rx.acks = 0)
        /\ ~IsPaused(rx) => TX_USB_BUF_SIZE <= TxDataAvail'
    BY <1>2, <2>2
  <2>5. is_tx_high_water' = IsPaused(rx) /\ is_tx_high_water' \in BOOLEAN
    BY <1>3, <2>1
  <2> QED BY <1>1, <1>3, <2>1, <2>2, <2>3, <2>4, <2>5, ReceivedStep
<1>5. CASE packet.len # 0
  <2> DEFINE avail == TxAvail(tx_buf_head', tx_buf_tail)
             r == UpdateNak(rx, avail)
  <2>1. /\ Transmit(accepted, packet.len)
        /\ rx' = AfterCallback(r)
        /\ is_tx_high_water' = IsHighWater(avail)
    BY <1>2, <1>5 DEF UsbDataReceived
  <2>2. packet.len \in Nat /\ packet.len <= MaxPacket
    BY <1>2, ConstantFacts
  <2>3. /\ TxInv'
        /\ accepted' = accepted + Lesser(packet.len, TxDataAvail)
        /\ Used' = Used + Lesser(packet.len, TxDataAvail)
    BY <1>3, <2>1, <2>2, TransmitInv
  <2>4. Lesser(packet.len, TxDataAvail) = packet.len
    BY <1>2 DEF Lesser
  <2>5. accepted' = accepted + packet.len /\ Used' = Used + packet.len
    BY <2>3, <2>4
  <2>6. avail = TxDataAvail' /\ offered' = offered + packet.len /\ tx_base' = tx_base
    BY <2>1 DEF Transmit, TxDataAvail
  <2> HIDE DEF packet, avail, r
  <2>7. TxDataAvail' = TxDataAvail - packet.len /\ TxDataAvail' \in Int
    <3>1. /\ TxDataAvail' = UART_TX_BUF_LEN - 1 - Used' /\ TxDataAvail' \in Int
          /\ TxDataAvail = UART_TX_BUF_LEN - 1 - Used /\ Used \in Int
      BY <1>3, <2>3, AvailFacts, AvailFactsNext DEF TxInv
    <3>2. \A n, u, p \in Int : n - 1 - (u + p) = n - 1 - u - p
      OBVIOUS
    <3>3. UART_TX_BUF_LEN - 1 - (Used + packet.len)
             = UART_TX_BUF_LEN - 1 - Used - packet.len
      BY <2>2, <3>1, <3>2, ConstantFacts
    <3> QED BY <2>5, <3>1, <3>3
  <2>8. accepted' = offered' /\ accepted' = host_sent /\ tx_base' = 0
    BY <1>2, <1>3, <2>5, <2>6
  <2>9. r = UpdateNak(rx, TxDataAvail')
    BY <2>6 DEF r
  <2>10. is_tx_high_water' = IsHighWater(TxDataAvail') /\ is_tx_high_water' \in BOOLEAN
    BY <2>1, <2>6 DEF IsHighWater
  <2>11. IsHighWater(TxDataAvail') <=> TxDataAvail' < 2 * MaxPacket
    BY ConstantFacts DEF IsHighWater
  <2>12. CASE ~IsPaused(rx)
    <3>1. is_tx_high_water = FALSE /\ rx.acks = 0
      BY <1>2, <1>3, <2>12
    <3>2. MaxPacket <= TxDataAvail'
      BY <1>2, <1>3, <2>2, <2>7, <2>12, ConstantFacts
    <3>3. CASE IsHighWater(TxDataAvail')
      <4>1. r = Pause(rx) /\ is_tx_high_water' = TRUE
        BY <2>9, <2>10, <3>1, <3>3 DEF UpdateNak
      <4>2. /\ r \in RxType /\ IsPaused(r) = TRUE /\ BufferOf(r) = BufferOf(rx)
            /\ r.acks = 0 /\ r.unacked = 1
        BY <1>3, <2>12, <3>1, <4>1, PauseFacts DEF IsPaused
      <4>3. r.unacked = r.acks + 1 /\ r.acks \in 0 .. 1
        BY <4>2
      <4>4. rx' = AfterCallback(r) /\ is_tx_high_water' = IsPaused(r)
            /\ IsPaused(r)
        BY <2>1, <4>1, <4>2
      <4> QED BY <1>1, <2>3, <2>8, <2>10, <3>2, <4>2, <4>3, <4>4, ReceivedStep
    <3>4. CASE ~IsHighWater(TxDataAvail')
      <4>1. r = rx /\ is_tx_high_water' = FALSE
        BY <2>9, <2>10, <3>1, <3>4 DEF UpdateNak
      <4>2. TX_USB_BUF_SIZE <= TxDataAvail' /\ IsPaused(rx) = FALSE
        BY <2>7, <2>11, <2>12, <3>4, ConstantFacts DEF IsPaused
      <4>3. rx.unacked = rx.acks + 1 /\ rx \in RxType
        BY <1>3
      <4>4. rx' = AfterCallback(rx) /\ is_tx_high_water' = IsPaused(rx)
        BY <2>1, <4>1, <4>2
      <4> QED BY <1>1, <2>3, <2>8, <2>10, <2>12, <3>1, <4>2, <4>3, <4>4,
                 ReceivedStep
    <3> QED BY <3>3, <3>4
  <2>13. CASE IsPaused(rx)
    <3>1. is_tx_high_water = TRUE /\ rx.acks = 1 /\ rx.unacked = 2
      <4>1. rx.acks = 1 /\ rx.unacked = 2
        BY <1>2, <1>3, <2>13
      <4>2. is_tx_high_water = TRUE
        BY <1>3, <2>13 DEF IsPaused
      <4> QED BY <4>1, <4>2
    <3>2. CASE IsHighWater(TxDataAvail')
      <4>1. r = rx /\ is_tx_high_water' = TRUE
        BY <2>9, <2>10, <3>1, <3>2 DEF UpdateNak
      <4>2. IsPaused(rx) = TRUE
        BY <2>13 DEF IsPaused
      <4>3. rx.unacked = rx.acks + 1 /\ rx \in RxType
        BY <1>3
      <4>4. rx' = AfterCallback(rx) /\ is_tx_high_water' = IsPaused(rx)
        BY <2>1, <4>1, <4>2
      <4>5. rx.acks \in 0 .. 1 /\ rx.acks # 0
        BY <3>1
      <4> QED BY <1>1, <2>3, <2>8, <2>10, <2>13, <4>3, <4>4, <4>5, ReceivedStep
    <3>3. CASE ~IsHighWater(TxDataAvail')
      <4>1. r = Unpause(rx) /\ is_tx_high_water' = FALSE
        BY <2>9, <2>10, <3>1, <3>3 DEF UpdateNak
      <4>2. /\ r \in RxType /\ IsPaused(r) = FALSE /\ BufferOf(r) = BufferOf(rx)
            /\ r.acks = 0 /\ r.unacked = 1
        BY <1>3, <2>13, <3>1, <4>1, UnpauseFacts DEF IsPaused
      <4>3. TX_USB_BUF_SIZE <= TxDataAvail'
        BY <2>7, <2>11, <3>3, ConstantFacts
      <4>4. rx' = AfterCallback(r) /\ is_tx_high_water' = IsPaused(r)
            /\ ~IsPaused(r)
        BY <2>1, <4>1, <4>2
      <4>5. r.unacked = r.acks + 1
        BY <4>2
      <4> QED BY <1>1, <2>3, <2>8, <2>10, <4>2, <4>3, <4>4, <4>5, ReceivedStep
    <3> QED BY <3>2, <3>3
  <2> QED BY <2>12, <2>13
<1> QED BY <1>4, <1>5

----------------------------------------------------------------------------
(* The theorems. *)

LEMMA NextInv == Inv /\ [Next]_vars => Inv'
<1> SUFFICES ASSUME Inv, [Next]_vars PROVE Inv'
  OBVIOUS
<1>1. CASE UsbDataReceived
  BY <1>1, UsbDataReceivedInv
<1>2. CASE UsbIdle
  BY <1>2, UsbIdleInv
<1>3. CASE UartPoll
  BY <1>3, UartPollInv
<1>4. CASE PollNak
  BY <1>4, PollNakInv
<1>5. CASE UsbLineCoding
  BY <1>5, UsbLineCodingInv
<1>6. CASE HostPacket
  BY <1>6, HostPacketInv
<1>7. CASE UartByte
  BY <1>7, UartByteInv
<1>8. CASE UNCHANGED vars
  <2>1. UNCHANGED txVars /\ UNCHANGED usbVars
    BY <1>8 DEF vars
  <2>2. TxInv' /\ TxDataAvail' = TxDataAvail
    BY <2>1, InvFacts DEF txVars, uartTxVars, TxInv, TxTypeOK, WireInOrder,
       TxConservation, IdleOnlyWhenEmpty, XferInv, HeldInOrder, Used,
       UsedBetween, FirstHeld, Offset, TxDataAvail
  <2>3. TxDataAvail <= TxDataAvail'
    BY <2>2, InvFacts
  <2>4. pc' \in {"usb", "uart", "nak"}
    BY <2>1, InvFacts DEF usbVars, TypeOK
  <2> QED BY <2>1, <2>2, <2>3, <2>4, UartStepInv DEF txVars, usbVars
<1> QED BY <1>1, <1>2, <1>3, <1>4, <1>5, <1>6, <1>7, <1>8 DEF Next, MainLoop

\* The inductive invariant of the composed system.
THEOREM Invariant == Spec => []Inv
<1>1. Init => Inv
  BY InitInv
<1>2. Inv /\ [Next]_vars => Inv'
  BY NextInv
<1> QED BY <1>1, <1>2, PTL DEF Spec

\* Type correctness.
THEOREM TypeCorrect == Spec => []TypeOK
<1>1. Inv => TypeOK
  BY DEF Inv
<1> QED BY <1>1, Invariant, PTL

\* Flow control works: transmit() never discards a byte, however fast the host
\* sends and however slow the UART is.
THEOREM NothingIsDiscarded == Spec => []NothingDiscarded
<1>1. Inv => NothingDiscarded
  BY DEF Inv
<1> QED BY <1>1, Invariant, PTL

\* A packet the endpoint has accepted always finds room in the ring.
THEOREM PacketsFit == Spec => []PendingFits
<1>1. Inv => PendingFits
  <2> SUFFICES ASSUME Inv PROVE PendingFits
    OBVIOUS
  <2>1. CASE ctr_rx
    BY <2>1, Fits DEF PendingFits, PendingLen
  <2>2. CASE ~ctr_rx
    <3>1. Used < UART_TX_BUF_LEN /\ TxDataAvail = UART_TX_BUF_LEN - 1 - Used
          /\ Used \in Int
      BY InvFacts, TxFacts, AvailFacts
    <3>2. \A n, u \in Int : u < n => 0 <= n - 1 - u
      OBVIOUS
    <3>3. 0 <= TxDataAvail
      BY <3>1, <3>2, ConstantFacts
    <3> QED BY <2>2, <3>3 DEF PendingFits, PendingLen
  <2> QED BY <2>1, <2>2
<1> QED BY <1>1, Invariant, PTL

\* Driver and peripheral agree on the packet buffer, byte for byte.
THEOREM EndpointIsInOrder == Spec => []EndpointInOrder
<1>1. Inv => EndpointInOrder
  BY DEF Inv
<1> QED BY <1>1, Invariant, PTL

\* No acknowledgement is lost or given twice by pausing and unpausing.
THEOREM AcksAreAccounted == Spec => []AckAccounting
<1>1. Inv => AckAccounting
  BY DEF Inv
<1> QED BY <1>1, Invariant, PTL

\* usb_serial and the driver never disagree about the flow control.
THEOREM NakAgreement == Spec => []NakAgrees
<1>1. Inv => NakAgrees
  BY DEF Inv
<1> QED BY <1>1, Invariant, PTL

\* The bytes leave in the order the host sent them.
THEOREM HostFifo == Spec => []WireInOrder
<1>1. Inv => WireInOrder
  BY DEF Inv, TxInv
<1> QED BY <1>1, Invariant, PTL

----------------------------------------------------------------------------
(* The path implements the lossless pipe. *)

\* What is not on the wire yet is in the ring or in the endpoint.
LEMMA Backlog ==
    ASSUME Inv
    PROVE  /\ accepted <= Len(wire) + Used
           /\ xfer.left > 0 => Len(wire) < accepted
           /\ accepted <= host_sent
           /\ Len(wire) \in Nat /\ Used \in Nat
<1>1. /\ xfer \in Transfer /\ xfer.tx_size \in Nat /\ xfer.left \in Nat
      /\ Used \in Nat /\ Len(wire) \in Nat /\ accepted \in Nat /\ tx_base = 0
  BY InvFacts, TxFacts
<1>2. accepted = Len(wire) + Used - (xfer.tx_size - xfer.left)
  BY <1>1, InvFacts DEF TxInv, TxConservation
<1>3. /\ xfer.left <= xfer.tx_size
      /\ xfer.tx_size <= Used
  <2>1. XferOK(xfer, tx_buf_tail, Used)
    BY InvFacts DEF TxInv, XferInv
  <2>2. CASE xfer.is_transmitting
    BY <1>1, <2>1, <2>2 DEF XferOK
  <2>3. CASE ~xfer.is_transmitting
    <3>1. xfer = Idle
      BY <2>1, <2>3 DEF XferOK
    <3> QED BY <1>1, <3>1 DEF Idle
  <2> QED BY <2>2, <2>3
<1>4. accepted <= host_sent
  <2>1. CASE ctr_rx
    <3>1. pma[BufferOf(rx)].len \in Nat
      BY <2>1, Fits, ConstantFacts
    <3> QED BY <1>1, <2>1, <3>1, Fits
  <2>2. CASE ~ctr_rx
    BY <1>1, <2>2 DEF Inv, EndpointInOrder, PendingLen
  <2> QED BY <2>1, <2>2
<1> QED BY <1>1, <1>2, <1>3, <1>4

\* The host may send because the pipe has room.
LEMMA HostPacketSends ==
    ASSUME Inv, HostPacket
    PROVE  Pipe!Send \/ UNCHANGED <<host_sent, wire>>
<1>1. PICK len \in 0 .. MaxPacket :
          host_sent + len <= MaxBytes /\ host_sent' = host_sent + len
  BY DEF HostPacket
<1>2. ~ctr_rx /\ rx.unacked < 2 /\ wire' = wire
  <2>1. rx.unacked < 2
    BY InvFacts, FlowControlAssumption DEF HostPacket
  <2> QED BY <2>1 DEF HostPacket, txVars
<1>3. MaxPacket <= TxDataAvail
  <2>1. /\ rx.unacked = rx.acks /\ rx.acks \in 0 .. 2 /\ TxDataAvail \in Int
        /\ is_tx_high_water \in BOOLEAN
    BY <1>2, InvFacts
  <2>2. CASE is_tx_high_water
    <3>1. rx.acks = 1
      BY <1>2, <2>1, <2>2 DEF Inv, Room
    <3> QED BY <2>2, <3>1 DEF Inv, Room
  <2>3. CASE ~is_tx_high_water
    BY <2>1, <2>3, ConstantFacts DEF Inv, Room
  <2> QED BY <2>1, <2>2, <2>3
<1>4. TxDataAvail = UART_TX_BUF_LEN - 1 - Used /\ host_sent = accepted
      /\ host_sent \in Nat
  BY <1>2, InvFacts, AvailFacts DEF Inv, EndpointInOrder, PendingLen
<1>5. host_sent + len - Len(wire) <= UART_TX_BUF_LEN - 1
  BY <1>1, <1>3, <1>4, Backlog, ConstantFacts
<1>6. CASE len = 0
  BY <1>1, <1>2, <1>4, <1>6
<1>7. CASE len # 0
  <2>1. len \in 1 .. MaxPacket
    BY <1>1, <1>7, ConstantFacts
  <2> QED BY <1>1, <1>2, <1>5, <2>1 DEF Pipe!Send
<1> QED BY <1>6, <1>7

\* The byte the USART sends is the next one of the pipe.
LEMMA UartByteDelivers ==
    ASSUME Inv, UartByte
    PROVE  Pipe!Deliver
<1>1. /\ xfer.left > 0 /\ wire' = Append(wire, tx_buf[xfer.pos])
      /\ host_sent' = host_sent /\ tx_base' = tx_base
  BY DEF UartByte, DmaByte, usbVars
<1>2. Len(wire) < host_sent
  BY <1>1, Backlog, InvFacts
<1>3. wire \in Seq(Int) /\ wire' \in Seq(Int) /\ tx_base = 0
  BY UartByteInv, InvFacts DEF Inv, TxInv, TxTypeOK
<1>4. wire' = [i \in 1 .. Len(wire) + 1 |-> i - 1]
  <2>1. wire' \in Seq(Int) /\ Len(wire') = Len(wire) + 1
    BY <1>1, <1>3
  <2>2. \A i \in 1 .. Len(wire') : wire'[i] = i - 1
    <3>1. \A i \in 1 .. Len(wire') : wire'[i] = tx_base' + i - 1
      BY UartByteInv DEF Inv, TxInv, WireInOrder
    <3>2. tx_base' = 0
      BY <1>1, <1>3
    <3> QED BY <3>1, <3>2
  <2>3. wire' = [i \in 1 .. Len(wire') |-> wire'[i]]
    BY <2>1
  <2> QED BY <2>1, <2>2, <2>3
<1>5. 1 \in 1 .. MaxPacket /\ Len(wire) + 1 <= host_sent
  BY <1>2, Backlog, InvFacts, ConstantFacts
<1> QED BY <1>1, <1>4, <1>5 DEF Pipe!Deliver

\* Every behaviour of the adapter, seen from the host program and from the
\* peer, is one of the bounded lossless pipe: no byte is lost, invented,
\* duplicated or reordered, and the host is held back before the ring is full.
THEOREM ImplementsPipe == Spec => PipeSafety
<1>1. Init => Pipe!Init
  BY DEF Init, TxInit, Pipe!Init
<1>2. Inv /\ [Next]_vars => [Pipe!Next]_<<host_sent, wire>>
  <2> SUFFICES ASSUME Inv, [Next]_vars
               PROVE  Pipe!Next \/ UNCHANGED <<host_sent, wire>>
    OBVIOUS
  <2>1. CASE UsbDataReceived
    <3>1. CASE pma[BufferOf(rx)].len = 0
      BY <2>1, <3>1 DEF UsbDataReceived, txVars
    <3>2. CASE pma[BufferOf(rx)].len # 0
      BY <2>1, <3>2 DEF UsbDataReceived, Transmit
    <3> QED BY <3>1, <3>2
  <2>2. CASE HostPacket
    BY <2>2, HostPacketSends DEF Pipe!Next
  <2>3. CASE UartByte
    BY <2>3, UartByteDelivers DEF Pipe!Next
  <2>4. CASE UsbIdle \/ PollNak
    BY <2>4 DEF UsbIdle, PollNak, txVars
  <2>5. CASE UsbLineCoding
    BY <2>5 DEF UsbLineCoding, SetCoding, usbVars
  <2>6. CASE UartPoll
    BY <2>6 DEF UartPoll, PollTx
  <2>7. CASE UNCHANGED vars
    BY <2>7 DEF vars, usbVars, txVars
  <2> QED BY <2>1, <2>2, <2>3, <2>4, <2>5, <2>6, <2>7 DEF Next, MainLoop
<1> QED BY <1>1, <1>2, Invariant, PTL DEF Spec, PipeSafety
=============================================================================
