-------------------------- MODULE SerialToUsbProofs --------------------------
(* Theorems about the way from the serial line to the USB host (module      *)
(* SerialToUsb), for every ring length, packet length, hold-back and clock. *)
EXTENDS SerialToUsb, UartRxProofs, SequenceTheorems

\* The states of the endpoint are numbers.
USE DEF dbl_buf_en_0_pkts, dbl_buf_en_1_pkt, dbl_buf_en_2_pkts

\* What TypeOK says of the endpoint.
LEMMA EndpointTypes ==
    ASSUME TypeOK
    PROVE  /\ in_state \in 2 .. 4 /\ in_sw_buf \in 0 .. 1 /\ in_hw_buf \in 0 .. 1
           /\ in_filled \in 0 .. 2 /\ ctr_tx \in BOOLEAN /\ needs_zlp \in BOOLEAN
           /\ sending \in BOOLEAN
           /\ in_buf \in [0 .. 1 -> Seq(Int)]
           /\ \A b \in 0 .. 1 : Len(in_buf[b]) <= MaxPacket
           /\ host_got \in Seq(Int) /\ host_done \in Nat
           /\ copied \in Seq(Int) /\ MaxPacket \in Nat /\ MaxPacket > 0
           /\ RxTypeOK
BY SendAssumption DEF TypeOK, RxTypeOK

\* Every step is one of the receive side, or leaves its variables alone.
LEMMA RxStep == [Next]_vars => [RxNext]_rxVars
BY DEF Next, vars, UsbDataTransmitted, UsbSetMark, UartPoll, Send, ReportOverrun, HoldBack,
       Decide, SendBegin, SendEnd, Tick, UartByte, HostPacket, RxNext, Reader

----------------------------------------------------------------------------
(* The packet buffers. *)

LEMMA SendInit == Init => SendInv
<1> SUFFICES ASSUME Init PROVE SendInv
  OBVIOUS
<1> USE DEF Init
<1>1. RxTypeOK
  BY RingInit DEF RingInv
<1>2. TypeOK
  <2>1. in_buf \in [0 .. 1 -> Seq(Int)] /\ \A b \in 0 .. 1 : Len(in_buf[b]) = 0
    OBVIOUS
  <2>2. host_got \in Seq(Int)
    OBVIOUS
  <2>3. Clock \in Nat \ {0} /\ TX_HOLDBACK_MAX_TIME \in Nat /\ MaxPacket \in Nat
    BY SendAssumption
  <2>4. tx_timestamp \in 0 .. Clock - 1
    <3> DEFINE t == 0 - TX_HOLDBACK_MAX_TIME
    <3>1. t \in Int
      BY <2>3
    <3>2. tx_timestamp = t % Clock
      OBVIOUS
    <3> HIDE DEF t
    <3>3. t % Clock \in 0 .. Clock - 1
      BY <2>3, <3>1, ModRange
    <3> QED BY <3>2, <3>3
  <2>5. 0 \in 0 .. Clock - 1
    BY <2>3
  <2> /\ needs_zlp \in BOOLEAN /\ turned \in BOOLEAN /\ sending \in BOOLEAN
      /\ ctr_tx \in BOOLEAN
    OBVIOUS
  <2>6. /\ in_state \in 2 .. 4 /\ in_sw_buf \in 0 .. 1 /\ in_hw_buf \in 0 .. 1
        /\ in_filled \in 0 .. 2 /\ host_done \in Nat
    OBVIOUS
  <2> millis_count \in 0 .. Clock - 1
    BY <2>5
  <2>7. \A b \in 0 .. 1 : Len(in_buf[b]) <= MaxPacket
    BY <2>1, <2>3
  <2>8. host_got \in Seq(Int) /\ tx_timestamp \in 0 .. Clock - 1
    BY <2>2, <2>4
  <2> HIDE DEF Init
  <2> QED BY <1>1, <2>1, <2>2, <2>4, <2>6, <2>7 DEF TypeOK
<1>3. EndpointAgrees
  BY DEF EndpointAgrees
<1>4. FreeForCopy
  BY DEF FreeForCopy, RxInit
<1>5. NothingLost
  BY DEF NothingLost, InFlight, RxInit
<1>6. TransfersAgree
  BY DEF TransfersAgree, RxInit
<1> QED BY <1>2, <1>3, <1>4, <1>5, <1>6 DEF SendInv

LEMMA SendTypes == SendInv /\ RxTypeOK' /\ [Next]_vars => TypeOK'
<1> SUFFICES ASSUME SendInv, RxTypeOK', [Next]_vars PROVE TypeOK'
  OBVIOUS
<1>1. TypeOK /\ EndpointAgrees /\ FreeForCopy
  BY DEF SendInv
<1> USE <1>1
<1>2. CASE UsbDataTransmitted
  <2>1. in_state' \in 2 .. 4
    BY <1>2 DEF UsbDataTransmitted, StateAfterPacket, TypeOK
  <2> QED BY <1>2, <2>1 DEF UsbDataTransmitted, TypeOK
<1>3. CASE UsbSetMark \/ ReportOverrun \/ HoldBack \/ UartByte \/ UNCHANGED vars
  <2>1. UNCHANGED sendVars
    BY <1>3 DEF UsbSetMark, ReportOverrun, HoldBack, UartByte, vars
  <2> QED BY <2>1 DEF sendVars, endpointVars, TypeOK
<1>4. CASE UartPoll
  BY <1>4 DEF UartPoll, endpointVars, TypeOK
<1>5. CASE Decide \/ SendBegin
  BY <1>5 DEF Decide, SendBegin, endpointVars, TypeOK
<1>6. CASE SendEnd
  <2> DEFINE b == CopiedBytes(reading.head, reading.len)
  <2>1. rx_step = "copy" /\ in_state # 4
    BY <1>6 DEF SendEnd, ReadEnd, FreeForCopy
  <2>2. in_state' \in 2 .. 4
    BY <1>6, <2>1, EndpointTypes DEF SendEnd, TransmitPacket
  <2>3. in_filled' \in 0 .. 2
    <3>1. in_state - 2 = in_filled + (IF ctr_tx THEN 1 ELSE 0)
      BY DEF EndpointAgrees
    <3>2. in_filled <= 1
      BY <2>1, <3>1, EndpointTypes
    <3> QED BY <1>6, <3>2, EndpointTypes DEF SendEnd, TransmitPacket
  <2>4. in_sw_buf' \in 0 .. 1
    BY <1>6, EndpointTypes DEF SendEnd, TransmitPacket
  <2>5. b \in Seq(Int) /\ Len(b) <= MaxPacket
    <3>1. /\ reading.head \in RxCells /\ rx_buf_tail \in 0 .. UART_RX_BUF_LEN
          /\ rx_buf \in [RxCells -> Int] /\ reading.len \in {MaxPacket} \cup {0}
      BY SendAssumption DEF TypeOK, RxTypeOK
    <3> reading.len \in Nat /\ reading.len <= MaxPacket
      BY <3>1, EndpointTypes
    <3>2. b \in Seq(Int) /\ Len(b) = CopiedLen(reading.head, reading.len)
          /\ CopiedLen(reading.head, reading.len) \in Nat
          /\ CopiedLen(reading.head, reading.len) <= reading.len
      BY <3>1, CopiedBytesFacts
    <3> QED BY <3>1, <3>2, EndpointTypes
  <2> HIDE DEF b
  <2>6. in_buf' = [in_buf EXCEPT ![in_sw_buf] = b]
    BY <1>6 DEF SendEnd, TransmitPacket, b
  <2>7. in_buf' \in [0 .. 1 -> Seq(Int)] /\ \A i \in 0 .. 1 : Len(in_buf'[i]) <= MaxPacket
    BY <2>5, <2>6, EndpointTypes
  <2>8. needs_zlp' \in BOOLEAN
    BY <1>6 DEF SendEnd, NeedsZlp
  <2> QED BY <1>6, <2>2, <2>3, <2>4, <2>7, <2>8 DEF SendEnd, TypeOK
<1>7. CASE Tick
  <2>1. Clock \in Nat \ {0}
    BY SendAssumption
  <2>2. millis_count' \in 0 .. Clock - 1
    BY <1>7, <2>1, ModRange DEF Tick, TypeOK
  <2> QED BY <1>7, <2>2 DEF Tick, endpointVars, TypeOK
<1>8. CASE HostPacket
  <2>1. in_filled' \in 0 .. 2 /\ in_hw_buf' \in 0 .. 1
    BY <1>8, EndpointTypes DEF HostPacket
  <2>2. host_got' \in Seq(Int)
    BY <1>8, EndpointTypes DEF HostPacket
  <2>3. host_done' \in Nat
    BY <1>8, <2>2, EndpointTypes DEF HostPacket
  <2> QED BY <1>8, <2>1, <2>2, <2>3 DEF HostPacket, TypeOK
<1> QED BY <1>2, <1>3, <1>4, <1>5, <1>6, <1>7, <1>8 DEF Next, Send

\* The two packet buffers alternate.
LEMMA ModTwo == 0 % 2 = 0 /\ 1 % 2 = 1 /\ 2 % 2 = 0 /\ 3 % 2 = 1
OBVIOUS

LEMMA NextBuffer ==
    ASSUME NEW hw \in 0 .. 1, NEW k \in 0 .. 1
    PROVE  /\ (hw + 0) % 2 = hw
           /\ (hw + k) % 2 \in 0 .. 1
           /\ (hw + (k + 1)) % 2 = 1 - ((hw + k) % 2)
           /\ ((1 - hw) + k) % 2 = (hw + (k + 1)) % 2
<1>1. CASE hw = 0 /\ k = 0
  BY <1>1, ModTwo
<1>2. CASE hw = 0 /\ k = 1
  BY <1>2, ModTwo
<1>3. CASE hw = 1 /\ k = 0
  BY <1>3, ModTwo
<1>4. CASE hw = 1 /\ k = 1
  BY <1>4, ModTwo
<1>5. (hw = 0 \/ hw = 1) /\ (k = 0 \/ k = 1)
  OBVIOUS
<1> QED BY <1>1, <1>2, <1>3, <1>4, <1>5, Zenon

\* The packet that is made of the bytes copied.
Packet == CopiedBytes(reading.head, reading.len)

\* What the end of a copy does: the buffer it fills is the one after those that
\* wait, and an empty packet is made only where one is due or the ring was overrun.
LEMMA SendEndFacts ==
    ASSUME RingInv, SendInv, SendEnd
    PROVE  /\ Packet \in Seq(Int) /\ Len(Packet) <= MaxPacket
           /\ in_filled \in 0 .. 1 /\ in_sw_buf = (in_hw_buf + in_filled) % 2
           /\ in_buf' = [in_buf EXCEPT ![in_sw_buf] = Packet]
           /\ copied' = copied \o Packet
           /\ in_filled' = in_filled + 1
           /\ UNCHANGED <<in_hw_buf, host_got, host_done, ctr_tx>>
           /\ Len(Packet) = 0 => needs_zlp \/ Unread >= UART_RX_BUF_LEN
           /\ needs_zlp' => Len(Packet) = MaxPacket
<1>1. TypeOK /\ EndpointAgrees /\ FreeForCopy /\ TransfersAgree
  BY DEF SendInv
<1>2. rx_step = "copy"
  BY DEF SendEnd, ReadEnd
<1>3. reading.len = MaxPacket
  BY <1>2, SendAssumption DEF RingInv, CountsAgree
<1>4. /\ reading.head \in RxCells /\ rx_buf_tail \in 0 .. UART_RX_BUF_LEN
      /\ rx_buf \in [RxCells -> Int] /\ reading.len \in Nat
  BY RxFacts DEF RingInv, RxTypeOK
<1>5. /\ Packet \in Seq(Int) /\ Len(Packet) \in Nat
      /\ Len(Packet) = CopiedLen(reading.head, reading.len)
  BY <1>4, CopiedBytesFacts DEF Packet
<1>6. Len(Packet) = Smaller(MaxPacket, RxLen(reading.head, rx_buf_tail))
  BY <1>3, <1>4, <1>5, CopyFacts
<1>7. RxLen(reading.head, rx_buf_tail) \in Nat
  BY <1>4, RxAssumption, RxLenFacts
<1>8. MaxPacket \in Nat /\ MaxPacket > 0
  BY SendAssumption
<1>9. Len(Packet) <= MaxPacket
  BY <1>6, <1>7, <1>8 DEF Smaller
<1>10. Len(Packet) = 0 => needs_zlp \/ Unread >= UART_RX_BUF_LEN
  <2>1. Len(Packet) = 0 => RxLen(reading.head, rx_buf_tail) = 0
    BY <1>6, <1>7, <1>8 DEF Smaller
  <2> QED BY <1>1, <1>2, <2>1 DEF TransfersAgree
<1>11. ASSUME needs_zlp' PROVE Len(Packet) = MaxPacket
  <2>1. Len(Packet) > 0 /\ Len(Packet) % MaxPacket = 0
    BY <1>11 DEF SendEnd, NeedsZlp, Packet
  <2>2. Len(Packet) # MaxPacket => Len(Packet) \in 0 .. MaxPacket - 1
    BY <1>5, <1>8, <1>9
  <2>3. Len(Packet) # MaxPacket => Len(Packet) % MaxPacket = Len(Packet)
    BY <1>8, <2>2, ModSmall
  <2> QED BY <2>1, <2>3
<1>12. in_filled \in 0 .. 1
  <2>1. in_state # 4
    BY <1>1, <1>2 DEF FreeForCopy
  <2>2. in_state - 2 = in_filled + (IF ctr_tx THEN 1 ELSE 0)
    BY <1>1 DEF EndpointAgrees
  <2> QED BY <1>1, <2>1, <2>2, EndpointTypes
<1>13. in_sw_buf = (in_hw_buf + in_filled) % 2
  BY <1>1 DEF EndpointAgrees
<1>14. /\ in_buf' = [in_buf EXCEPT ![in_sw_buf] = Packet]
       /\ copied' = copied \o Packet
       /\ in_filled' = in_filled + 1
       /\ UNCHANGED <<in_hw_buf, host_got, host_done, ctr_tx>>
  BY DEF SendEnd, ReadEnd, CopyRxData, TransmitPacket, Packet
<1> QED BY <1>5, <1>9, <1>10, <1>11, <1>12, <1>13, <1>14

\* The packets that wait stay as they are, and the new one is the last of them.
LEMMA SendEndPending ==
    ASSUME RingInv, SendInv, SendEnd
    PROVE  /\ in_filled = 0 => Pending(0)' = Packet
           /\ in_filled = 1 => Pending(0)' = Pending(0) /\ Pending(1)' = Packet
<1>1. /\ in_filled \in 0 .. 1 /\ in_sw_buf = (in_hw_buf + in_filled) % 2
      /\ in_buf' = [in_buf EXCEPT ![in_sw_buf] = Packet] /\ in_hw_buf' = in_hw_buf
  BY SendEndFacts
<1>2. /\ in_hw_buf \in 0 .. 1 /\ in_sw_buf \in 0 .. 1
      /\ in_buf \in [0 .. 1 -> Seq(Int)]
  BY EndpointTypes DEF SendInv
<1>3. \A i \in 0 .. 1 : in_buf'[i] = IF i = in_sw_buf THEN Packet ELSE in_buf[i]
  BY <1>1, <1>2
<1>4. /\ (in_hw_buf + 0) % 2 = in_hw_buf
      /\ (in_hw_buf + 1) % 2 = 1 - in_hw_buf
  <2>1. CASE in_hw_buf = 0
    BY <2>1, ModTwo
  <2>2. CASE in_hw_buf = 1
    BY <2>2, ModTwo
  <2> QED BY <1>2, <2>1, <2>2
<1>5. /\ Pending(0)' = in_buf'[in_hw_buf] /\ Pending(1)' = in_buf'[1 - in_hw_buf]
      /\ Pending(0) = in_buf[in_hw_buf]
  BY <1>1, <1>4 DEF Pending
<1>6. 1 - in_hw_buf \in 0 .. 1 /\ 1 - in_hw_buf # in_hw_buf
  BY <1>2
<1>7. CASE in_filled = 0
  BY <1>1, <1>2, <1>3, <1>4, <1>5, <1>7
<1>8. CASE in_filled = 1
  BY <1>1, <1>2, <1>3, <1>4, <1>5, <1>6, <1>8
<1> QED BY <1>1, <1>7, <1>8

\* What the host takes is the first packet; the second one becomes the first.
LEMMA HostPacketFacts ==
    ASSUME SendInv, HostPacket
    PROVE  /\ in_filled \in 1 .. 2 /\ ctr_tx = FALSE /\ ctr_tx' = TRUE
           /\ in_filled' = in_filled - 1 /\ in_hw_buf' = 1 - in_hw_buf
           /\ Pending(0) \in Seq(Int) /\ Len(Pending(0)) \in Nat
           /\ Len(Pending(0)) <= MaxPacket
           /\ Pending(1) \in Seq(Int) /\ Pending(0)' = Pending(1)
           /\ host_got' = host_got \o Pending(0)
           /\ host_done' = IF Len(Pending(0)) < MaxPacket THEN Len(host_got')
                                                          ELSE host_done
           /\ UNCHANGED <<rxVars, needs_zlp, in_state, in_sw_buf>>
<1>1. /\ in_filled \in 0 .. 2 /\ in_hw_buf \in 0 .. 1 /\ ctr_tx \in BOOLEAN
      /\ in_buf \in [0 .. 1 -> Seq(Int)]
      /\ \A b \in 0 .. 1 : Len(in_buf[b]) <= MaxPacket
  BY EndpointTypes DEF SendInv
<1>2. /\ (in_hw_buf + 0) % 2 = in_hw_buf
      /\ (in_hw_buf + 1) % 2 = 1 - in_hw_buf
      /\ ((1 - in_hw_buf) + 0) % 2 = 1 - in_hw_buf
  <2>1. CASE in_hw_buf = 0
    BY <2>1, ModTwo
  <2>2. CASE in_hw_buf = 1
    BY <2>2, ModTwo
  <2> QED BY <1>1, <2>1, <2>2
<1>3. /\ in_filled > 0 /\ ~ctr_tx /\ ctr_tx' = TRUE
      /\ in_filled' = in_filled - 1 /\ in_hw_buf' = 1 - in_hw_buf
      /\ UNCHANGED <<rxVars, needs_zlp, in_state, in_sw_buf, in_buf>>
      /\ host_got' = host_got \o in_buf[in_hw_buf]
      /\ host_done' = IF Len(in_buf[in_hw_buf]) < MaxPacket THEN Len(host_got')
                                                            ELSE host_done
  BY DEF HostPacket
<1>4. Pending(0) = in_buf[in_hw_buf] /\ Pending(1) = in_buf[1 - in_hw_buf]
  BY <1>2 DEF Pending
<1>5. Pending(0)' = in_buf[1 - in_hw_buf]
  BY <1>2, <1>3 DEF Pending
<1>6. 1 - in_hw_buf \in 0 .. 1
  BY <1>1
<1>7. /\ Pending(0) \in Seq(Int) /\ Len(Pending(0)) <= MaxPacket
      /\ Pending(1) \in Seq(Int)
  BY <1>1, <1>4, <1>6
<1>8. Len(Pending(0)) \in Nat
  BY <1>7
<1>9. in_filled \in 1 .. 2 /\ ctr_tx = FALSE
  BY <1>1, <1>3
<1> QED BY <1>3, <1>4, <1>5, <1>7, <1>8, <1>9

----------------------------------------------------------------------------
(* Driver and peripheral agree. *)

LEMMA AgreeStep == RingInv /\ SendInv /\ [Next]_vars => EndpointAgrees'
<1> SUFFICES ASSUME RingInv, SendInv, [Next]_vars PROVE EndpointAgrees'
  OBVIOUS
<1>1. /\ in_state \in 2 .. 4 /\ in_sw_buf \in 0 .. 1 /\ in_hw_buf \in 0 .. 1
      /\ in_filled \in 0 .. 2 /\ ctr_tx \in BOOLEAN
  BY EndpointTypes DEF SendInv
<1>2. /\ in_state - 2 = in_filled + (IF ctr_tx THEN 1 ELSE 0)
      /\ in_sw_buf = (in_hw_buf + in_filled) % 2
  BY DEF SendInv, EndpointAgrees
<1>3. CASE UsbDataTransmitted
  <2>1. ctr_tx /\ in_state # 2
    BY <1>1, <1>2, <1>3 DEF UsbDataTransmitted
  <2>2. in_state' = in_state - 1 /\ ctr_tx' = FALSE
    BY <1>3, <2>1 DEF UsbDataTransmitted, StateAfterPacket
  <2>3. UNCHANGED <<in_sw_buf, in_hw_buf, in_filled>>
    BY <1>3 DEF UsbDataTransmitted
  <2>4. (in_state - 1) - 2 = in_filled + 0
    BY <1>1, <1>2, <2>1
  <2> QED BY <1>2, <2>2, <2>3, <2>4 DEF EndpointAgrees
<1>4. CASE SendEnd
  <2>1. /\ in_filled \in 0 .. 1 /\ in_filled' = in_filled + 1
        /\ in_hw_buf' = in_hw_buf /\ ctr_tx' = ctr_tx
    BY <1>4, SendEndFacts
  <2>2. in_state' = in_state + 1 /\ in_sw_buf' = 1 - in_sw_buf
    BY <1>4 DEF SendEnd, TransmitPacket
  <2>3. (in_state + 1) - 2 = (in_filled + 1) + (IF ctr_tx THEN 1 ELSE 0)
    BY <1>1, <1>2
  <2>4. 1 - in_sw_buf = (in_hw_buf + (in_filled + 1)) % 2
    BY <1>1, <1>2, <2>1, NextBuffer
  <2> QED BY <2>1, <2>2, <2>3, <2>4 DEF EndpointAgrees
<1>5. CASE HostPacket
  <2>1. /\ in_filled \in 1 .. 2 /\ in_filled' = in_filled - 1
        /\ in_hw_buf' = 1 - in_hw_buf /\ ctr_tx = FALSE /\ ctr_tx' = TRUE
        /\ UNCHANGED <<in_state, in_sw_buf>>
    BY <1>5, HostPacketFacts
  <2>2. in_state - 2 = (in_filled - 1) + 1
    BY <1>1, <1>2, <2>1
  <2>3. in_filled - 1 \in 0 .. 1 /\ (in_filled - 1) + 1 = in_filled
    BY <2>1
  <2>4. ((1 - in_hw_buf) + (in_filled - 1)) % 2 = (in_hw_buf + in_filled) % 2
    BY <1>1, <2>3, NextBuffer
  <2> QED BY <1>2, <2>1, <2>2, <2>4 DEF EndpointAgrees
<1>6. CASE UsbSetMark \/ UartPoll \/ Send \/ Tick \/ UartByte \/ UNCHANGED vars
  <2>1. UNCHANGED <<in_state, in_sw_buf, in_hw_buf, in_filled, ctr_tx>>
    BY <1>6 DEF UsbSetMark, UartPoll, Send, ReportOverrun, HoldBack, Decide, SendBegin,
                Tick, UartByte, sendVars, endpointVars, vars
  <2> QED BY <1>2, <2>1 DEF EndpointAgrees
<1> QED BY <1>3, <1>4, <1>5, <1>6 DEF Next

\* It is decided to send only with a buffer free, and no buffer is filled until
\* the copy ends.
LEMMA FreeStep == RingInv /\ SendInv /\ [Next]_vars => FreeForCopy'
<1> SUFFICES ASSUME RingInv, SendInv, [Next]_vars PROVE FreeForCopy'
  OBVIOUS
<1>1. FreeForCopy /\ sending \in BOOLEAN
  BY EndpointTypes DEF SendInv
<1>2. CASE Decide
  <2>1. in_state \in {2, 3} /\ in_state' = in_state /\ rx_step' = "read"
    BY <1>2 DEF Decide, TransmitAvail, endpointVars, rxVars
  <2> QED BY <2>1 DEF FreeForCopy
<1>3. CASE SendBegin
  <2>1. sending /\ sending' = FALSE /\ in_state' = in_state
    BY <1>3 DEF SendBegin, endpointVars
  <2> QED BY <1>1, <2>1 DEF FreeForCopy
<1>4. CASE UsbSetMark \/ UartByte \/ Tick \/ HostPacket \/ UNCHANGED vars
  <2>1. rx_step' = rx_step /\ in_state' = in_state /\ sending' = sending
    BY <1>4 DEF UsbSetMark, SetMark, UartByte, RxByte, Tick, HostPacket, rxVars, vars,
                sendVars, endpointVars
  <2> QED BY <1>1, <2>1 DEF FreeForCopy
<1>5. CASE UsbDataTransmitted \/ UartPoll \/ ReportOverrun \/ HoldBack \/ SendEnd
  <2>1. rx_step' # "copy" /\ sending' = sending /\ (rx_step # "read" \/ ~sending)
    BY <1>5 DEF UsbDataTransmitted, rxVars, UartPoll, RxPoll, ReportOverrun, TakeOverrun,
                HoldBack, SkipRead, SendEnd, ReadEnd, sendVars
  <2>2. sending' = FALSE
    BY <1>1, <2>1 DEF FreeForCopy
  <2> QED BY <2>1, <2>2 DEF FreeForCopy
<1> QED BY <1>2, <1>3, <1>4, <1>5 DEF Next, Send

----------------------------------------------------------------------------
(* What has been taken from the ring is on its way or has arrived. *)

LEMMA InFlightFacts ==
    ASSUME TypeOK
    PROVE  /\ InFlight \in Seq(Int) /\ Len(InFlight) \in Nat
           /\ Len(InFlight) <= 2 * MaxPacket
<1>1. /\ in_filled \in 0 .. 2 /\ in_hw_buf \in 0 .. 1
      /\ in_buf \in [0 .. 1 -> Seq(Int)]
      /\ \A b \in 0 .. 1 : Len(in_buf[b]) <= MaxPacket
      /\ MaxPacket \in Nat
  BY EndpointTypes
<1>2. ASSUME NEW k \in 0 .. 1
      PROVE  Pending(k) \in Seq(Int) /\ Len(Pending(k)) <= MaxPacket
  <2>1. (in_hw_buf + k) % 2 \in 0 .. 1
    BY <1>1, NextBuffer
  <2> QED BY <1>1, <2>1 DEF Pending
<1>3. /\ Pending(0) \in Seq(Int) /\ Len(Pending(0)) <= MaxPacket
      /\ Pending(1) \in Seq(Int) /\ Len(Pending(1)) <= MaxPacket
  BY <1>2
<1>4. /\ Pending(0) \o Pending(1) \in Seq(Int)
      /\ Len(Pending(0) \o Pending(1)) = Len(Pending(0)) + Len(Pending(1))
      /\ Len(Pending(0)) \in Nat /\ Len(Pending(1)) \in Nat
  BY <1>3
<1>5. CASE in_filled = 0
  <2>1. InFlight = <<>>
    BY <1>5 DEF InFlight
  <2> QED BY <1>1, <2>1
<1>6. CASE in_filled = 1
  <2>1. InFlight = Pending(0)
    BY <1>6 DEF InFlight
  <2> QED BY <1>1, <1>3, <1>4, <2>1
<1>7. CASE in_filled = 2
  <2>1. InFlight = Pending(0) \o Pending(1)
    BY <1>7 DEF InFlight
  <2>2. Len(Pending(0)) + Len(Pending(1)) <= 2 * MaxPacket
    BY <1>1, <1>3, <1>4
  <2> QED BY <1>4, <2>1, <2>2
<1> QED BY <1>1, <1>5, <1>6, <1>7

LEMMA ConcatInts ==
    ASSUME NEW a \in Seq(Int), NEW b \in Seq(Int), NEW c \in Seq(Int)
    PROVE  (a \o b) \o c = a \o (b \o c)
BY ConcatAssociative

LEMMA LossStep == RingInv /\ SendInv /\ [Next]_vars => NothingLost'
<1> SUFFICES ASSUME RingInv, SendInv, [Next]_vars PROVE NothingLost'
  OBVIOUS
<1>1. copied = host_got \o InFlight
  BY DEF SendInv, NothingLost
<1>2. host_got \in Seq(Int) /\ InFlight \in Seq(Int)
  BY EndpointTypes, InFlightFacts DEF SendInv
<1>3. CASE SendEnd
  <2>1. /\ in_filled \in 0 .. 1 /\ in_filled' = in_filled + 1 /\ host_got' = host_got
        /\ copied' = copied \o Packet /\ Packet \in Seq(Int)
    BY <1>3, SendEndFacts
  <2>2. InFlight' = InFlight \o Packet
    <3>1. CASE in_filled = 0
      <4>1. Pending(0)' = Packet /\ in_filled' = 1
        BY <1>3, <2>1, <3>1, SendEndPending
      <4>2. InFlight = <<>> /\ InFlight' = Packet
        BY <3>1, <4>1 DEF InFlight
      <4> QED BY <2>1, <4>2, ConcatEmptySeq
    <3>2. CASE in_filled = 1
      <4>1. Pending(0)' = Pending(0) /\ Pending(1)' = Packet /\ in_filled' = 2
        BY <1>3, <2>1, <3>2, SendEndPending
      <4> QED BY <3>2, <4>1 DEF InFlight
    <3> QED BY <2>1, <3>1, <3>2
  <2>3. (host_got \o InFlight) \o Packet = host_got \o (InFlight \o Packet)
    BY <1>2, <2>1, ConcatInts
  <2> QED BY <1>1, <2>1, <2>2, <2>3 DEF NothingLost
<1>4. CASE HostPacket
  <2>1. /\ in_filled \in 1 .. 2 /\ in_filled' = in_filled - 1
        /\ Pending(0) \in Seq(Int) /\ Pending(1) \in Seq(Int)
        /\ Pending(0)' = Pending(1) /\ host_got' = host_got \o Pending(0)
        /\ copied' = copied
    BY <1>4, HostPacketFacts DEF rxVars
  <2>2. CASE in_filled = 1
    <3>1. in_filled' = 0
      BY <2>1, <2>2
    <3>2. InFlight = Pending(0) /\ InFlight' = <<>>
      BY <2>2, <3>1 DEF InFlight
    <3>3. host_got \o Pending(0) \in Seq(Int)
      BY <1>2, <2>1
    <3>4. (host_got \o Pending(0)) \o <<>> = host_got \o Pending(0)
      BY <3>3, ConcatEmptySeq
    <3> QED BY <1>1, <2>1, <3>2, <3>4 DEF NothingLost
  <2>3. CASE in_filled = 2
    <3>1. in_filled' = 1
      BY <2>1, <2>3
    <3>2. InFlight = Pending(0) \o Pending(1) /\ InFlight' = Pending(1)
      BY <2>1, <2>3, <3>1 DEF InFlight
    <3>3. (host_got \o Pending(0)) \o Pending(1) = host_got \o (Pending(0) \o Pending(1))
      BY <1>2, <2>1, ConcatInts
    <3> QED BY <1>1, <2>1, <3>2, <3>3 DEF NothingLost
  <2> QED BY <2>1, <2>2, <2>3
<1>5. CASE UsbDataTransmitted \/ UsbSetMark \/ UartPoll \/ Send \/ Tick \/ UartByte
           \/ UNCHANGED vars
  <2>1. UNCHANGED <<in_hw_buf, in_buf, in_filled, host_got, copied>>
    BY <1>5 DEF UsbDataTransmitted, UsbSetMark, SetMark, UartPoll, RxPoll, Send,
                ReportOverrun, TakeOverrun, HoldBack, SkipRead, Decide, SendBegin, ReadBegin,
                Tick, UartByte, RxByte, rxVars, sendVars, endpointVars, vars
  <2> QED BY <1>1, <2>1 DEF NothingLost, InFlight, Pending
<1> QED BY <1>3, <1>4, <1>5 DEF Next

----------------------------------------------------------------------------
(* Zero-length packets. *)

\* The steps that neither fill a buffer nor empty one.
Bystander == UsbDataTransmitted \/ UsbSetMark \/ UartPoll \/ Send \/ Tick \/ UartByte
               \/ UNCHANGED vars

LEMMA BystanderFacts ==
    ASSUME SendInv, Bystander
    PROVE  /\ UNCHANGED <<in_hw_buf, in_buf, in_filled, host_got, host_done, needs_zlp>>
           /\ \A k \in Int :
                 Pending(k)' = Pending(k) /\ ContinuesTransfer(k)' = ContinuesTransfer(k)
           /\ in_filled \in Int
<1>1. UNCHANGED <<in_hw_buf, in_buf, in_filled, host_got, host_done, needs_zlp>>
  BY DEF Bystander, UsbDataTransmitted, UsbSetMark, UartPoll, Send, ReportOverrun,
         HoldBack, Decide, SendBegin, Tick, UartByte, sendVars, endpointVars, vars
<1>2. ASSUME NEW k \in Int
      PROVE  Pending(k)' = Pending(k) /\ ContinuesTransfer(k)' = ContinuesTransfer(k)
  BY <1>1 DEF Pending, ContinuesTransfer
<1>3. in_filled \in Int
  BY EndpointTypes DEF SendInv
<1> QED BY <1>1, <1>2, <1>3

\* Bytes are counted as unread as long as the reader does not go on.
LEMMA UnreadStays ==
    ASSUME RingInv, RxByte \/ UNCHANGED <<received, next_rx>>
    PROVE  Unread \in Nat /\ Unread' \in Nat /\ Unread' >= Unread
<1>1. received \in Nat /\ next_rx \in Nat /\ Unread \in Nat /\ received = next_rx + Unread
  BY RxFacts
<1>2. Unread' = received' - next_rx' /\ Unread = received - next_rx
  BY DEF Unread
<1>3. (received' = received \/ received' = received + 1) /\ next_rx' = next_rx
  BY DEF RxByte
<1>4. CASE received' = received
  BY <1>1, <1>2, <1>3, <1>4
<1>5. CASE received' = received + 1
  <2>1. Unread' = Unread + 1
    BY <1>1, <1>2, <1>3, <1>5
  <2> QED BY <1>1, <2>1
<1> QED BY <1>3, <1>4, <1>5

\* With an empty ring the counter tells nothing about whole turns, with a ring
\* that is not empty there is something to read.
LEMMA UnreadOfLevel ==
    ASSUME RingInv
    PROVE  /\ RxDataLen > 0 => Unread > 0
           /\ RxDataLen = 0 /\ Unread > 0 => Unread >= UART_RX_BUF_LEN
<1>1. Unread \in Nat /\ UART_RX_BUF_LEN \in Nat /\ UART_RX_BUF_LEN > 0
  BY RxFacts, RxAssumption
<1>2. RxDataLen = Unread % UART_RX_BUF_LEN
  BY DEF RingInv, PositionsAgree
<1>3. Unread < UART_RX_BUF_LEN => RxDataLen = Unread
  BY <1>1, <1>2, ModSmall
<1>4. Unread = 0 => RxDataLen = 0
  BY <1>1, <1>3
<1> QED BY <1>1, <1>3, <1>4

LEMMA TransfersStay ==
    ASSUME RingInv, SendInv, Bystander PROVE TransfersAgree'
<1>1. UNCHANGED <<in_hw_buf, in_buf, in_filled, host_got, host_done, needs_zlp>>
  BY BystanderFacts
<1>2. TransfersAgree /\ FreeForCopy
  BY DEF SendInv
<1>3. (host_done <= Len(host_got))'
  BY <1>1, <1>2 DEF TransfersAgree
<1>4. (needs_zlp => ContinuesTransfer(in_filled))'
  BY <1>1, <1>2 DEF TransfersAgree, ContinuesTransfer, Pending
<1>5. CASE Decide
  <2>1. /\ sending' = TRUE /\ rx_step' = rx_step /\ rx_step = "read"
        /\ UNCHANGED <<received, next_rx>>
    BY <1>5 DEF Decide, rxVars
  <2>2. needs_zlp \/ RxDataLen > 0
    BY <1>5 DEF Decide, WantsToSend
  <2>3. needs_zlp' \/ Unread' > 0
    BY <1>1, <2>1, <2>2, UnreadOfLevel DEF Unread
  <2> QED BY <1>3, <1>4, <2>1, <2>3 DEF TransfersAgree
<1>6. CASE SendBegin
  <2>1. /\ sending /\ sending' = FALSE
        /\ reading'.head = rx_pos /\ rx_buf_tail' = rx_buf_tail
        /\ UNCHANGED <<received, next_rx>>
    BY <1>6 DEF SendBegin, ReadBegin, uartRxVars
  <2>2. needs_zlp \/ Unread > 0
    BY <1>2, <2>1 DEF TransfersAgree
  <2>3. RxLen(reading'.head, rx_buf_tail') = RxDataLen
    BY <2>1 DEF RxDataLen, RxLen
  <2>4. RxLen(reading'.head, rx_buf_tail') = 0 => needs_zlp' \/ Unread' >= UART_RX_BUF_LEN
    BY <1>1, <2>1, <2>2, <2>3, UnreadOfLevel DEF Unread
  <2>5. (rx_step = "copy" /\ RxLen(reading.head, rx_buf_tail) = 0
           => needs_zlp \/ Unread >= UART_RX_BUF_LEN)'
    BY <2>4 DEF RxLen
  <2> QED BY <1>3, <1>4, <2>1, <2>5 DEF TransfersAgree
<1>7. CASE UsbSetMark \/ Tick \/ UartByte \/ UNCHANGED vars
  <2>1. /\ UNCHANGED <<rx_step, reading, rx_buf_tail, sending>>
        /\ RxByte \/ UNCHANGED <<received, next_rx>>
    BY <1>7 DEF UsbSetMark, SetMark, Tick, UartByte, RxByte, rxVars, vars, uartRxVars,
                sendVars
  <2>2. Unread \in Nat /\ Unread' \in Nat /\ Unread' >= Unread
    BY <2>1, UnreadStays
  <2>3. UART_RX_BUF_LEN \in Nat
    BY RxAssumption
  <2>4. (sending => needs_zlp \/ Unread > 0)'
    BY <1>1, <1>2, <2>1, <2>2 DEF TransfersAgree
  <2>6. (rx_step = "copy" /\ RxLen(reading.head, rx_buf_tail) = 0
           => needs_zlp \/ Unread >= UART_RX_BUF_LEN)'
    <3>1. RxLen(reading.head, rx_buf_tail)' = RxLen(reading.head, rx_buf_tail)
      BY <2>1 DEF RxLen
    <3>2. Unread >= UART_RX_BUF_LEN => Unread' >= UART_RX_BUF_LEN
      BY <2>2, <2>3
    <3> QED BY <1>1, <1>2, <2>1, <3>1, <3>2 DEF TransfersAgree
  <2> QED BY <1>3, <1>4, <2>4, <2>6 DEF TransfersAgree
<1>8. CASE UsbDataTransmitted \/ UartPoll \/ ReportOverrun \/ HoldBack
  <2>1. rx_step' # "copy" /\ sending' = sending /\ (rx_step # "read" \/ ~sending)
    BY <1>8 DEF UsbDataTransmitted, rxVars, UartPoll, RxPoll, ReportOverrun, TakeOverrun,
                HoldBack, SkipRead, sendVars
  <2>2. ~sending'
    BY <1>2, <2>1 DEF FreeForCopy
  <2> QED BY <1>3, <1>4, <2>1, <2>2 DEF TransfersAgree
<1> QED BY <1>5, <1>6, <1>7, <1>8 DEF Bystander, Send

LEMMA TransfersSendEnd == RingInv /\ SendInv /\ SendEnd => TransfersAgree'
<1> SUFFICES ASSUME RingInv, SendInv, SendEnd PROVE TransfersAgree'
  OBVIOUS
<1>1. host_done <= Len(host_got) /\ FreeForCopy
  BY DEF SendInv, TransfersAgree
<1>2. /\ in_filled \in 0 .. 1 /\ in_filled' = in_filled + 1
      /\ host_got' = host_got /\ host_done' = host_done
      /\ needs_zlp' => Len(Packet) = MaxPacket
  BY SendEndFacts
<1>3. rx_step = "copy" /\ rx_step' # "copy" /\ sending' = sending
  BY DEF SendEnd, ReadEnd
<1>4. ~sending'
  BY <1>1, <1>3 DEF FreeForCopy
<1>5. (host_done <= Len(host_got))'
  BY <1>1, <1>2
<1>6. (needs_zlp => ContinuesTransfer(in_filled))'
  <2>1. CASE in_filled = 0
    <3>1. Pending(0)' = Packet /\ in_filled' = 1
      BY <1>2, <2>1, SendEndPending
    <3>2. needs_zlp' => ContinuesTransfer(1)'
      BY <1>2, <3>1 DEF ContinuesTransfer
    <3> QED BY <3>1, <3>2 DEF ContinuesTransfer, Pending
  <2>2. CASE in_filled = 1
    <3>1. Pending(1)' = Packet /\ in_filled' = 2
      BY <1>2, <2>2, SendEndPending
    <3>2. needs_zlp' => ContinuesTransfer(2)'
      BY <1>2, <3>1 DEF ContinuesTransfer
    <3> QED BY <3>1, <3>2 DEF ContinuesTransfer, Pending
  <2> QED BY <1>2, <2>1, <2>2
<1> QED BY <1>3, <1>4, <1>5, <1>6 DEF TransfersAgree

\* A transfer that the first packet does not end goes on with the second one.
LEMMA HostPacketContinues ==
    ASSUME SendInv, HostPacket
    PROVE  /\ (host_done <= Len(host_got))'
           /\ ContinuesTransfer(1) => ContinuesTransfer(0)'
           /\ ContinuesTransfer(2) => ContinuesTransfer(1)'
<1>1. host_done <= Len(host_got)
  BY DEF SendInv, TransfersAgree
<1>2. /\ Pending(0) \in Seq(Int) /\ Len(Pending(0)) \in Nat
      /\ Len(Pending(0)) <= MaxPacket /\ Pending(0)' = Pending(1)
      /\ host_got' = host_got \o Pending(0)
      /\ host_done' = IF Len(Pending(0)) < MaxPacket THEN Len(host_got') ELSE host_done
  BY HostPacketFacts
<1>3. /\ host_got \in Seq(Int) /\ Len(host_got) \in Nat
      /\ host_done \in Nat /\ MaxPacket \in Nat /\ MaxPacket > 0
  <2>1. host_got \in Seq(Int)
    BY EndpointTypes DEF SendInv
  <2>2. Len(host_got) \in Nat
    BY <2>1
  <2> QED BY <2>1, <2>2, EndpointTypes DEF SendInv
<1>4. Len(host_got') = Len(host_got) + Len(Pending(0))
  <2>1. \A a, b \in Seq(Int) : Len(a \o b) = Len(a) + Len(b)
    OBVIOUS
  <2> QED BY <1>2, <1>3, <2>1
<1>5. (host_done <= Len(host_got))'
  BY <1>1, <1>2, <1>3, <1>4
<1>6. ContinuesTransfer(1) => ContinuesTransfer(0)'
  <2>1. ContinuesTransfer(1) <=> Len(Pending(0)) = MaxPacket
    BY DEF ContinuesTransfer
  <2>2. ContinuesTransfer(0)' <=> host_done' < Len(host_got')
    BY DEF ContinuesTransfer
  <2>3. Len(Pending(0)) = MaxPacket => host_done' < Len(host_got')
    BY <1>1, <1>2, <1>3, <1>4
  <2> QED BY <2>1, <2>2, <2>3
<1>7. ContinuesTransfer(2) => ContinuesTransfer(1)'
  BY <1>2 DEF ContinuesTransfer
<1> QED BY <1>5, <1>6, <1>7

LEMMA TransfersHostPacket == SendInv /\ HostPacket => TransfersAgree'
<1> SUFFICES ASSUME SendInv, HostPacket PROVE TransfersAgree'
  OBVIOUS
<1>1. TransfersAgree
  BY DEF SendInv
<1>2. /\ in_filled \in 1 .. 2 /\ in_filled' = in_filled - 1
      /\ UNCHANGED <<rx_step, reading, rx_buf_tail, received, next_rx, needs_zlp>>
  BY HostPacketFacts DEF rxVars, uartRxVars
<1>3. sending' = sending
  BY DEF HostPacket
<1>4. (host_done <= Len(host_got))'
  BY HostPacketContinues
<1>5. (needs_zlp => ContinuesTransfer(in_filled))'
  <2>1. CASE in_filled = 1
    <3>1. in_filled' = 0 /\ (needs_zlp' => ContinuesTransfer(0)')
      BY <1>1, <1>2, <2>1, HostPacketContinues DEF TransfersAgree
    <3> QED BY <3>1 DEF ContinuesTransfer, Pending
  <2>2. CASE in_filled = 2
    <3>1. in_filled' = 1 /\ (needs_zlp' => ContinuesTransfer(1)')
      BY <1>1, <1>2, <2>2, HostPacketContinues DEF TransfersAgree
    <3> QED BY <3>1 DEF ContinuesTransfer, Pending
  <2> QED BY <1>2, <2>1, <2>2
<1>6. (/\ sending => needs_zlp \/ Unread > 0
       /\ rx_step = "copy" /\ RxLen(reading.head, rx_buf_tail) = 0
            => needs_zlp \/ Unread >= UART_RX_BUF_LEN)'
  BY <1>1, <1>2, <1>3 DEF TransfersAgree, RxLen, Unread
<1> QED BY <1>4, <1>5, <1>6 DEF TransfersAgree

----------------------------------------------------------------------------
(* Theorems *)

LEMMA SendStep == RingInv /\ SendInv /\ [Next]_vars => SendInv'
<1> SUFFICES ASSUME RingInv, SendInv, [Next]_vars PROVE SendInv'
  OBVIOUS
<1>1. RxTypeOK'
  BY RxStep, RingStep DEF RingInv
<1>2. TransfersAgree'
  BY TransfersStay, TransfersSendEnd, TransfersHostPacket DEF Next, Bystander
<1> QED BY <1>1, <1>2, SendTypes, AgreeStep, FreeStep, LossStep DEF SendInv

\* The receive side behaves as its own specification says, fairness apart.
LEMMA RingHolds == Spec => []RingInv
<1>1. Init => RingInv
  BY RingInit DEF Init
<1>2. RingInv /\ [Next]_vars => RingInv'
  BY RxStep, RingStep
<1> QED BY <1>1, <1>2, PTL DEF Spec

\* The inductive invariant, whatever the peer and the host do.
THEOREM SendInvariant == Spec => []SendInv
<1>1. Init => SendInv
  BY SendInit
<1>2. RingInv /\ SendInv /\ [Next]_vars => SendInv'
  BY SendStep
<1> QED BY <1>1, <1>2, RingHolds, PTL DEF Spec

\* Driver and peripheral agree on the two packet buffers.
THEOREM BuffersAgree == Spec => []EndpointAgrees
<1>1. SendInv => EndpointAgrees
  BY DEF SendInv
<1> QED BY <1>1, SendInvariant, PTL

\* The receive side loses nothing that a peer obeying RTS sends, in this path too.
LEMMA RxHolds == ASSUME RoomAboveMark PROVE Spec => []RxInv
<1>1. Init => RxInv
  BY InvInit DEF Init
<1>2. RxInv /\ [Next]_vars => RxInv'
  BY RxStep, InvStep
<1> QED BY <1>1, <1>2, PTL DEF Spec

----------------------------------------------------------------------------
(* Empty packets. *)

\* With a peer that obeys RTS every empty packet that waits completes a transfer.
EmptyPacketsDue ==
    peer = "obeys" =>
        \A k \in 0 .. in_filled - 1 : Len(Pending(k)) = 0 => ContinuesTransfer(k)

LEMMA DueSendEnd ==
    ASSUME RxInv, SendInv, EmptyPacketsDue, SendEnd, peer = "obeys"
    PROVE  \A k \in 0 .. in_filled' - 1 : Len(Pending(k)') = 0 => ContinuesTransfer(k)'
<1>1. /\ in_filled \in 0 .. 1 /\ in_filled' = in_filled + 1
      /\ host_got' = host_got /\ host_done' = host_done
      /\ Len(Packet) = 0 => needs_zlp \/ Unread >= UART_RX_BUF_LEN
  BY SendEndFacts DEF RxInv
<1>2. Unread \in Nat /\ Unread < UART_RX_BUF_LEN /\ UART_RX_BUF_LEN \in Nat
  BY RxFacts, RxAssumption DEF RxInv, UnreadFits
<1>3. Len(Packet) = 0 => ContinuesTransfer(in_filled)
  BY <1>1, <1>2 DEF SendInv, TransfersAgree
<1>4. ContinuesTransfer(0)' <=> ContinuesTransfer(0)
  BY <1>1 DEF ContinuesTransfer
<1>5. CASE in_filled = 0
  <2>1. Pending(0)' = Packet /\ in_filled' = 1
    BY <1>1, <1>5, SendEndPending DEF RxInv
  <2>2. Len(Pending(0)') = 0 => ContinuesTransfer(0)'
    BY <1>3, <1>4, <1>5, <2>1
  <2> QED BY <2>1, <2>2
<1>6. CASE in_filled = 1
  <2>1. Pending(0)' = Pending(0) /\ Pending(1)' = Packet /\ in_filled' = 2
    BY <1>1, <1>6, SendEndPending DEF RxInv
  <2>2. Len(Pending(0)) = 0 => ContinuesTransfer(0)
    BY <1>6 DEF EmptyPacketsDue
  <2>3. Len(Pending(0)') = 0 => ContinuesTransfer(0)'
    BY <1>4, <2>1, <2>2
  <2>4. ContinuesTransfer(1)' <=> ContinuesTransfer(1)
    BY <2>1 DEF ContinuesTransfer
  <2>5. Len(Pending(1)') = 0 => ContinuesTransfer(1)'
    BY <1>3, <1>6, <2>1, <2>4
  <2>6. \A k \in 0 .. in_filled' - 1 : k = 0 \/ k = 1
    BY <2>1
  <2> QED BY <2>3, <2>5, <2>6
<1> QED BY <1>1, <1>5, <1>6

LEMMA DueHostPacket ==
    ASSUME SendInv, EmptyPacketsDue, HostPacket, peer = "obeys"
    PROVE  \A k \in 0 .. in_filled' - 1 : Len(Pending(k)') = 0 => ContinuesTransfer(k)'
<1>1. /\ in_filled \in 1 .. 2 /\ in_filled' = in_filled - 1 /\ Pending(0)' = Pending(1)
  BY HostPacketFacts
<1>2. CASE in_filled = 1
  BY <1>1, <1>2
<1>3. CASE in_filled = 2
  <2>1. Len(Pending(1)) = 0 => ContinuesTransfer(1)
    BY <1>3 DEF EmptyPacketsDue
  <2>2. Len(Pending(0)') = 0 => ContinuesTransfer(0)'
    BY <1>1, <2>1, HostPacketContinues
  <2>3. \A k \in 0 .. in_filled' - 1 : k = 0
    BY <1>1, <1>3
  <2> QED BY <2>2, <2>3
<1> QED BY <1>1, <1>2, <1>3

LEMMA DueStep ==
    ASSUME RxInv, SendInv, EmptyPacketsDue, [Next]_vars PROVE EmptyPacketsDue'
<1>1. peer' = peer
  BY RxStep, PeerStays
<1>2. SUFFICES ASSUME peer = "obeys"
               PROVE  \A k \in 0 .. in_filled' - 1 :
                          Len(Pending(k)') = 0 => ContinuesTransfer(k)'
  BY <1>1 DEF EmptyPacketsDue, Pending, ContinuesTransfer
<1>3. CASE SendEnd
  BY <1>2, <1>3, DueSendEnd
<1>4. CASE HostPacket
  BY <1>2, <1>4, DueHostPacket
<1>5. CASE Bystander
  <2>1. /\ in_filled' = in_filled /\ in_filled \in Int
        /\ \A k \in Int :
              Pending(k)' = Pending(k) /\ ContinuesTransfer(k)' = ContinuesTransfer(k)
    BY <1>5, BystanderFacts
  <2> QED BY <1>2, <2>1 DEF EmptyPacketsDue
<1> QED BY <1>3, <1>4, <1>5 DEF Next, Bystander

LEMMA DueHolds == ASSUME RoomAboveMark PROVE Spec => []EmptyPacketsDue
<1>1. Init => EmptyPacketsDue
  BY DEF Init, EmptyPacketsDue
<1>2. RxInv /\ SendInv /\ EmptyPacketsDue /\ [Next]_vars => EmptyPacketsDue'
  BY DueStep
<1> QED BY <1>1, <1>2, RxHolds, SendInvariant, PTL DEF Spec

\* An empty packet is made only where one is due, or where the DMA channel has
\* gained a whole turn on the reader, whatever the peer does.
LEMMA EmptyIsDue ==
    ASSUME RingInv, SendInv, Next, in_filled' > in_filled, copied' = copied
    PROVE  needs_zlp \/ Unread >= UART_RX_BUF_LEN
<1>1. in_filled \in 0 .. 2
  BY EndpointTypes DEF SendInv
<1>2. SendEnd
  <2>1. HostPacket => in_filled' = in_filled - 1
    BY HostPacketFacts
  <2>2. Bystander => in_filled' = in_filled
    BY BystanderFacts
  <2> QED BY <1>1, <2>1, <2>2 DEF Next, Bystander
<1>3. /\ copied' = copied \o Packet /\ Packet \in Seq(Int)
      /\ Len(Packet) = 0 => needs_zlp \/ Unread >= UART_RX_BUF_LEN
  BY <1>2, SendEndFacts
<1>4. Len(Packet) = 0
  <2>1. copied \in Seq(Int)
    BY EndpointTypes DEF SendInv
  <2>2. Len(copied \o Packet) = Len(copied) + Len(Packet)
    BY <1>3, <2>1
  <2> QED BY <1>3, <2>1, <2>2
<1> QED BY <1>3, <1>4

\* An empty packet that the host gets from a peer that obeys RTS completes a transfer.
LEMMA EmptyCompletes ==
    ASSUME RingInv, SendInv, EmptyPacketsDue, Next, peer = "obeys",
           in_filled' < in_filled, in_buf[in_hw_buf] = <<>>
    PROVE  host_done < Len(host_got)
<1>1. in_filled \in 0 .. 2 /\ in_hw_buf \in 0 .. 1
  BY EndpointTypes DEF SendInv
<1>2. HostPacket
  <2>1. SendEnd => in_filled' = in_filled + 1
    BY SendEndFacts
  <2>2. Bystander => in_filled' = in_filled
    BY BystanderFacts
  <2> QED BY <1>1, <2>1, <2>2 DEF Next, Bystander
<1>3. in_filled \in 1 .. 2
  BY <1>2, HostPacketFacts
<1>4. Pending(0) = <<>>
  <2>1. (in_hw_buf + 0) % 2 = in_hw_buf
    BY <1>1, NextBuffer
  <2> QED BY <2>1 DEF Pending
<1>5. 0 \in 0 .. in_filled - 1 /\ Len(Pending(0)) = 0
  BY <1>3, <1>4
<1> QED BY <1>5 DEF EmptyPacketsDue, ContinuesTransfer

\* An empty packet is made only if one is due or the ring has been overrun; with
\* room above the marks and a peer that obeys RTS, every empty packet the host
\* gets completes a transfer.
THEOREM NoFlood == ASSUME RoomAboveMark PROVE Spec => NoNeedlessPackets
<1>1. SendInv /\ RingInv /\ EmptyPacketsDue /\ [Next]_vars
        => [/\ in_filled' > in_filled /\ copied' = copied
                 => needs_zlp \/ Unread >= UART_RX_BUF_LEN
            /\ peer = "obeys" /\ in_filled' < in_filled /\ in_buf[in_hw_buf] = <<>>
                 => host_done < Len(host_got)]_vars
  BY EmptyIsDue, EmptyCompletes
<1> QED BY <1>1, SendInvariant, RingHolds, DueHolds, PTL DEF Spec, NoNeedlessPackets

----------------------------------------------------------------------------
(* The lossless pipe. *)

\* What the host has got is what was sent to the adapter, from the first byte on.
LEMMA HostGotFacts ==
    ASSUME RxInv, SendInv, peer = "obeys"
    PROVE  /\ host_got \in Seq(Int) /\ Len(host_got) \in Nat
           /\ \A i \in 1 .. Len(host_got) : host_got[i] = i - 1
           /\ received \in Nat /\ Len(host_got) <= received
           /\ received < UART_RX_BUF_LEN + 2 * MaxPacket + Len(host_got)
<1>1. host_got \in Seq(Int) /\ MaxPacket \in Nat /\ copied = host_got \o InFlight
  BY EndpointTypes DEF SendInv, NothingLost
<1>2. InFlight \in Seq(Int) /\ Len(InFlight) \in Nat /\ Len(InFlight) <= 2 * MaxPacket
  BY InFlightFacts DEF SendInv
<1>3. /\ received \in Nat /\ next_rx \in Nat /\ Unread \in Nat
      /\ received = next_rx + Unread /\ UART_RX_BUF_LEN \in Nat
  BY RxFacts DEF RxInv
<1>4. /\ Len(copied) = next_rx /\ Unread < UART_RX_BUF_LEN
      /\ \A i \in 1 .. Len(copied) : copied[i] = i - 1
  BY DEF RxInv, LosslessInv, UnreadFits, CopiedInOrder
<1>5. Len(host_got) \in Nat
  BY <1>1
<1>6. \A a, b \in Seq(Int) :
          /\ Len(a \o b) = Len(a) + Len(b)
          /\ \A i \in 1 .. Len(a) : (a \o b)[i] = a[i]
  OBVIOUS
<1>7. /\ Len(copied) = Len(host_got) + Len(InFlight)
      /\ \A i \in 1 .. Len(host_got) : copied[i] = host_got[i]
  BY <1>1, <1>2, <1>6
<1>8. \A i \in 1 .. Len(host_got) : host_got[i] = i - 1
  <2> TAKE i \in 1 .. Len(host_got)
  <2>1. i \in 1 .. Len(copied)
    BY <1>2, <1>5, <1>7
  <2> QED BY <1>4, <1>7, <2>1
<1>9. Len(host_got) <= received
  BY <1>2, <1>3, <1>4, <1>5, <1>7
<1>10. received < UART_RX_BUF_LEN + 2 * MaxPacket + Len(host_got)
  BY <1>1, <1>2, <1>3, <1>4, <1>5, <1>7
<1> QED BY <1>1, <1>3, <1>5, <1>8, <1>9, <1>10

\* A byte from the line is put into the pipe.
LEMMA UartByteSends ==
    ASSUME RxInv', SendInv', UartByte, peer = "obeys", RxInv, SendInv
    PROVE  Pipe!Send
<1>1. /\ received' = received + 1 /\ received < MaxReceived
      /\ host_got' = host_got /\ peer' = peer
  BY DEF UartByte, RxByte, sendVars, endpointVars
<1>2. /\ received \in Nat /\ Len(host_got) \in Nat
  BY HostGotFacts
<1>3. received' < UART_RX_BUF_LEN + 2 * MaxPacket + Len(host_got')
  <2>1. (RxInv /\ SendInv /\ peer = "obeys"
           => received < UART_RX_BUF_LEN + 2 * MaxPacket + Len(host_got))'
    BY HostGotFacts, PTL
  <2> QED BY <1>1, <2>1
<1>4. UART_RX_BUF_LEN \in Nat /\ MaxPacket \in Nat /\ MaxPacket > 0 /\ MaxReceived \in Nat
  BY RxAssumption, SendAssumption
<1>5. /\ PipeSent = received /\ PipeSent' = received + 1
      /\ PipeOut = host_got /\ PipeOut' = host_got
  BY <1>1 DEF PipeSent, PipeOut
<1>6. /\ received + 1 - Len(host_got) <= UART_RX_BUF_LEN - 1 + 2 * MaxPacket
      /\ received + 1 <= MaxReceived /\ 1 \in 1 .. MaxPacket
  BY <1>1, <1>2, <1>3, <1>4
<1> QED BY <1>5, <1>6 DEF Pipe!Send

\* A packet comes out of it, unless it is empty.
LEMMA HostPacketDelivers ==
    ASSUME RxInv, SendInv, RxInv', SendInv', HostPacket, peer = "obeys"
    PROVE  Pipe!Deliver \/ UNCHANGED <<PipeSent, PipeOut>>
<1> DEFINE n == Len(Pending(0))
<1>1. /\ Pending(0) \in Seq(Int) /\ n \in Nat /\ n <= MaxPacket
      /\ host_got' = host_got \o Pending(0)
      /\ received' = received /\ peer' = peer
  BY HostPacketFacts DEF rxVars
<1>2. host_got \in Seq(Int) /\ Len(host_got) \in Nat /\ received \in Nat
  BY HostGotFacts
<1>3. (RxInv /\ SendInv /\ peer = "obeys"
         => /\ host_got \in Seq(Int) /\ Len(host_got) <= received
            /\ \A i \in 1 .. Len(host_got) : host_got[i] = i - 1)'
  BY HostGotFacts, PTL
<1>4. /\ host_got' \in Seq(Int) /\ Len(host_got') <= received
      /\ \A i \in 1 .. Len(host_got') : host_got'[i] = i - 1
  BY <1>1, <1>3
<1>5. Len(host_got') = Len(host_got) + n
  <2>1. \A a, b \in Seq(Int) : Len(a \o b) = Len(a) + Len(b)
    OBVIOUS
  <2> QED BY <1>1, <1>2, <2>1
<1>6. /\ PipeSent = received /\ PipeSent' = received
      /\ PipeOut = host_got /\ PipeOut' = host_got'
  BY <1>1 DEF PipeSent, PipeOut
<1>7. CASE n = 0
  <2>1. Pending(0) = <<>>
    BY <1>1, <1>7
  <2>2. host_got' = host_got
    BY <1>1, <1>2, <2>1, ConcatEmptySeq
  <2> QED BY <1>6, <2>2
<1>8. CASE n # 0
  <2>1. host_got' = [i \in 1 .. Len(host_got) + n |-> i - 1]
    BY <1>4, <1>5
  <2>2. n \in 1 .. MaxPacket
    BY <1>1, <1>8, SendAssumption
  <2> HIDE DEF n
  <2> QED BY <1>4, <1>5, <1>6, <2>1, <2>2 DEF Pipe!Deliver
<1> QED BY <1>7, <1>8

\* With room above the marks, the way from the line to the host implements the
\* lossless pipe for a peer that obeys RTS: the ring and the two packet buffers
\* are all it holds.
THEOREM ReceiveImplementsPipe == ASSUME RoomAboveMark PROVE Spec => PipeSafety
<1>1. Init => Pipe!Init
  BY DEF Init, RxInit, Pipe!Init, PipeSent, PipeOut
<1>2. RxInv /\ SendInv /\ RxInv' /\ SendInv' /\ [Next]_vars
        => [Pipe!Next]_<<PipeSent, PipeOut>>
  <2> SUFFICES ASSUME RxInv, SendInv, RxInv', SendInv', [Next]_vars
               PROVE  Pipe!Next \/ UNCHANGED <<PipeSent, PipeOut>>
    OBVIOUS
  <2>1. peer' = peer
    BY RxStep, PeerStays
  <2>2. CASE peer # "obeys"
    BY <2>1, <2>2 DEF PipeSent, PipeOut
  <2>3. CASE peer = "obeys"
    <3>1. CASE UartByte
      BY <2>3, <3>1, UartByteSends DEF Pipe!Next
    <3>2. CASE HostPacket
      BY <2>3, <3>2, HostPacketDelivers DEF Pipe!Next
    <3>3. CASE UsbDataTransmitted \/ UsbSetMark \/ UartPoll \/ Send \/ SendEnd \/ Tick
               \/ UNCHANGED vars
      <4>1. UNCHANGED <<received, host_got>>
        BY <3>3 DEF UsbDataTransmitted, UsbSetMark, SetMark, UartPoll, RxPoll, Send,
                    ReportOverrun, TakeOverrun, HoldBack, SkipRead, Decide, SendBegin,
                    ReadBegin, SendEnd, ReadEnd, Tick, rxVars, sendVars, endpointVars, vars
      <4> QED BY <2>1, <4>1 DEF PipeSent, PipeOut
    <3> QED BY <3>1, <3>2, <3>3 DEF Next
  <2> QED BY <2>2, <2>3
<1> QED BY <1>1, <1>2, RxHolds, SendInvariant, PTL DEF Spec, PipeSafety
=============================================================================
