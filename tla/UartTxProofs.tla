---------------------------- MODULE UartTxProofs ----------------------------
(* Theorems about the transmit side of the UART (module UartTx), for every  *)
(* ring length, chunk size and packet length.                               *)
EXTENDS UartTx, TLAPS

\* A cell is a number below the length of the ring.
USE DEF Cells

\* Lesser is the minimum.
LEMMA LesserFacts ==
    ASSUME NEW a \in Int, NEW b \in Int
    PROVE  /\ Lesser(a, b) \in Int
           /\ Lesser(a, b) <= a /\ Lesser(a, b) <= b
           /\ Lesser(a, b) = a \/ Lesser(a, b) = b
BY DEF Lesser

\* Two calls of transmit() do all the work: together they copy what the ring
\* has room for, the second only after a wrap-around, and a third would find
\* the block copied or the ring full.
LEMMA TwoCalls ==
    ASSUME NEW head \in Cells, NEW tail \in Cells, NEW len \in Nat,
           NEW c1, c1 = Lesser(len, AvailChunk(head, tail)),
           NEW h1, h1 = TxWrap(head + c1),
           NEW c2, c2 = Lesser(len - c1, AvailChunk(h1, tail)),
           NEW h2, h2 = TxWrap(h1 + c2)
    PROVE  /\ c1 \in Nat /\ c2 \in Nat
           /\ h1 \in Cells /\ h2 \in Cells
           /\ c1 = 0 => c2 = 0
           /\ c1 # 0 => h1 # tail
           /\ head + c1 <= UART_TX_BUF_LEN
           /\ c2 # 0 => /\ h1 = 0 /\ head + c1 = UART_TX_BUF_LEN
                        /\ tail <= head /\ c2 < tail
           /\ head < tail => head + c1 < tail
           /\ c1 + c2 = Lesser(len, TxAvail(head, tail))
           /\ TxAvail(h1, tail) = TxAvail(head, tail) - c1
           /\ TxAvail(h2, tail) = TxAvail(head, tail) - (c1 + c2)
           /\ len = c1 + c2 \/ AvailChunk(h2, tail) = 0
<1> USE TxAssumption
<1>0. c1 \in Int /\ h1 \in Int /\ c2 \in Int /\ h2 \in Int
  BY DEF Lesser, AvailChunk, TxWrap
<1>1. CASE head < tail
  <2>1. AvailChunk(head, tail) = tail - head - 1
    BY <1>1 DEF AvailChunk
  <2>2. c1 >= 0 /\ c1 <= tail - head - 1 /\ c1 <= len /\ (c1 = len \/ c1 = tail - head - 1)
    BY <1>1, <2>1 DEF Lesser
  <2>3. h1 = head + c1 /\ h1 < tail
    BY <1>0, <2>2 DEF TxWrap
  <2>4. AvailChunk(h1, tail) = tail - h1 - 1
    BY <2>3, <1>0 DEF AvailChunk
  <2>5. c2 = 0
    BY <1>0, <2>2, <2>3, <2>4 DEF Lesser
  <2>6. h2 = h1
    BY <1>0, <2>3, <2>5 DEF TxWrap
  <2>7. len = c1 \/ AvailChunk(h2, tail) = 0
    BY <1>0, <2>2, <2>3, <2>4, <2>6
  <2>8. c1 + c2 = Lesser(len, TxAvail(head, tail))
    BY <1>0, <1>1, <2>2, <2>5 DEF Lesser, TxAvail
  <2>9. TxAvail(h2, tail) = TxAvail(head, tail) - (c1 + c2)
    BY <1>0, <1>1, <2>3, <2>5, <2>6 DEF TxAvail
  <2>10. c1 \in Nat /\ c2 \in Nat
    BY <1>0, <2>2, <2>5
  <2>11. h1 \in Cells /\ h2 \in Cells
    BY <1>0, <2>2, <2>3, <2>6
  <2>12. (c1 = 0 => c2 = 0) /\ (c1 # 0 => h1 # tail)
    BY <1>0, <2>3, <2>5
  <2>13. head + c1 <= UART_TX_BUF_LEN /\ (head < tail => head + c1 < tail)
    BY <1>0, <2>3
  <2>14. len = c1 + c2 \/ AvailChunk(h2, tail) = 0
    BY <1>0, <2>5, <2>7
  <2>15. TxAvail(h1, tail) = TxAvail(head, tail) - c1
    BY <1>0, <1>1, <2>3 DEF TxAvail
  <2> QED BY <2>5, <2>8, <2>9, <2>10, <2>11, <2>12, <2>13, <2>14, <2>15
<1>2. CASE head >= tail /\ tail # 0
  <2>1. AvailChunk(head, tail) = UART_TX_BUF_LEN - head
    BY <1>2 DEF AvailChunk
  <2>2. c1 >= 0 /\ c1 <= UART_TX_BUF_LEN - head /\ c1 <= len /\ (c1 = len \/ c1 = UART_TX_BUF_LEN - head)
    BY <1>2, <2>1 DEF Lesser
  <2>3. CASE c1 < UART_TX_BUF_LEN - head
    <3>1. c1 = len /\ h1 = head + c1 /\ h1 >= tail
      BY <1>0, <1>2, <2>2, <2>3 DEF TxWrap
    <3>2. AvailChunk(h1, tail) = UART_TX_BUF_LEN - h1
      BY <1>0, <1>2, <3>1 DEF AvailChunk
    <3>3. c2 = 0 /\ h2 = h1
      BY <1>0, <1>2, <2>3, <3>1, <3>2 DEF Lesser, TxWrap
    <3> QED BY <1>0, <1>2, <2>1, <2>2, <2>3, <3>1, <3>2, <3>3 DEF Lesser, TxAvail
  <2>4. CASE c1 = UART_TX_BUF_LEN - head
    <3>1. h1 = 0
      BY <1>0, <1>2, <2>2, <2>4 DEF TxWrap
    <3>2. AvailChunk(h1, tail) = tail - 1
      BY <1>0, <1>2, <3>1 DEF AvailChunk
    <3>3. c2 >= 0 /\ c2 <= tail - 1 /\ c2 <= len - c1 /\ (c2 = len - c1 \/ c2 = tail - 1)
      BY <1>0, <1>2, <2>2, <2>4, <3>2 DEF Lesser
    <3>4. h2 = c2
      BY <1>0, <1>2, <3>1, <3>3 DEF TxWrap
    <3>5. AvailChunk(h2, tail) = tail - c2 - 1
      BY <1>0, <1>2, <3>3, <3>4 DEF AvailChunk
    <3>6. TxAvail(h1, tail) = TxAvail(head, tail) - c1
      BY <1>0, <1>2, <2>4, <3>1 DEF TxAvail
    <3>7. TxAvail(h2, tail) = TxAvail(head, tail) - (c1 + c2)
      BY <1>0, <1>2, <2>4, <3>3, <3>4 DEF TxAvail
    <3>8. c1 + c2 = Lesser(len, TxAvail(head, tail))
      BY <1>0, <1>2, <2>2, <2>4, <3>3 DEF Lesser, TxAvail
    <3>9. len = c1 + c2 \/ AvailChunk(h2, tail) = 0
      BY <1>0, <1>2, <3>3, <3>5
    <3> QED BY <1>0, <1>2, <2>2, <2>4, <3>1, <3>3, <3>4, <3>6, <3>7, <3>8, <3>9
  <2> QED BY <1>0, <2>2, <2>3, <2>4
<1>3. CASE head >= tail /\ tail = 0
  <2>1. AvailChunk(head, tail) = UART_TX_BUF_LEN - 1 - head
    BY <1>3 DEF AvailChunk
  <2>2. c1 >= 0 /\ c1 <= UART_TX_BUF_LEN - 1 - head /\ c1 <= len /\ (c1 = len \/ c1 = UART_TX_BUF_LEN - 1 - head)
    BY <1>3, <2>1 DEF Lesser
  <2>3. h1 = head + c1 /\ h1 < UART_TX_BUF_LEN
    BY <1>0, <1>3, <2>2 DEF TxWrap
  <2>4. AvailChunk(h1, tail) = UART_TX_BUF_LEN - 1 - h1
    BY <1>0, <1>3, <2>2, <2>3 DEF AvailChunk
  <2>5. c2 = 0 /\ h2 = h1
    BY <1>0, <1>3, <2>2, <2>3, <2>4 DEF Lesser, TxWrap
  <2>6. len = c1 \/ AvailChunk(h2, tail) = 0
    BY <1>0, <2>2, <2>3, <2>4, <2>5
  <2>7. c1 + c2 = Lesser(len, TxAvail(head, tail))
    BY <1>0, <1>3, <2>2, <2>5 DEF Lesser, TxAvail
  <2>8. TxAvail(h2, tail) = TxAvail(head, tail) - (c1 + c2)
    BY <1>0, <1>3, <2>2, <2>3, <2>5 DEF TxAvail
  <2>9. c1 \in Nat /\ c2 \in Nat
    BY <1>0, <2>2, <2>5
  <2>10. h1 \in Cells /\ h2 \in Cells
    BY <1>0, <2>2, <2>3, <2>5
  <2>11. (c1 = 0 => c2 = 0) /\ (c1 # 0 => h1 # tail)
    BY <1>0, <1>3, <2>2, <2>3, <2>5
  <2>12. head + c1 <= UART_TX_BUF_LEN
    BY <1>0, <2>2
  <2>13. len = c1 + c2 \/ AvailChunk(h2, tail) = 0
    BY <1>0, <2>5, <2>6
  <2>14. TxAvail(h1, tail) = TxAvail(head, tail) - c1
    BY <1>0, <1>3, <2>2, <2>3 DEF TxAvail
  <2> QED BY <1>3, <2>5, <2>7, <2>8, <2>9, <2>10, <2>11, <2>12, <2>13, <2>14
<1> QED BY <1>1, <1>2, <1>3

----------------------------------------------------------------------------
(* Type correctness and the inductive invariant. *)

LEMMA TxInitInv == TxInit => TxInv
<1> SUFFICES ASSUME TxInit PROVE TxInv
  OBVIOUS
<1> USE TxAssumption DEF TxInit
<1>1. TxTypeOK
  BY DEF TxTypeOK, Transfer, Idle
<1>2. WireInOrder
  BY DEF WireInOrder
<1>3. Used = 0
  BY DEF Used, UsedBetween, TxAvail
<1>4. TxConservation
  BY <1>3 DEF TxConservation, Idle
<1>5. IdleOnlyWhenEmpty /\ XferInv
  BY DEF IdleOnlyWhenEmpty, XferInv, XferOK, Idle
<1>6. HeldInOrder
  BY <1>3 DEF HeldInOrder, Offset
<1> QED BY <1>1, <1>2, <1>4, <1>5, <1>6 DEF TxInv

\* The invariant without the cells: Used is in range, and the length of the
\* ring bounds the transfer.
LEMMA UsedFacts ==
    ASSUME TxTypeOK
    PROVE  /\ Used \in 0 .. UART_TX_BUF_LEN - 1
           /\ TxDataAvail \in 0 .. UART_TX_BUF_LEN - 1
           /\ Used = 0 <=> tx_buf_head = tx_buf_tail
           /\ \A i \in Cells : Offset(i) \in Cells
           /\ Len(wire) \in Nat
BY TxAssumption DEF TxTypeOK, Used, UsedBetween, TxDataAvail, TxAvail, Offset

\* What the invariant says of single values, for the arithmetic.
LEMMA TxFacts ==
    ASSUME TxInv
    PROVE  /\ TxTypeOK
           /\ UART_TX_BUF_LEN \in Nat /\ UART_TX_BUF_LEN > 1
           /\ tx_buf_head \in Cells /\ tx_buf_tail \in Cells
           /\ xfer \in Transfer
           /\ xfer.tx_size \in Nat /\ xfer.left \in Nat /\ xfer.pos \in Nat
           /\ xfer.tcif \in BOOLEAN
           /\ Used \in Nat /\ Used < UART_TX_BUF_LEN
           /\ Len(wire) \in Nat /\ tx_base \in Nat /\ accepted \in Nat
<1>1. TxTypeOK
  BY DEF TxInv
<1>2. UART_TX_BUF_LEN \in Nat /\ UART_TX_BUF_LEN > 1
  BY TxAssumption
<1>3. Used \in Nat /\ Used < UART_TX_BUF_LEN
  BY <1>1, <1>2, UsedFacts
<1> QED BY <1>1, <1>2, <1>3 DEF TxTypeOK, Transfer

\* set_coding() touches none of it.
LEMMA SetCodingInv == TxInv /\ SetCoding => TxInv'
<1> SUFFICES ASSUME TxInv, SetCoding PROVE TxInv'
  OBVIOUS
<1>1. TxTypeOK'
  BY DEF TxInv, TxTypeOK, SetCoding
<1>2. Used' = Used /\ FirstHeld' = FirstHeld
  BY DEF SetCoding, Used, FirstHeld
<1>3. HeldInOrder'
  BY <1>2 DEF TxInv, HeldInOrder, SetCoding, Offset
<1> QED BY <1>1, <1>2, <1>3 DEF TxInv, SetCoding, WireInOrder, TxConservation,
           IdleOnlyWhenEmpty, XferInv, Used

\* enable() starts again with an empty ring.
LEMMA EnableInv == TxInv /\ Enable => TxInv'
<1> SUFFICES ASSUME TxInv, Enable PROVE TxInv'
  OBVIOUS
<1> USE TxAssumption DEF Enable
<1>1. TxTypeOK'
  BY DEF TxInv, TxTypeOK, Transfer, Idle
<1>2. WireInOrder'
  BY DEF WireInOrder
<1>3. Used' = 0
  BY DEF Used, UsedBetween, TxAvail
<1>4. TxConservation'
  BY <1>1, <1>3 DEF TxConservation, Idle, TxTypeOK, Transfer
<1>5. IdleOnlyWhenEmpty' /\ XferInv'
  BY DEF IdleOnlyWhenEmpty, XferInv, XferOK, Idle
<1>6. HeldInOrder'
  BY <1>3 DEF HeldInOrder, Offset
<1> QED BY <1>1, <1>2, <1>4, <1>5, <1>6 DEF TxInv

----------------------------------------------------------------------------
(* The transfer. *)

\* start_transmission() programs a transfer of cells the ring holds, and
\* leaves the UART idle only if the ring is empty.
LEMMA StartFacts ==
    ASSUME TxTypeOK,
           NEW head \in Cells, NEW tail \in Cells, NEW x \in Transfer,
           XferOK(x, tail, UsedBetween(head, tail)),
           NEW y, y = StartTransmission(x, head, tail)
    PROVE  /\ y \in Transfer
           /\ XferOK(y, tail, UsedBetween(head, tail))
           /\ y.is_transmitting \/ head = tail
           /\ y.tx_size - y.left = x.tx_size - x.left
<1> USE TxAssumption
<1>1. CASE x.is_transmitting \/ head = tail
  BY <1>1 DEF StartTransmission
<1>2. CASE ~x.is_transmitting /\ head # tail
  <2> DEFINE n == DmaChunk(head, tail)
  <2>1. tx_max_chunk_size \in Nat /\ tx_max_chunk_size > 0
    BY DEF TxTypeOK
  <2>2. /\ n \in Nat /\ n > 0
        /\ n <= UsedBetween(head, tail)
        /\ tail + n <= UART_TX_BUF_LEN
    BY <1>2, <2>1 DEF DmaChunk, Lesser, UsedBetween, TxAvail
  <2>3. x = Idle
    BY <1>2 DEF XferOK
  <2> HIDE DEF n
  <2>4. y = [is_transmitting |-> TRUE, tx_size |-> n, on |-> TRUE,
             pos |-> tail, left |-> n, tcif |-> FALSE]
    BY <1>2, <2>3 DEF StartTransmission, Idle, n
  <2>5. y \in Transfer
    BY <2>2, <2>4 DEF Transfer
  <2>6. UsedBetween(head, tail) \in Nat
    BY DEF UsedBetween, TxAvail
  <2>7. /\ y.is_transmitting /\ y.on /\ ~y.tcif
        /\ y.tx_size = n /\ y.left = n /\ y.pos = tail
    BY <2>4
  <2>9. /\ y.tx_size \in 1 .. UsedBetween(head, tail)
        /\ tail + y.tx_size <= UART_TX_BUF_LEN
        /\ y.left \in 0 .. y.tx_size
        /\ y.pos = tail + y.tx_size - y.left
    BY <2>2, <2>6, <2>7
  <2>10. y.tcif = (y.left = 0)
    <3>1. y.tcif = FALSE
      BY <2>4
    <3>2. (y.left = 0) = FALSE
      BY <2>2, <2>7
    <3> QED BY <3>1, <3>2
  <2>11. XferOK(y, tail, UsedBetween(head, tail))
    BY <2>7, <2>9, <2>10 DEF XferOK
  <2>8. x.tx_size = 0 /\ x.left = 0
    BY <2>3 DEF Idle
  <2> QED BY <2>2, <2>5, <2>7, <2>8, <2>11
<1> QED BY <1>1, <1>2

\* More bytes in the ring do not disturb a transfer.
LEMMA XferMonotone ==
    ASSUME NEW x \in Transfer, NEW tail \in Cells, NEW u \in Nat, NEW v \in Nat,
           u <= v, XferOK(x, tail, u)
    PROVE  XferOK(x, tail, v)
BY DEF XferOK, Transfer

----------------------------------------------------------------------------
\* The DMA channel sends the oldest byte that has not been sent.
LEMMA DmaByteInv == TxInv /\ DmaByte => TxInv'
<1> SUFFICES ASSUME TxInv, DmaByte PROVE TxInv'
  OBVIOUS
<1>1. /\ UART_TX_BUF_LEN \in Nat /\ tx_buf_tail \in Nat
      /\ tx_buf_tail < UART_TX_BUF_LEN
      /\ Used \in Nat /\ Used < UART_TX_BUF_LEN
  BY TxFacts
<1>2. wire \in Seq(Int) /\ Len(wire) \in Nat /\ tx_base \in Nat /\ accepted \in Nat
  BY DEF TxInv, TxTypeOK
<1>3. /\ xfer \in Transfer
      /\ xfer.tx_size \in Nat /\ xfer.left \in Nat /\ xfer.pos \in Nat
  BY DEF TxInv, TxTypeOK, Transfer
<1>4. /\ xfer.is_transmitting /\ xfer.on
      /\ xfer.tx_size <= Used
      /\ tx_buf_tail + xfer.tx_size <= UART_TX_BUF_LEN
      /\ xfer.left >= 1 /\ xfer.left <= xfer.tx_size
      /\ xfer.pos = tx_buf_tail + xfer.tx_size - xfer.left
  BY <1>1, <1>3 DEF TxInv, XferInv, XferOK, DmaByte, Idle
<1>5. xfer.pos >= tx_buf_tail /\ xfer.pos < UART_TX_BUF_LEN
  BY <1>1, <1>3, <1>4
<1>6. Offset(xfer.pos) = xfer.tx_size - xfer.left
  BY <1>1, <1>3, <1>4, <1>5 DEF Offset
<1>7. tx_buf[xfer.pos] = FirstHeld + Offset(xfer.pos)
  <2>1. xfer.pos \in Cells
    BY <1>1, <1>3, <1>5
  <2>2. Offset(xfer.pos) < Used
    BY <1>1, <1>3, <1>4, <1>6
  <2> QED BY <2>1, <2>2 DEF TxInv, HeldInOrder
<1>8. tx_buf[xfer.pos] = tx_base + Len(wire)
  BY <1>2, <1>3, <1>6, <1>7 DEF FirstHeld
<1>9. wire' = Append(wire, tx_base + Len(wire))
  BY <1>8 DEF DmaByte
<1>10. wire' \in Seq(Int) /\ Len(wire') = Len(wire) + 1
  BY <1>2, <1>9
<1>11. UNCHANGED <<tx_buf, tx_buf_head, tx_buf_tail, tx_max_chunk_size,
                   offered, accepted, tx_base, Used>>
  BY DEF DmaByte, Used
<1>12. /\ xfer' \in Transfer
       /\ xfer'.is_transmitting /\ xfer'.on
       /\ xfer'.tx_size = xfer.tx_size
       /\ xfer'.left = xfer.left - 1 /\ xfer'.pos = xfer.pos + 1
       /\ xfer'.tcif = (xfer.left = 1)
  <2>1. xfer.left - 1 \in Nat /\ xfer.pos + 1 \in Nat /\ (xfer.left = 1) \in BOOLEAN
    BY <1>3, <1>4
  <2> QED BY <1>3, <1>4, <2>1 DEF DmaByte, Transfer
<1>13. TxTypeOK'
  BY <1>10, <1>11, <1>12 DEF TxInv, TxTypeOK
<1>14. WireInOrder'
  <2> SUFFICES ASSUME NEW i \in 1 .. Len(wire') PROVE wire'[i] = tx_base + i - 1
    BY <1>11 DEF WireInOrder
  <2>1. CASE i = Len(wire) + 1
    BY <1>2, <1>9, <2>1
  <2>2. CASE i \in 1 .. Len(wire)
    <3>1. wire'[i] = wire[i]
      BY <1>2, <1>9, <2>2
    <3> QED BY <2>2, <3>1 DEF TxInv, WireInOrder
  <2> QED BY <1>2, <1>10, <2>1, <2>2
<1>15. FirstHeld' = FirstHeld
  BY <1>2, <1>3, <1>10, <1>11, <1>12 DEF FirstHeld
<1>16. TxConservation'
  <2>1. accepted = tx_base + Len(wire) + Used - (xfer.tx_size - xfer.left)
    BY DEF TxInv, TxConservation
  <2>2. accepted' = tx_base' + Len(wire') + Used' - (xfer'.tx_size - xfer'.left)
    <3>1. accepted' = accepted /\ tx_base' = tx_base /\ Used' = Used
      BY <1>11
    <3>2. xfer'.tx_size - xfer'.left = xfer.tx_size - xfer.left + 1
      BY <1>3, <1>12
    <3>3. Len(wire') = Len(wire) + 1
      BY <1>10
    <3>4. xfer.tx_size - xfer.left \in Int
      BY <1>3
    <3>5. Len(wire) \in Nat /\ tx_base \in Nat /\ Used \in Nat
      BY <1>1, <1>2
    <3> QED BY <2>1, <3>1, <3>2, <3>3, <3>4, <3>5
  <2> QED BY <2>2 DEF TxConservation
<1>17. IdleOnlyWhenEmpty'
  BY <1>12 DEF IdleOnlyWhenEmpty
<1>18. XferInv'
  <2>1. xfer'.left \in 0 .. xfer'.tx_size /\ xfer'.tx_size \in 1 .. Used'
    BY <1>1, <1>3, <1>4, <1>11, <1>12
  <2>2. xfer'.pos = tx_buf_tail' + xfer'.tx_size - xfer'.left
    BY <1>1, <1>3, <1>4, <1>11, <1>12
  <2>3. xfer'.tcif = (xfer'.left = 0)
    BY <1>3, <1>12
  <2> QED BY <1>4, <1>11, <1>12, <2>1, <2>2, <2>3 DEF XferInv, XferOK
<1>19. HeldInOrder'
  BY <1>11, <1>15 DEF TxInv, HeldInOrder, Offset
<1> QED BY <1>13, <1>14, <1>16, <1>17, <1>18, <1>19 DEF TxInv

----------------------------------------------------------------------------
\* poll() gives the space of a completed transfer back and starts the next.
LEMMA PollTxInv == TxInv /\ PollTx => TxInv'
<1> SUFFICES ASSUME TxInv, PollTx PROVE TxInv'
  OBVIOUS
<1> DEFINE tail2 == TailAfterComplete
           x2 == XferAfterComplete
<1>1. /\ UART_TX_BUF_LEN \in Nat /\ UART_TX_BUF_LEN > 1 /\ TxTypeOK
      /\ tx_buf_tail \in Cells /\ tx_buf_head \in Cells /\ xfer \in Transfer
      /\ Used \in Nat
  BY TxFacts
<1>2. /\ xfer.tx_size \in Nat /\ xfer.left \in Nat /\ xfer.tcif \in BOOLEAN
      /\ Len(wire) \in Nat /\ tx_base \in Nat
  BY TxFacts
\* The state between poll_tx_complete() and start_transmission().
<1>3. /\ tail2 \in Cells /\ x2 \in Transfer
      /\ XferOK(x2, tail2, UsedBetween(tx_buf_head, tail2))
      /\ UsedBetween(tx_buf_head, tail2) - (x2.tx_size - x2.left)
            = Used - (xfer.tx_size - xfer.left)
      /\ \A i \in Cells :
            LET off == IF i >= tail2 THEN i - tail2
                                     ELSE i - tail2 + UART_TX_BUF_LEN
            IN  off < UsedBetween(tx_buf_head, tail2)
                   => tx_buf[i] = tx_base + Len(wire) - (x2.tx_size - x2.left) + off
  <2>1. CASE ~xfer.tcif
    <3>1. tail2 = tx_buf_tail /\ x2 = xfer
      BY <2>1 DEF TailAfterComplete, XferAfterComplete
    <3> QED BY <1>1, <3>1 DEF TxInv, XferInv, HeldInOrder, Offset, FirstHeld, Used
  <2>2. CASE xfer.tcif
    <3> DEFINE s == xfer.tx_size
    <3>1. /\ xfer.is_transmitting /\ xfer.left = 0
          /\ s >= 1 /\ s <= Used /\ tx_buf_tail + s <= UART_TX_BUF_LEN
      <4>1. XferOK(xfer, tx_buf_tail, Used)
        BY DEF TxInv, XferInv
      <4>2. xfer.is_transmitting
        <5>1. ~xfer.is_transmitting => xfer = Idle
          BY <4>1 DEF XferOK
        <5>2. Idle.tcif = FALSE
          BY DEF Idle
        <5>3. xfer = Idle => xfer.tcif = FALSE
          BY <5>2
        <5> QED BY <2>2, <5>1, <5>3
      <4>3. s \in 1 .. Used /\ tx_buf_tail + s <= UART_TX_BUF_LEN /\ xfer.left = 0
        BY <2>2, <4>1, <4>2 DEF XferOK
      <4> QED BY <1>1, <4>2, <4>3
    <3>2. x2 = Idle /\ x2 \in Transfer /\ x2.tx_size - x2.left = 0
      BY <2>2 DEF XferAfterComplete, Idle, Transfer
    <3>3. tail2 = TxWrap(tx_buf_tail + s)
      BY <2>2 DEF TailAfterComplete
    <3>4. xfer.tx_size - xfer.left = s
      BY <1>2, <3>1
    <3> HIDE DEF tail2, x2, s
    <3>5. s \in Nat
      BY <1>2 DEF s
    <3>6. tail2 \in Cells
      BY <1>1, <3>1, <3>3, <3>5 DEF TxWrap
    <3>7. UsedBetween(tx_buf_head, tail2) = Used - s
      BY <1>1, <3>1, <3>3, <3>5 DEF TxWrap, Used, UsedBetween, TxAvail
    <3>8. XferOK(x2, tail2, UsedBetween(tx_buf_head, tail2))
      BY <3>2 DEF XferOK, Idle
    <3>9. ASSUME NEW i \in Cells,
                 NEW off, off = IF i >= tail2 THEN i - tail2
                                              ELSE i - tail2 + UART_TX_BUF_LEN,
                 off < Used - s
          PROVE  tx_buf[i] = tx_base + Len(wire) + off
      <4>1. off \in Nat
        BY <1>1, <3>6, <3>9
      <4>2. Offset(i) = off + s
        BY <1>1, <3>1, <3>3, <3>5, <3>9 DEF TxWrap, Offset, Used, UsedBetween, TxAvail
      <4>3. tx_buf[i] = FirstHeld + Offset(i)
        BY <1>1, <3>5, <3>9, <4>1, <4>2 DEF TxInv, HeldInOrder
      <4>4. FirstHeld = tx_base + Len(wire) - s
        BY <3>4 DEF FirstHeld
      <4> QED BY <1>2, <3>5, <4>1, <4>2, <4>3, <4>4
    <3>10. tx_base + Len(wire) - (x2.tx_size - x2.left) = tx_base + Len(wire)
      BY <1>2, <3>2
    <3>11. UsedBetween(tx_buf_head, tail2) - (x2.tx_size - x2.left)
              = Used - (xfer.tx_size - xfer.left)
      BY <1>1, <3>2, <3>4, <3>5, <3>7
    <3> QED BY <3>2, <3>6, <3>7, <3>8, <3>9, <3>10, <3>11
  <2> QED BY <1>2, <2>1, <2>2
<1> HIDE DEF tail2, x2
<1>4. tx_buf_tail' = tail2 /\ xfer' = StartTransmission(x2, tx_buf_head, tail2)
  BY DEF PollTx, tail2, x2
<1>5. UNCHANGED <<tx_buf, tx_buf_head, tx_max_chunk_size,
                  offered, accepted, tx_base, wire>>
  BY DEF PollTx
<1>6. /\ xfer' \in Transfer
      /\ XferOK(xfer', tail2, UsedBetween(tx_buf_head, tail2))
      /\ xfer'.is_transmitting \/ tx_buf_head = tail2
      /\ xfer'.tx_size - xfer'.left = x2.tx_size - x2.left
  BY <1>1, <1>3, <1>4, StartFacts
<1>7. Used' = UsedBetween(tx_buf_head, tail2)
  BY <1>4, <1>5 DEF Used
<1>8. TxTypeOK'
  BY <1>1, <1>3, <1>4, <1>5, <1>6 DEF TxTypeOK
<1>9. WireInOrder'
  BY <1>5 DEF TxInv, WireInOrder
<1>10. TxConservation'
  <2>1. Used' - (xfer'.tx_size - xfer'.left) = Used - (xfer.tx_size - xfer.left)
    BY <1>3, <1>6, <1>7
  <2>2. Used' \in Int /\ xfer'.tx_size \in Nat /\ xfer'.left \in Nat
    BY <1>1, <1>3, <1>6, <1>7 DEF Transfer, UsedBetween, TxAvail
  <2>3. accepted = tx_base + Len(wire) + Used - (xfer.tx_size - xfer.left)
    BY DEF TxInv, TxConservation
  <2>4. accepted = tx_base + Len(wire) + Used' - (xfer'.tx_size - xfer'.left)
    BY <1>1, <1>2, <2>1, <2>2, <2>3
  <2> QED BY <1>5, <2>4 DEF TxConservation
<1>11. IdleOnlyWhenEmpty' /\ XferInv'
  BY <1>4, <1>5, <1>6, <1>7 DEF IdleOnlyWhenEmpty, XferInv
<1>12. HeldInOrder'
  BY <1>3, <1>4, <1>5, <1>6, <1>7 DEF HeldInOrder, Offset, FirstHeld
<1> QED BY <1>8, <1>9, <1>10, <1>11, <1>12 DEF TxInv

----------------------------------------------------------------------------
\* transmit() appends to what the ring holds.
LEMMA TransmitInv ==
    ASSUME TxInv, NEW len \in Nat, Transmit(accepted, len)
    PROVE  /\ TxInv'
           /\ accepted' = accepted + Lesser(len, TxDataAvail)
           /\ Used' = Used + Lesser(len, TxDataAvail)
<1> DEFINE head == tx_buf_head
           tail == tx_buf_tail
           c1 == Lesser(len, AvailChunk(head, tail))
           h1 == TxWrap(head + c1)
           c2 == Lesser(len - c1, AvailChunk(h1, tail))
           h2 == TxWrap(h1 + c2)
<1>1. /\ tx_buf_head' = h2
      /\ xfer' = IF c1 = 0 THEN xfer ELSE StartTransmission(xfer, h1, tail)
      /\ offered' = offered + len
      /\ accepted' = accepted + c1 + c2
      /\ UNCHANGED <<tx_buf_tail, tx_max_chunk_size, tx_base, wire>>
  BY DEF Transmit
<1>2. tx_buf' = [i \in Cells |->
                   IF i \in head .. head + c1 - 1 THEN accepted + (i - head)
                   ELSE IF i \in h1 .. h1 + c2 - 1 THEN accepted + c1 + (i - h1)
                   ELSE tx_buf[i]]
  BY DEF Transmit
<1>3. head \in Cells /\ tail \in Cells
  BY TxFacts
<1>4. /\ c1 \in Nat /\ c2 \in Nat
      /\ h1 \in Cells /\ h2 \in Cells
      /\ c1 = 0 => c2 = 0
      /\ c1 # 0 => h1 # tail
      /\ head + c1 <= UART_TX_BUF_LEN
      /\ c2 # 0 => /\ h1 = 0 /\ head + c1 = UART_TX_BUF_LEN
                   /\ tail <= head /\ c2 < tail
      /\ head < tail => head + c1 < tail
      /\ c1 + c2 = Lesser(len, TxAvail(head, tail))
      /\ TxAvail(h1, tail) = TxAvail(head, tail) - c1
      /\ TxAvail(h2, tail) = TxAvail(head, tail) - (c1 + c2)
  BY <1>3, TwoCalls
<1>5. h1 = TxWrap(head + c1) /\ h2 = TxWrap(h1 + c2)
  OBVIOUS
<1> HIDE DEF c1, h1, c2, h2
<1>6. c1 \in Nat /\ c2 \in Nat
  BY <1>4
<1>7. /\ Used \in Nat /\ accepted \in Nat /\ tx_base \in Nat /\ Len(wire) \in Nat
      /\ xfer.tx_size \in Nat /\ xfer.left \in Nat
  BY TxFacts
<1>8. /\ UsedBetween(h1, tail) = Used + c1
      /\ UsedBetween(h2, tail) = Used + c1 + c2
      /\ Used + c1 + c2 < UART_TX_BUF_LEN
  <2>1. /\ UsedBetween(h1, tail) = Used + c1
        /\ UsedBetween(h2, tail) = Used + c1 + c2
    BY <1>3, <1>4, TxAssumption DEF Used, UsedBetween, TxAvail
  <2>2. UsedBetween(h2, tail) < UART_TX_BUF_LEN
    BY <1>3, <1>4, TxAssumption DEF UsedBetween, TxAvail
  <2> QED BY <2>1, <2>2
<1>9. Used' = Used + c1 + c2
  BY <1>1, <1>8 DEF Used
<1>10. /\ xfer' \in Transfer
       /\ XferOK(xfer', tail, Used + c1 + c2)
       /\ xfer'.is_transmitting \/ (c1 = 0 /\ head = tail)
       /\ xfer'.tx_size - xfer'.left = xfer.tx_size - xfer.left
  <2>1. /\ xfer \in Transfer /\ XferOK(xfer, tail, Used) /\ Used \in Nat
        /\ xfer.is_transmitting \/ head = tail
    BY TxFacts DEF TxInv, XferInv, IdleOnlyWhenEmpty
  <2>2. CASE c1 = 0
    <3>1. c2 = 0 /\ Used + c1 + c2 = Used
      BY <1>4, <2>1, <2>2
    <3> QED BY <1>1, <2>1, <2>2, <3>1
  <2>3. CASE c1 # 0
    <3>1. Used + c1 \in Nat /\ Used + c1 + c2 \in Nat /\ Used <= Used + c1
          /\ Used + c1 <= Used + c1 + c2
      BY <1>4, <2>1
    <3>2. XferOK(xfer, tail, UsedBetween(h1, tail))
      BY <1>3, <1>8, <2>1, <3>1, XferMonotone
    <3>3. xfer' = StartTransmission(xfer, h1, tail)
      BY <1>1, <2>3
    <3>4. /\ xfer' \in Transfer
          /\ XferOK(xfer', tail, UsedBetween(h1, tail))
          /\ xfer'.is_transmitting \/ h1 = tail
          /\ xfer'.tx_size - xfer'.left = xfer.tx_size - xfer.left
      BY <1>3, <1>4, <2>1, <3>2, <3>3, StartFacts, TxFacts
    <3>5. XferOK(xfer', tail, Used + c1 + c2)
      BY <1>3, <1>8, <3>1, <3>4, XferMonotone
    <3>6. h1 # tail
      BY <1>4, <2>3
    <3> QED BY <3>4, <3>5, <3>6
  <2> QED BY <2>2, <2>3
<1>11. TxTypeOK'
  <2>1. tx_buf' \in [Cells -> Int]
    <3>1. /\ tx_buf \in [Cells -> Int] /\ accepted \in Int /\ c1 \in Int
          /\ h1 \in Int /\ head \in Int
      BY <1>3, <1>4, TxFacts DEF TxTypeOK
    <3> HIDE DEF head
    <3>2. \A i \in Cells : i \in Int /\ tx_buf[i] \in Int
      BY <3>1
    <3>3. \A i \in Cells : accepted + (i - head) \in Int
                           /\ accepted + c1 + (i - h1) \in Int
      BY <3>1, <3>2
    <3> QED BY <1>2, <3>2, <3>3
  <2>2. accepted' \in Nat /\ offered' \in Nat
    <3>1. offered \in Nat
      BY TxFacts DEF TxTypeOK
    <3>2. accepted + c1 + c2 \in Nat /\ offered + len \in Nat
      BY <1>6, <1>7, <3>1
    <3> QED BY <1>1, <3>2
  <2> QED BY <1>1, <1>4, <1>10, <2>1, <2>2, TxFacts DEF TxTypeOK
<1>12. WireInOrder'
  BY <1>1 DEF TxInv, WireInOrder
<1>13. TxConservation'
  <2>1. accepted = tx_base + Len(wire) + Used - (xfer.tx_size - xfer.left)
    BY DEF TxInv, TxConservation
  <2>2. accepted' = accepted + c1 + c2 /\ Used' = Used + c1 + c2
        /\ xfer'.tx_size - xfer'.left = xfer.tx_size - xfer.left
        /\ tx_base' = tx_base /\ wire' = wire
    BY <1>1, <1>9, <1>10
  <2>3. accepted + c1 + c2
           = tx_base + Len(wire) + (Used + c1 + c2) - (xfer.tx_size - xfer.left)
    <3>1. \A a, t, w, u, d, m, n \in Int :
             a = t + w + u - d => a + m + n = t + w + (u + m + n) - d
      OBVIOUS
    <3>2. /\ xfer.tx_size - xfer.left \in Int /\ accepted \in Int
          /\ tx_base \in Int /\ Len(wire) \in Int /\ Used \in Int
          /\ c1 \in Int /\ c2 \in Int
      BY <1>6, <1>7
    <3> QED BY <2>1, <3>1, <3>2
  <2> QED BY <2>2, <2>3 DEF TxConservation
<1>14. IdleOnlyWhenEmpty'
  <2>1. c1 = 0 => h2 = head
    <3>1. ASSUME c1 = 0 PROVE c2 = 0
      BY <1>4, <3>1
    <3>2. head \in Nat /\ head < UART_TX_BUF_LEN /\ UART_TX_BUF_LEN \in Nat
      BY <1>3, TxFacts
    <3> HIDE DEF head
    <3> QED BY <1>5, <3>1, <3>2 DEF TxWrap
  <2> QED BY <1>1, <1>10, <2>1 DEF IdleOnlyWhenEmpty
<1>15. XferInv'
  <2>1. tx_buf_tail' = tail
    BY <1>1
  <2>2. XferOK(xfer', tail, Used + c1 + c2)
    BY <1>10
  <2> QED BY <1>9, <2>1, <2>2 DEF XferInv
<1>16. HeldInOrder'
  <2>1. FirstHeld' = FirstHeld /\ (\A i \in Cells : Offset(i)' = Offset(i))
    BY <1>1, <1>10, TxFacts DEF FirstHeld, Offset
  <2>2. accepted = FirstHeld + Used /\ FirstHeld \in Int /\ Used \in Nat
    <3>1. accepted = tx_base + Len(wire) + Used - (xfer.tx_size - xfer.left)
      BY DEF TxInv, TxConservation
    <3>2. /\ tx_base \in Nat /\ Len(wire) \in Nat /\ Used \in Nat
          /\ xfer.tx_size \in Nat /\ xfer.left \in Nat
      BY TxFacts
    <3>3. FirstHeld = tx_base + Len(wire) - (xfer.tx_size - xfer.left)
      BY DEF FirstHeld
    <3> QED BY <3>1, <3>2, <3>3
  <2> SUFFICES ASSUME NEW i \in Cells, Offset(i) < Used + c1 + c2
               PROVE  tx_buf'[i] = FirstHeld + Offset(i)
    BY <1>9, <2>1 DEF HeldInOrder
  <2>3. Offset(i) \in Nat
    BY TxFacts, UsedFacts DEF Offset
  <2>4. /\ Offset(i) < Used => /\ i \notin head .. head + c1 - 1
                               /\ i \notin h1 .. h1 + c2 - 1
        /\ Offset(i) >= Used /\ Offset(i) < Used + c1 =>
              /\ i \in head .. head + c1 - 1
              /\ i - head = Offset(i) - Used
        /\ Offset(i) >= Used + c1 /\ Offset(i) < Used + c1 + c2 =>
              /\ i \notin head .. head + c1 - 1
              /\ i \in h1 .. h1 + c2 - 1
              /\ i - h1 = Offset(i) - Used - c1
    <3>1. Used = IF head >= tail THEN head - tail
                                 ELSE UART_TX_BUF_LEN - tail + head
      BY <1>3, TxFacts DEF Used, UsedBetween, TxAvail
    <3>2. Offset(i) = IF i >= tail THEN i - tail ELSE i - tail + UART_TX_BUF_LEN
      BY DEF Offset
    <3>3. /\ head + c1 <= UART_TX_BUF_LEN
          /\ c2 # 0 => /\ h1 = 0 /\ head + c1 = UART_TX_BUF_LEN
                       /\ tail <= head /\ c2 < tail
          /\ head < tail => head + c1 < tail
      BY <1>4
    <3>4. /\ UART_TX_BUF_LEN \in Nat /\ i \in Cells /\ tail \in Cells
          /\ head \in Cells /\ h1 \in Cells
      BY <1>3, <1>4, TxFacts
    <3>5. h1 = IF head + c1 >= UART_TX_BUF_LEN THEN 0 ELSE head + c1
      BY <1>5 DEF TxWrap
    <3>6. Used + c1 + c2 < UART_TX_BUF_LEN
      BY <1>8
    <3> HIDE DEF head, tail
    <3>7. CASE head >= tail /\ c2 = 0
      BY <1>6, <3>1, <3>2, <3>3, <3>4, <3>5, <3>6, <3>7
    <3>8. CASE head >= tail /\ c2 # 0
      BY <1>6, <3>1, <3>2, <3>3, <3>4, <3>5, <3>6, <3>8
    <3>9. CASE head < tail
      BY <1>6, <3>1, <3>2, <3>3, <3>4, <3>5, <3>6, <3>9
    <3> QED BY <3>4, <3>7, <3>8, <3>9
  <2>5. CASE Offset(i) < Used
    <3>1. tx_buf'[i] = tx_buf[i]
      BY <1>2, <2>4, <2>5
    <3> QED BY <2>5, <3>1 DEF TxInv, HeldInOrder
  <2>6. CASE Offset(i) >= Used /\ Offset(i) < Used + c1
    <3>1. tx_buf'[i] = accepted + (i - head)
      BY <1>2, <2>4, <2>6
    <3> HIDE DEF head
    <3> QED BY <2>2, <2>3, <2>4, <2>6, <3>1
  <2>7. CASE Offset(i) >= Used + c1
    <3>1. tx_buf'[i] = accepted + c1 + (i - h1)
      BY <1>2, <2>4, <2>7
    <3>2. c1 \in Nat /\ c2 \in Nat
      BY <1>4
    <3> QED BY <2>2, <2>3, <2>4, <2>7, <3>1, <3>2
  <2>8. Used \in Nat /\ c1 \in Nat
    BY <1>4, TxFacts
  <2> QED BY <2>3, <2>5, <2>6, <2>7, <2>8
<1>17. /\ accepted' = accepted + Lesser(len, TxDataAvail)
       /\ Used' = Used + Lesser(len, TxDataAvail)
  <2>1. c1 + c2 = Lesser(len, TxDataAvail)
    BY <1>4 DEF TxDataAvail
  <2>2. accepted + c1 + c2 = accepted + (c1 + c2) /\ Used + c1 + c2 = Used + (c1 + c2)
    BY <1>6, <1>7
  <2> QED BY <1>1, <1>9, <2>1, <2>2
<1> QED BY <1>11, <1>12, <1>13, <1>14, <1>15, <1>16, <1>17 DEF TxInv

----------------------------------------------------------------------------
\* transmit() writes behind what the ring holds, never into it.
LEMMA TransmitKeepsHeld ==
    ASSUME TxInv, NEW len \in Nat, Transmit(accepted, len),
           NEW i \in Cells, Offset(i) < Used
    PROVE  tx_buf'[i] = tx_buf[i]
<1> DEFINE head == tx_buf_head
           tail == tx_buf_tail
           c1 == Lesser(len, AvailChunk(head, tail))
           h1 == TxWrap(head + c1)
           c2 == Lesser(len - c1, AvailChunk(h1, tail))
<1>1. tx_buf' = [j \in Cells |->
                   IF j \in head .. head + c1 - 1 THEN accepted + (j - head)
                   ELSE IF j \in h1 .. h1 + c2 - 1 THEN accepted + c1 + (j - h1)
                   ELSE tx_buf[j]]
  BY DEF Transmit
<1>2. /\ UART_TX_BUF_LEN \in Nat
      /\ head \in Cells /\ tail \in Cells
  BY TxFacts
<1>3. /\ c1 \in Nat /\ c2 \in Nat /\ h1 \in Cells
      /\ head + c1 <= UART_TX_BUF_LEN
      /\ c2 # 0 => /\ h1 = 0 /\ head + c1 = UART_TX_BUF_LEN
                   /\ tail <= head /\ c2 < tail
      /\ head < tail => head + c1 < tail
  <2>1. head \in Cells /\ tail \in Cells
    BY <1>2
  <2> QED BY <2>1, TwoCalls
<1>4. h1 = IF head + c1 >= UART_TX_BUF_LEN THEN 0 ELSE head + c1
  BY DEF TxWrap
<1>5. Used = IF head >= tail THEN head - tail
                             ELSE UART_TX_BUF_LEN - tail + head
  BY <1>2 DEF Used, UsedBetween, TxAvail
<1>6. Offset(i) = IF i >= tail THEN i - tail ELSE i - tail + UART_TX_BUF_LEN
  BY DEF Offset
<1> HIDE DEF head, tail, c1, h1, c2
<1>7. i \notin head .. head + c1 - 1 /\ i \notin h1 .. h1 + c2 - 1
  <2>1. CASE head >= tail /\ c2 = 0
    BY <1>2, <1>3, <1>4, <1>5, <1>6, <2>1
  <2>2. CASE head >= tail /\ c2 # 0
    BY <1>2, <1>3, <1>4, <1>5, <1>6, <2>2
  <2>3. CASE head < tail
    BY <1>2, <1>3, <1>4, <1>5, <1>6, <2>3
  <2> QED BY <1>2, <2>1, <2>2, <2>3
<1> QED BY <1>1, <1>7

----------------------------------------------------------------------------
(* The theorems. *)

LEMMA TxNextInv == TxInv /\ [TxNext]_txVars => TxInv'
<1> SUFFICES ASSUME TxInv, [TxNext]_txVars PROVE TxInv'
  OBVIOUS
<1>1. CASE TransmitSome
  <2>1. PICK len \in 1 .. MaxPacket : Transmit(accepted, len)
    BY <1>1 DEF TransmitSome
  <2>2. len \in Nat
    BY TxAssumption
  <2> QED BY <2>1, <2>2, TransmitInv
<1>2. CASE PollTx
  BY <1>2, PollTxInv
<1>3. CASE SetCoding
  BY <1>3, SetCodingInv
<1>4. CASE Enable
  BY <1>4, EnableInv
<1>5. CASE DmaByte
  BY <1>5, DmaByteInv
<1>6. CASE UNCHANGED txVars
  BY <1>6 DEF TxInv, txVars, uartTxVars, TxTypeOK, WireInOrder, TxConservation,
              IdleOnlyWhenEmpty, XferInv, HeldInOrder, Used, UsedBetween,
              FirstHeld, Offset
<1> QED BY <1>1, <1>2, <1>3, <1>4, <1>5, <1>6 DEF TxNext

\* The inductive invariant holds throughout: types, FIFO order, conservation,
\* no idle UART with bytes waiting, transfers inside the ring.
THEOREM TxInvariant == TxSpec => []TxInv
<1>1. TxInit => TxInv
  BY TxInitInv
<1>2. TxInv /\ [TxNext]_txVars => TxInv'
  BY TxNextInv
<1> QED BY <1>1, <1>2, PTL DEF TxSpec

\* Type correctness.
THEOREM TxTypeCorrect == TxSpec => []TxTypeOK
<1>1. TxInv => TxTypeOK
  BY DEF TxInv
<1> QED BY <1>1, TxInvariant, PTL

\* uart_impl sends the bytes in the order transmit() accepted them, none twice
\* and none skipped, whatever the ring, chunk and packet lengths are.
THEOREM TxFifo == TxSpec => []WireInOrder
<1>1. TxInv => WireInOrder
  BY DEF TxInv
<1> QED BY <1>1, TxInvariant, PTL

\* Every accepted byte is on the wire or held by the ring.
THEOREM TxConserves == TxSpec => []TxConservation
<1>1. TxInv => TxConservation
  BY DEF TxInv
<1> QED BY <1>1, TxInvariant, PTL

\* The UART is never left idle with bytes in the ring.
THEOREM TxNeverStalls == TxSpec => []IdleOnlyWhenEmpty
<1>1. TxInv => IdleOnlyWhenEmpty
  BY DEF TxInv
<1> QED BY <1>1, TxInvariant, PTL

\* transmit() discards only what tx_data_avail() has no room for.
THEOREM TxDiscards == TxSpec => DiscardOnlyWhenFull
<1> DEFINE A == offered' # offered =>
                  accepted' = accepted + Lesser(offered' - offered, TxDataAvail)
<1>1. TxInv /\ [TxNext]_txVars => [A]_txVars
  <2> SUFFICES ASSUME TxInv, TxNext, offered' # offered
               PROVE  accepted' = accepted + Lesser(offered' - offered, TxDataAvail)
    OBVIOUS
  <2>1. TransmitSome
    BY DEF TxNext, PollTx, SetCoding, Enable, DmaByte
  <2>2. PICK len \in 1 .. MaxPacket : Transmit(accepted, len)
    BY <2>1 DEF TransmitSome
  <2>3. len \in Nat /\ offered \in Nat
    BY TxAssumption, TxFacts DEF TxTypeOK
  <2>4. offered' - offered = len
    BY <2>2, <2>3 DEF Transmit
  <2> QED BY <2>2, <2>3, <2>4, TransmitInv
<1>2. DiscardOnlyWhenFull <=> [][A]_txVars
  BY DEF DiscardOnlyWhenFull
<1> QED BY <1>1, <1>2, TxInvariant, PTL DEF TxSpec

\* The cells the DMA channel has yet to read belong to what the ring holds:
\* neither transmit() nor poll() writes them while the transfer runs.
THEOREM TxCellsStable == TxSpec => DmaCellsStable
<1> DEFINE A == \A i \in Cells : i >= xfer.pos /\ i < xfer.pos + xfer.left
                                   => tx_buf'[i] = tx_buf[i]
<1>1. TxInv /\ [TxNext]_txVars => [A]_txVars
  <2> SUFFICES ASSUME TxInv, TxNext, NEW i \in Cells,
                      i >= xfer.pos, i < xfer.pos + xfer.left
               PROVE  tx_buf'[i] = tx_buf[i]
    OBVIOUS
  <2>1. CASE TransmitSome
    <3>1. PICK len \in 1 .. MaxPacket : Transmit(accepted, len)
      BY <2>1 DEF TransmitSome
    <3>2. len \in Nat
      BY TxAssumption
    <3>3. Offset(i) < Used
      <4>1. XferOK(xfer, tx_buf_tail, Used)
        BY DEF TxInv, XferInv
      <4>2. xfer.left > 0 /\ xfer.pos \in Nat /\ xfer.left \in Nat
        BY TxFacts
      <4>3. xfer.is_transmitting
        BY <4>1, <4>2 DEF XferOK, Idle
      <4>4. /\ xfer.tx_size \in 1 .. Used
            /\ xfer.left \in 0 .. xfer.tx_size
            /\ xfer.pos = tx_buf_tail + xfer.tx_size - xfer.left
        BY <4>1, <4>3 DEF XferOK
      <4>5. tx_buf_tail \in Nat /\ Used \in Nat /\ xfer.tx_size \in Nat
        BY <4>4, TxFacts
      <4>6. i >= tx_buf_tail /\ i - tx_buf_tail < Used
        BY <4>2, <4>4, <4>5
      <4> QED BY <4>6 DEF Offset
    <3> QED BY <3>1, <3>2, <3>3, TransmitKeepsHeld
  <2>2. CASE PollTx \/ SetCoding \/ Enable \/ DmaByte
    BY <2>2 DEF PollTx, SetCoding, Enable, DmaByte
  <2> QED BY <2>1, <2>2 DEF TxNext
<1>2. DmaCellsStable <=> [][A]_txVars
  BY DEF DmaCellsStable
<1> QED BY <1>1, <1>2, TxInvariant, PTL DEF TxSpec
=============================================================================
