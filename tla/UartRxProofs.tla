---------------------------- MODULE UartRxProofs ----------------------------
(* Theorems about the receive side of the UART (module UartRx), for every  *)
(* ring length, high-water mark, read size and behaviour of the peer.      *)
EXTENDS UartRx, TLAPS

\* A cell is a number below the length of the ring.
USE DEF RxCells

----------------------------------------------------------------------------
(* Positions and byte counts. *)

\* The remainder of a number within the range.
LEMMA ModSmall ==
    ASSUME NEW n \in Nat \ {0}, NEW a \in 0 .. n - 1
    PROVE  a % n = a
OBVIOUS

LEMMA ModRange ==
    ASSUME NEW n \in Nat \ {0}, NEW a \in Int
    PROVE  a % n \in 0 .. n - 1
OBVIOUS

\* A remainder below its number leaves room for a whole ring.
LEMMA ModAtMost ==
    ASSUME NEW n \in Nat \ {0}, NEW a \in Nat
    PROVE  a % n <= a
<1>1. a = n * (a \div n) + (a % n) /\ a \div n \in Nat
  OBVIOUS
<1> QED BY <1>1

LEMMA ModUnique ==
    ASSUME NEW n \in Nat \ {0}, NEW q \in Int, NEW r \in 0 .. n - 1
    PROVE  (q * n + r) % n = r
OBVIOUS

\* The remainder of the next number.
LEMMA ModNext ==
    ASSUME NEW n \in Nat \ {0}, NEW a \in Int
    PROVE  (a + 1) % n = IF (a % n) + 1 = n THEN 0 ELSE (a % n) + 1
<1> DEFINE q == a \div n
           r == a % n
<1>1. a = q * n + r /\ q \in Int /\ r \in 0 .. n - 1
  OBVIOUS
<1> HIDE DEF q, r
<1>2. CASE r + 1 = n
  <2>1. a + 1 = (q + 1) * n + 0
    BY <1>1, <1>2
  <2>2. ((q + 1) * n + 0) % n = 0
    BY <1>1, ModUnique
  <2> QED BY <1>2, <2>1, <2>2 DEF r
<1>3. CASE r + 1 # n
  <2>1. a + 1 = q * n + (r + 1) /\ r + 1 \in 0 .. n - 1
    BY <1>1, <1>3
  <2>2. (q * n + (r + 1)) % n = r + 1
    BY <1>1, <2>1, ModUnique
  <2> QED BY <1>3, <2>1, <2>2 DEF r
<1> QED BY <1>2, <1>3

\* The remainder of a smaller number.
LEMMA ModLess ==
    ASSUME NEW n \in Nat \ {0}, NEW a \in Int, NEW c \in 0 .. n - 1
    PROVE  (a - c) % n = IF c <= a % n THEN (a % n) - c ELSE (a % n) - c + n
<1> DEFINE q == a \div n
           r == a % n
<1>1. a = q * n + r /\ q \in Int /\ r \in 0 .. n - 1
  OBVIOUS
<1> HIDE DEF q, r
<1>2. CASE c <= r
  <2>1. a - c = q * n + (r - c) /\ r - c \in 0 .. n - 1
    BY <1>1, <1>2
  <2>2. (q * n + (r - c)) % n = r - c
    BY <1>1, <2>1, ModUnique
  <2> QED BY <1>2, <2>1, <2>2 DEF r
<1>3. CASE ~(c <= r)
  <2>1. a - c = (q - 1) * n + (r - c + n) /\ r - c + n \in 0 .. n - 1
    BY <1>1, <1>3
  <2>2. \A k \in Int : \A s \in 0 .. n - 1 : (k * n + s) % n = s
    BY ModUnique
  <2>3. q - 1 \in Int
    BY <1>1
  <2>4. ((q - 1) * n + (r - c + n)) % n = r - c + n
    BY <2>1, <2>2, <2>3
  <2> QED BY <1>3, <2>1, <2>4 DEF r
<1> QED BY <1>2, <1>3

\* The distance between two positions, the tail at the very end included.
LEMMA RxLenFacts ==
    ASSUME NEW head \in RxCells, NEW tail \in 0 .. UART_RX_BUF_LEN
    PROVE  /\ RxLen(head, tail) \in 0 .. UART_RX_BUF_LEN - 1
           /\ RxAdvance(tail, RxLen(head, tail)) = head
<1>1. CASE head >= tail
  <2>1. RxLen(head, tail) = head - tail
    BY <1>1 DEF RxLen
  <2> QED BY <1>1, <2>1, RxAssumption DEF RxAdvance
<1>2. CASE head < tail
  <2>1. RxLen(head, tail) = UART_RX_BUF_LEN - tail + head
    BY <1>2 DEF RxLen
  <2> QED BY <1>2, <2>1, RxAssumption DEF RxAdvance
<1> QED BY <1>1, <1>2, RxAssumption

\* Advancing the head by a cell, and the tail by any number of them.
LEMMA RxLenHead ==
    ASSUME NEW head \in RxCells, NEW tail \in 0 .. UART_RX_BUF_LEN
    PROVE  RxLen(RxWrap(head + 1), tail)
             = IF RxLen(head, tail) + 1 = UART_RX_BUF_LEN THEN 0
                                                         ELSE RxLen(head, tail) + 1
BY RxAssumption DEF RxLen, RxWrap

LEMMA RxLenTail ==
    ASSUME NEW head \in RxCells, NEW tail \in 0 .. UART_RX_BUF_LEN,
           NEW c \in 0 .. UART_RX_BUF_LEN - 1
    PROVE  RxLen(head, RxAdvance(tail, c))
             = IF c <= RxLen(head, tail) THEN RxLen(head, tail) - c
                                         ELSE RxLen(head, tail) - c + UART_RX_BUF_LEN
BY RxAssumption DEF RxLen, RxAdvance

\* Cells are passed one after the other, and none twice in a turn of the ring.
LEMMA AdvanceFacts ==
    ASSUME NEW tail \in 0 .. UART_RX_BUF_LEN, NEW c \in Nat, NEW i \in Nat,
           c + i < UART_RX_BUF_LEN
    PROVE  /\ RxAdvance(tail, c) \in RxCells
           /\ RxAdvance(RxAdvance(tail, c), i) = RxAdvance(tail, c + i)
           /\ i # 0 => RxAdvance(tail, c + i) # RxAdvance(tail, c)
BY RxAssumption DEF RxAdvance

----------------------------------------------------------------------------
(* copy_rx_data() *)

LEMMA SmallerFacts ==
    ASSUME NEW a \in Int, NEW b \in Int
    PROVE  /\ Smaller(a, b) \in Int
           /\ Smaller(a, b) <= a /\ Smaller(a, b) <= b
           /\ Smaller(a, b) = a \/ Smaller(a, b) = b
BY DEF Smaller

\* The two chunks are what has been asked for, or all there is; they are taken
\* from the cells after the tail, and the tail moves past them.
LEMMA CopyFacts ==
    ASSUME NEW head \in RxCells, rx_buf_tail \in 0 .. UART_RX_BUF_LEN,
           NEW len \in Nat
    PROVE  LET c == CopiedLen(head, len)
           IN  /\ c = Smaller(len, RxLen(head, rx_buf_tail))
               /\ FirstChunk(head, len) \in Nat /\ FirstChunk(head, len) <= c
               /\ TailAfterFirst(head, len) + SecondChunk(head, len)
                    = RxAdvance(rx_buf_tail, c)
               /\ \A i \in 0 .. c - 1 :
                     RxAdvance(rx_buf_tail, i)
                       = IF i < FirstChunk(head, len) THEN rx_buf_tail + i
                         ELSE TailAfterFirst(head, len) + i - FirstChunk(head, len)
<1> USE RxAssumption
<1> DEFINE n == UART_RX_BUF_LEN
           t == rx_buf_tail
           c1 == FirstChunk(head, len)
           t1 == TailAfterFirst(head, len)
           c2 == SecondChunk(head, len)
<1>1. CASE t > head
  <2>1. c1 = Smaller(len, n - t)
    BY <1>1 DEF FirstChunk
  <2>2. CASE len < n - t
    <3>1. c1 = len /\ t1 = t + len
      BY <1>1, <2>1, <2>2 DEF Smaller, TailAfterFirst, RxWrap
    <3>2. c2 = 0
      BY <1>1, <3>1 DEF SecondChunk
    <3>3. RxLen(head, t) = n - t + head
      BY <1>1 DEF RxLen
    <3> QED BY <1>1, <2>2, <3>1, <3>2, <3>3 DEF CopiedLen, Smaller, RxAdvance
  <2>3. CASE len >= n - t
    <3>1. c1 = n - t /\ t1 = 0
      BY <1>1, <2>1, <2>3 DEF Smaller, TailAfterFirst, RxWrap
    <3>2. c2 = Smaller(len - (n - t), head)
      BY <1>1, <2>3, <3>1 DEF SecondChunk, Smaller
    <3>3. RxLen(head, t) = n - t + head
      BY <1>1 DEF RxLen
    <3> QED BY <1>1, <2>3, <3>1, <3>2, <3>3 DEF CopiedLen, Smaller, RxAdvance
  <2> QED BY <2>2, <2>3
<1>2. CASE t <= head
  <2>1. c1 = 0 /\ t1 = t
    BY <1>2 DEF FirstChunk, TailAfterFirst, RxWrap
  <2>2. c2 = Smaller(len, head - t)
    BY <1>2, <2>1 DEF SecondChunk, Smaller
  <2>3. RxLen(head, t) = head - t
    BY <1>2 DEF RxLen
  <2> QED BY <1>2, <2>1, <2>2, <2>3 DEF CopiedLen, Smaller, RxAdvance
<1> QED BY <1>1, <1>2

\* The bytes copied are those in the cells after the tail.
LEMMA CopiedBytesFacts ==
    ASSUME NEW head \in RxCells, rx_buf_tail \in 0 .. UART_RX_BUF_LEN,
           NEW len \in Nat, rx_buf \in [RxCells -> Int]
    PROVE  LET c == CopiedLen(head, len)
           IN  /\ c \in Nat /\ c <= len /\ c <= RxLen(head, rx_buf_tail)
               /\ CopiedBytes(head, len) \in Seq(Int)
               /\ Len(CopiedBytes(head, len)) = c
               /\ \A i \in 1 .. c :
                     CopiedBytes(head, len)[i] = rx_buf[RxAdvance(rx_buf_tail, i - 1)]
<1> DEFINE c == CopiedLen(head, len)
           b == CopiedBytes(head, len)
<1>1. RxLen(head, rx_buf_tail) \in 0 .. UART_RX_BUF_LEN - 1
  BY RxLenFacts
<1>2. c = Smaller(len, RxLen(head, rx_buf_tail))
  BY CopyFacts
<1>3. c \in Nat /\ c <= len /\ c <= RxLen(head, rx_buf_tail)
  BY <1>1, <1>2 DEF Smaller
<1>4. ASSUME NEW i \in 1 .. c
      PROVE  /\ b[i] = rx_buf[RxAdvance(rx_buf_tail, i - 1)]
             /\ b[i] \in Int
  <2>1. i - 1 \in 0 .. c - 1 /\ i - 1 \in Nat /\ 0 + (i - 1) < UART_RX_BUF_LEN
    BY <1>1, <1>3, RxAssumption
  <2>2. RxAdvance(rx_buf_tail, i - 1)
          = IF i - 1 < FirstChunk(head, len) THEN rx_buf_tail + (i - 1)
            ELSE TailAfterFirst(head, len) + (i - 1) - FirstChunk(head, len)
    BY <2>1, CopyFacts
  <2>3. FirstChunk(head, len) \in Nat
    BY CopyFacts
  <2>4. b[i] = IF i <= FirstChunk(head, len)
               THEN rx_buf[rx_buf_tail + i - 1]
               ELSE rx_buf[TailAfterFirst(head, len) + i - 1 - FirstChunk(head, len)]
    BY DEF CopiedBytes
  <2>5. TailAfterFirst(head, len) \in Int
    BY <2>3, RxAssumption DEF TailAfterFirst, RxWrap
  <2>6. b[i] = rx_buf[RxAdvance(rx_buf_tail, i - 1)]
    <3>1. CASE i <= FirstChunk(head, len)
      <4>1. RxAdvance(rx_buf_tail, i - 1) = rx_buf_tail + i - 1
        BY <2>2, <2>3, <3>1
      <4> QED BY <2>4, <3>1, <4>1
    <3>2. CASE ~(i <= FirstChunk(head, len))
      <4>1. RxAdvance(rx_buf_tail, i - 1)
              = TailAfterFirst(head, len) + i - 1 - FirstChunk(head, len)
        BY <2>2, <2>3, <2>5, <3>2
      <4> QED BY <2>4, <3>2, <4>1
    <3> QED BY <3>1, <3>2
  <2>7. RxAdvance(rx_buf_tail, i - 1) \in RxCells
    BY <2>1, RxAssumption DEF RxAdvance
  <2> QED BY <2>6, <2>7
<1>5. b \in Seq(Int) /\ Len(b) = c
  <2>1. b \in [1 .. c -> Int]
    BY <1>4 DEF CopiedBytes
  <2> QED BY <1>3, <2>1
<1> QED BY <1>3, <1>4, <1>5
----------------------------------------------------------------------------
(* What holds whatever the peer does. *)

\* What the invariant says of single values, for the arithmetic.
LEMMA RxFacts ==
    ASSUME RingInv
    PROVE  /\ UART_RX_BUF_LEN \in Nat /\ UART_RX_BUF_LEN > 1
           /\ rx_pos \in RxCells /\ rx_buf_tail \in 0 .. UART_RX_BUF_LEN
           /\ last_rx_size \in Nat
           /\ received \in Nat /\ next_rx \in Nat
           /\ Unread \in Nat /\ received = next_rx + Unread
           /\ RxDataLen \in 0 .. UART_RX_BUF_LEN - 1
           /\ RxDataLen <= Unread
           /\ Unread < UART_RX_BUF_LEN => RxDataLen = Unread
           /\ reading.head \in RxCells /\ reading.len \in Nat
<1>1. RxTypeOK /\ CountsAgree /\ PositionsAgree
  BY DEF RingInv
<1>2. UART_RX_BUF_LEN \in Nat /\ UART_RX_BUF_LEN > 1 /\ ReadSizes \subseteq Nat
  BY RxAssumption
<1>3. /\ rx_pos \in RxCells /\ rx_buf_tail \in 0 .. UART_RX_BUF_LEN
      /\ last_rx_size \in Nat /\ received \in Nat /\ next_rx \in Nat
      /\ reading.head \in RxCells /\ reading.len \in ReadSizes \cup {0}
  BY <1>1, <1>2 DEF RxTypeOK
<1>4. Unread \in Nat /\ received = next_rx + Unread
  BY <1>1, <1>3 DEF CountsAgree, Unread
<1>5. RxDataLen = Unread % UART_RX_BUF_LEN
  BY <1>1 DEF PositionsAgree
<1>6. RxDataLen \in 0 .. UART_RX_BUF_LEN - 1
  BY <1>2, <1>4, <1>5, ModRange
<1>7. RxDataLen <= Unread
  BY <1>2, <1>4, <1>5, ModAtMost
<1>8. ASSUME Unread < UART_RX_BUF_LEN PROVE RxDataLen = Unread
  BY <1>2, <1>4, <1>5, <1>8, ModSmall
<1>9. reading.len \in Nat
  <2>1. CASE reading.len \in ReadSizes
    BY <1>2, <2>1
  <2>2. CASE reading.len = 0
    BY <2>2
  <2> QED BY <1>3, <2>1, <2>2
<1> QED BY <1>2, <1>3, <1>4, <1>6, <1>7, <1>8, <1>9

LEMMA RingInit == RxInit => RingInv
<1> SUFFICES ASSUME RxInit PROVE RingInv
  OBVIOUS
<1> USE RxAssumption DEF RxInit
<1>1. RxTypeOK
  <2>1. rx_buf \in [RxCells -> Int]
    OBVIOUS
  <2>2. reading \in [head : RxCells, len : ReadSizes \cup {0}]
    BY DEF NotReading
  <2>3. copied \in Seq(Int)
    OBVIOUS
  <2>4. 0 \in 0 .. UART_RX_BUF_LEN - 1 /\ 0 \in 0 .. UART_RX_BUF_LEN
        /\ 0 \in 0 .. PollBytes /\ 0 \in 0 .. Slack
    OBVIOUS
  <2> QED BY <2>1, <2>2, <2>3, <2>4 DEF RxTypeOK
<1>2. Unread = 0
  BY DEF Unread
<1>3. RxDataLen = 0
  BY DEF RxDataLen, RxLen
<1>4. 0 % UART_RX_BUF_LEN = 0
  BY ModSmall
<1>5. PositionsAgree
  BY <1>2, <1>3, <1>4 DEF PositionsAgree
<1>6. CountsAgree
  BY <1>2 DEF CountsAgree
<1> QED BY <1>1, <1>5, <1>6 DEF RingInv

\* poll(): after an overrun the tail is where the DMA channel is.
LEMMA RingPoll == RingInv /\ RxPoll => RingInv'
<1> SUFFICES ASSUME RingInv, RxPoll PROVE RingInv'
  OBVIOUS
<1>1. RxTypeOK'
  <2>1. RxTypeOK
    BY DEF RingInv
  <2>2. rx_buf_tail' \in 0 .. UART_RX_BUF_LEN /\ last_rx_size' \in 0 .. UART_RX_BUF_LEN - 1
    <3>1. RawHead \subseteq 0 .. UART_RX_BUF_LEN
      BY RxFacts DEF RawHead
    <3>2. 0 \in 0 .. UART_RX_BUF_LEN - 1
      BY RxFacts
    <3>3. \/ rx_buf_tail' \in RawHead /\ last_rx_size' = 0
          \/ rx_buf_tail' = rx_buf_tail /\ last_rx_size' = last_rx_size
      BY DEF RxPoll, uartRxVars
    <3> QED BY <2>1, <3>1, <3>2, <3>3 DEF RxTypeOK
  <2>3. next_rx' \in Nat
    BY <2>1 DEF RxPoll, RxTypeOK, uartRxVars
  <2>4. rts' \in BOOLEAN
    BY DEF RxPoll, RtsFor
  <2>5. rx_overrun_occurred' \in BOOLEAN
    BY <2>1 DEF RxPoll, RxTypeOK, uartRxVars
  <2>6. peer_slack' \in 0 .. Slack /\ since_poll' \in 0 .. PollBytes
    BY <2>1, RxAssumption DEF RxPoll, RxTypeOK
  <2> QED BY <2>1, <2>2, <2>3, <2>4, <2>5, <2>6 DEF RxPoll, RxTypeOK
<1>2. CASE OverrunSeen
  <2>1. Unread' = 0 /\ last_rx_size' = 0
    BY <1>2, RxFacts DEF RxPoll, Unread
  <2>2. RxDataLen' = 0
    BY <1>2, RxFacts DEF RxPoll, RxDataLen, RxLen, RawHead
  <2>3. 0 % UART_RX_BUF_LEN = 0
    BY RxFacts, ModSmall
  <2>4. PositionsAgree'
    BY <2>1, <2>2, <2>3 DEF PositionsAgree
  <2>5. CountsAgree'
    BY <2>1 DEF CountsAgree, RxPoll
  <2> QED BY <1>1, <2>4, <2>5 DEF RingInv
<1>3. CASE ~OverrunSeen
  <2>1. Unread' = Unread /\ RxDataLen' = RxDataLen
    BY <1>3 DEF RxPoll, Unread, RxDataLen, RxLen, uartRxVars
  <2>2. PositionsAgree'
    BY <2>1 DEF RingInv, PositionsAgree
  <2>3. CountsAgree'
    BY <1>3, <2>1 DEF RingInv, CountsAgree, RxPoll, uartRxVars
  <2> QED BY <1>1, <2>2, <2>3 DEF RingInv
<1> QED BY <1>2, <1>3

\* The steps that leave the ring alone.
LEMMA RingReader == RingInv /\ (Reader \/ SetMark) => RingInv'
<1> SUFFICES ASSUME RingInv, Reader \/ SetMark PROVE RingInv'
  OBVIOUS
<1> USE DEF Reader, ReadBegin, SkipRead, TakeOverrun, SetMark, uartRxVars
<1>1. Unread' = Unread /\ RxDataLen' = RxDataLen
  BY DEF Unread, RxDataLen, RxLen
<1>2. RxTypeOK'
  <2>1. RxTypeOK
    BY DEF RingInv
  <2>2. reading' \in [head : RxCells, len : ReadSizes \cup {0}]
    BY <2>1 DEF RxTypeOK
  <2>3. rx_high_water_mark' \in Marks
    BY <2>1 DEF RxTypeOK
  <2>4. rx_step' \in {"poll", "read", "copy"} /\ rx_overrun_occurred' \in BOOLEAN
    BY <2>1 DEF RxTypeOK
  <2> QED BY <2>1, <2>2, <2>3, <2>4 DEF RxTypeOK
<1>3. PositionsAgree'
  BY <1>1 DEF RingInv, PositionsAgree
<1>4. CASE ReadBegin
  <2>1. RxLen(rx_pos, rx_buf_tail) <= Unread
    BY RxFacts DEF RxDataLen
  <2>2. /\ RxLen(reading'.head, rx_buf_tail') = RxLen(rx_pos, rx_buf_tail)
        /\ reading'.len \in ReadSizes
    BY <1>4 DEF RxLen
  <2> QED BY <1>1, <1>2, <1>3, <2>1, <2>2 DEF RingInv, CountsAgree
<1>5. CASE SkipRead \/ TakeOverrun \/ SetMark
  <2>1. CountsAgree'
    BY <1>1, <1>5 DEF RingInv, CountsAgree
  <2> QED BY <1>2, <1>3, <2>1 DEF RingInv
<1> QED BY <1>4, <1>5

\* The effect of copy_rx_data() on the counts and positions.
LEMMA ReadEndFacts ==
    ASSUME RingInv, ReadEnd
    PROVE  LET c == CopiedLen(reading.head, reading.len)
           IN  /\ c \in 0 .. UART_RX_BUF_LEN - 1 /\ c <= Unread /\ c <= reading.len
               /\ c <= RxLen(reading.head, rx_buf_tail)
               /\ rx_buf_tail' = RxAdvance(rx_buf_tail, c)
               /\ next_rx' = next_rx + c /\ Unread' = Unread - c
<1> DEFINE c == CopiedLen(reading.head, reading.len)
<1>1. rx_buf \in [RxCells -> Int]
  BY DEF RingInv, RxTypeOK
<1>2. RxLen(reading.head, rx_buf_tail) \in 0 .. UART_RX_BUF_LEN - 1
  BY RxFacts, RxLenFacts
<1>3. c \in Nat /\ c <= reading.len /\ c <= RxLen(reading.head, rx_buf_tail)
  BY <1>1, RxFacts, CopiedBytesFacts
<1>4. RxLen(reading.head, rx_buf_tail) <= Unread
  BY DEF ReadEnd, RingInv, CountsAgree
<1>5. rx_buf_tail' = RxAdvance(rx_buf_tail, c)
  BY RxFacts, CopyFacts DEF ReadEnd, CopyRxData
<1>6. next_rx' = next_rx + c /\ received' = received
  BY DEF ReadEnd, CopyRxData
<1> HIDE DEF c
<1>7. Unread' = Unread - c
  BY <1>3, <1>6, RxFacts DEF Unread
<1>8. c \in 0 .. UART_RX_BUF_LEN - 1 /\ c <= Unread
  BY <1>2, <1>3, <1>4, RxFacts
<1> QED BY <1>3, <1>5, <1>6, <1>7, <1>8 DEF c

LEMMA RingReadEnd == RingInv /\ ReadEnd => RingInv'
<1> SUFFICES ASSUME RingInv, ReadEnd PROVE RingInv'
  OBVIOUS
<1> DEFINE c == CopiedLen(reading.head, reading.len)
           seen == RxLen(reading.head, rx_buf_tail)
<1>1. /\ c \in 0 .. UART_RX_BUF_LEN - 1 /\ c <= Unread /\ c <= seen
      /\ rx_buf_tail' = RxAdvance(rx_buf_tail, c)
      /\ next_rx' = next_rx + c /\ Unread' = Unread - c
  BY ReadEndFacts
<1>2. seen \in 0 .. UART_RX_BUF_LEN - 1 /\ seen <= Unread
  BY RxFacts, RxLenFacts DEF ReadEnd, RingInv, CountsAgree
<1>3. last_rx_size' = IF reading.head = rx_buf_tail THEN last_rx_size ELSE seen - c
  BY DEF ReadEnd, CopyRxData, SizeAfterCopy
<1>5. copied' = copied \o CopiedBytes(reading.head, reading.len)
      /\ CopiedBytes(reading.head, reading.len) \in Seq(Int)
  BY RxFacts, CopiedBytesFacts DEF ReadEnd, CopyRxData, RingInv, RxTypeOK
<1> HIDE DEF c, seen
<1>6. last_rx_size' \in 0 .. UART_RX_BUF_LEN - 1
  <2>1. last_rx_size \in 0 .. UART_RX_BUF_LEN - 1
    BY DEF RingInv, RxTypeOK
  <2> QED BY <1>1, <1>2, <1>3, <2>1, RxFacts
<1>7. rx_buf_tail' \in 0 .. UART_RX_BUF_LEN
  BY <1>1, RxFacts DEF RxAdvance
<1>8. copied' \in Seq(Int)
  BY <1>5 DEF RingInv, RxTypeOK
<1>9. next_rx' \in Nat
  BY <1>1, RxFacts
<1>10. RxTypeOK'
  <2>1. reading' \in [head : RxCells, len : ReadSizes \cup {0}]
    BY RxFacts DEF ReadEnd, NotReading
  <2> QED BY <1>6, <1>7, <1>8, <1>9, <2>1 DEF ReadEnd, RingInv, RxTypeOK
<1>11. PositionsAgree'
  <2>1. RxDataLen = Unread % UART_RX_BUF_LEN
    BY DEF RingInv, PositionsAgree
  <2>2. RxDataLen' = RxLen(rx_pos, RxAdvance(rx_buf_tail, c))
    BY <1>1 DEF ReadEnd, RxDataLen, RxLen
  <2>3. RxDataLen' = IF c <= RxDataLen THEN RxDataLen - c
                                       ELSE RxDataLen - c + UART_RX_BUF_LEN
    BY <1>1, <2>2, RxFacts, RxLenTail DEF RxDataLen
  <2>4. (Unread - c) % UART_RX_BUF_LEN
          = IF c <= Unread % UART_RX_BUF_LEN THEN (Unread % UART_RX_BUF_LEN) - c
                             ELSE (Unread % UART_RX_BUF_LEN) - c + UART_RX_BUF_LEN
    <3>1. Unread \in Int /\ UART_RX_BUF_LEN \in Nat \ {0}
      BY RxFacts
    <3> QED BY <1>1, <3>1, ModLess
  <2> QED BY <1>1, <2>1, <2>3, <2>4 DEF PositionsAgree
<1>12. CountsAgree'
  BY <1>1, RxFacts DEF CountsAgree, ReadEnd
<1> QED BY <1>10, <1>11, <1>12 DEF RingInv

\* A byte moves the head, and may overwrite one that has not been read.
LEMMA RingByte == RingInv /\ RxByte => RingInv'
<1> SUFFICES ASSUME RingInv, RxByte PROVE RingInv'
  OBVIOUS
<1>1. Unread' = Unread + 1
  BY RxFacts DEF RxByte, Unread
<1>2. rx_pos' \in RxCells
  BY RxFacts DEF RxByte, RxWrap
<1>3. RxTypeOK'
  <2>1. rx_buf' \in [RxCells -> Int]
    BY RxFacts DEF RxByte, RingInv, RxTypeOK
  <2>2. since_poll' \in 0 .. PollBytes
    BY RxAssumption DEF RxByte, RingInv, RxTypeOK
  <2>3. peer_slack' \in 0 .. Slack
    <3>1. peer \in Peers /\ peer_slack \in 0 .. Slack /\ Slack \in Nat
      BY RxAssumption DEF RingInv, RxTypeOK
    <3>2. CASE rts \/ peer = "ignores"
      BY <3>1, <3>2 DEF RxByte
    <3>3. CASE ~(rts \/ peer = "ignores")
      BY <3>1, <3>3 DEF RxByte
    <3> QED BY <3>2, <3>3
  <2>4. received' \in Nat
    BY RxFacts DEF RxByte
  <2> QED BY <1>2, <2>1, <2>2, <2>3, <2>4 DEF RxByte, RingInv, RxTypeOK, uartRxVars
<1>4. PositionsAgree'
  <2>1. RxDataLen = Unread % UART_RX_BUF_LEN
    BY DEF RingInv, PositionsAgree
  <2>2. RxDataLen' = RxLen(RxWrap(rx_pos + 1), rx_buf_tail)
    BY DEF RxByte, RxDataLen, RxLen, uartRxVars
  <2>3. RxDataLen' = IF RxDataLen + 1 = UART_RX_BUF_LEN THEN 0 ELSE RxDataLen + 1
    BY <2>2, RxFacts, RxLenHead DEF RxDataLen
  <2>4. (Unread + 1) % UART_RX_BUF_LEN
          = IF (Unread % UART_RX_BUF_LEN) + 1 = UART_RX_BUF_LEN THEN 0
                                           ELSE (Unread % UART_RX_BUF_LEN) + 1
    <3>1. Unread \in Int /\ UART_RX_BUF_LEN \in Nat \ {0}
      BY RxFacts
    <3> QED BY <3>1, ModNext
  <2> QED BY <1>1, <2>1, <2>3, <2>4 DEF PositionsAgree
<1>5. CountsAgree'
  <2>1. 0 <= Unread'
    BY <1>1, RxFacts
  <2>2. ASSUME rx_step' = "copy"
        PROVE  RxLen(reading.head, rx_buf_tail)' <= Unread' /\ reading'.len \in ReadSizes
    <3>1. RxLen(reading.head, rx_buf_tail)' = RxLen(reading.head, rx_buf_tail)
      BY DEF RxByte, RxLen, uartRxVars
    <3>2. RxLen(reading.head, rx_buf_tail) <= Unread /\ reading.len \in ReadSizes
      BY <2>2 DEF RxByte, RingInv, CountsAgree
    <3>3. RxLen(reading.head, rx_buf_tail) \in Int
      BY RxFacts, RxLenFacts
    <3> QED BY <1>1, <3>1, <3>2, <3>3, RxFacts DEF RxByte
  <2> QED BY <2>1, <2>2 DEF CountsAgree
<1> QED BY <1>3, <1>4, <1>5 DEF RingInv

\* enable() starts the ring anew.
LEMMA RingEnable == RingInv /\ RxEnable => RingInv'
<1> SUFFICES ASSUME RingInv, RxEnable PROVE RingInv'
  OBVIOUS
<1>1. RxTypeOK'
  <2>1. RxTypeOK
    BY DEF RingInv
  <2>2. DefaultMark \in Marks /\ Slack \in Nat
    BY RxAssumption
  <2>3. rx_pos' \in RxCells /\ rx_buf_tail' \in 0 .. UART_RX_BUF_LEN
    BY RxFacts DEF RxEnable
  <2>4. peer_slack' \in 0 .. Slack /\ rts' \in BOOLEAN /\ next_rx' \in Nat
    <3>1. peer_slack' = Slack \/ peer_slack' = peer_slack
      BY DEF RxEnable
    <3>2. peer_slack \in 0 .. Slack
      BY <2>1 DEF RxTypeOK
    <3>3. rts' \in BOOLEAN
      BY DEF RxEnable
    <3>4. next_rx' \in Nat
      BY RxFacts DEF RxEnable
    <3>5. peer_slack' \in 0 .. Slack
      BY <2>2, <3>1, <3>2
    <3> QED BY <3>3, <3>4, <3>5
  <2> QED BY <2>1, <2>2, <2>3, <2>4 DEF RxEnable, RxTypeOK
<1>2. Unread' = 0 /\ RxDataLen' = 0
  BY RxFacts DEF RxEnable, Unread, RxDataLen, RxLen
<1>3. 0 % UART_RX_BUF_LEN = 0
  BY RxFacts, ModSmall
<1>4. PositionsAgree'
  BY <1>2, <1>3 DEF PositionsAgree
<1>5. CountsAgree'
  BY <1>2 DEF CountsAgree, RxEnable
<1> QED BY <1>1, <1>4, <1>5 DEF RingInv

LEMMA RingStep == RingInv /\ [RxNext \/ RxEnable]_rxVars => RingInv'
<1> SUFFICES ASSUME RingInv, [RxNext \/ RxEnable]_rxVars PROVE RingInv'
  OBVIOUS
<1>1. CASE RxPoll
  BY <1>1, RingPoll
<1>2. CASE Reader \/ SetMark
  BY <1>2, RingReader
<1>3. CASE ReadEnd
  BY <1>3, RingReadEnd
<1>4. CASE RxByte
  BY <1>4, RingByte
<1>5. CASE UNCHANGED rxVars
  BY <1>5 DEF rxVars, uartRxVars, RingInv, RxTypeOK, PositionsAgree, CountsAgree,
              Unread, RxDataLen, RxLen
<1>6. CASE RxEnable
  BY <1>6, RingEnable
<1> QED BY <1>1, <1>2, <1>3, <1>4, <1>5, <1>6 DEF RxNext

\* Without enable(), what a copy has left behind has not been read later. When
\* there was nothing to copy, last_rx_size keeps its value, and so does Unread.
LEMMA LastSizeStep ==
    RingInv /\ LastSizeAgrees /\ [RxNext]_rxVars => LastSizeAgrees'
<1> SUFFICES ASSUME RingInv, LastSizeAgrees, [RxNext]_rxVars PROVE LastSizeAgrees'
  OBVIOUS
<1>1. CASE RxPoll
  <2>1. CASE OverrunSeen
    BY <1>1, <2>1, RxFacts DEF RxPoll, LastSizeAgrees, Unread
  <2>2. CASE ~OverrunSeen
    BY <1>1, <2>2 DEF RxPoll, LastSizeAgrees, Unread, uartRxVars
  <2> QED BY <2>1, <2>2
<1>2. CASE Reader \/ SetMark \/ UNCHANGED rxVars
  BY <1>2 DEF Reader, ReadBegin, SkipRead, TakeOverrun, SetMark, rxVars, uartRxVars,
              LastSizeAgrees, Unread
<1>3. CASE ReadEnd
  <2> DEFINE c == CopiedLen(reading.head, reading.len)
             seen == RxLen(reading.head, rx_buf_tail)
  <2>1. c \in 0 .. UART_RX_BUF_LEN - 1 /\ c <= seen /\ Unread' = Unread - c
    BY <1>3, ReadEndFacts
  <2>2. seen \in 0 .. UART_RX_BUF_LEN - 1 /\ seen <= Unread
    BY <1>3, RxFacts, RxLenFacts DEF ReadEnd, RingInv, CountsAgree
  <2>3. last_rx_size' = IF reading.head = rx_buf_tail THEN last_rx_size ELSE seen - c
    BY <1>3 DEF ReadEnd, CopyRxData, SizeAfterCopy
  <2>4. reading.head = rx_buf_tail => seen = 0
    BY RxFacts DEF RxLen
  <2> HIDE DEF c, seen
  <2> QED BY <2>1, <2>2, <2>3, <2>4, RxFacts DEF LastSizeAgrees
<1>4. CASE RxByte
  BY <1>4, RxFacts DEF RxByte, LastSizeAgrees, Unread, uartRxVars
<1> QED BY <1>1, <1>2, <1>3, <1>4 DEF RxNext

\* An overrun is seen only if the DMA channel has lapped the reader.
LEMMA OverrunSeenFacts ==
    ASSUME RingInv, LastSizeAgrees, OverrunSeen
    PROVE  Unread >= UART_RX_BUF_LEN
BY RxFacts DEF OverrunSeen, LastSizeAgrees

----------------------------------------------------------------------------
(* A peer that obeys RTS. *)

\* The part of the invariant that is about such a peer.
Lossless ==
    /\ UnreadInOrder
    /\ Len(copied) = next_rx
    /\ \A i \in 1 .. Len(copied) : copied[i] = i - 1

\* The bytes are in the ring, and reach the reader, in order.
LEMMA LosslessStep ==
    ASSUME RingInv, LastSizeAgrees, Unread < UART_RX_BUF_LEN, Lossless, [RxNext]_rxVars,
           Unread' < UART_RX_BUF_LEN
    PROVE  Lossless'
<1>1. CASE RxPoll
  <2>1. ~OverrunSeen
    BY RxFacts, OverrunSeenFacts
  <2>2. UNCHANGED <<rx_buf, rx_buf_tail, next_rx, received, copied>>
    BY <1>1, <2>1 DEF RxPoll, uartRxVars
  <2> QED BY <2>2 DEF Lossless, UnreadInOrder, Unread, RxAdvance
<1>2. CASE Reader \/ SetMark \/ UNCHANGED rxVars
  <2>1. UNCHANGED <<rx_buf, rx_buf_tail, next_rx, received, copied>>
    BY <1>2 DEF Reader, ReadBegin, SkipRead, TakeOverrun, SetMark, rxVars, uartRxVars
  <2> QED BY <2>1 DEF Lossless, UnreadInOrder, Unread, RxAdvance
<1>3. CASE ReadEnd
  <2> DEFINE c == CopiedLen(reading.head, reading.len)
             b == CopiedBytes(reading.head, reading.len)
  <2>1. /\ c \in 0 .. UART_RX_BUF_LEN - 1 /\ c <= Unread
        /\ rx_buf_tail' = RxAdvance(rx_buf_tail, c)
        /\ next_rx' = next_rx + c /\ Unread' = Unread - c
    BY <1>3, ReadEndFacts
  <2>2. rx_buf' = rx_buf /\ copied' = copied \o b
    BY <1>3 DEF ReadEnd, CopyRxData
  <2>3. rx_buf \in [RxCells -> Int] /\ copied \in Seq(Int)
    BY DEF RingInv, RxTypeOK
  <2>4. /\ b \in Seq(Int) /\ Len(b) = c
        /\ \A i \in 1 .. c : b[i] = rx_buf[RxAdvance(rx_buf_tail, i - 1)]
    BY <2>3, RxFacts, CopiedBytesFacts
  <2> HIDE DEF b, c
  <2>5. Len(copied') = next_rx'
    <3> copied \in Seq(Int) /\ b \in Seq(Int)
      BY <2>3, <2>4
    <3>1. Len(copied \o b) = Len(copied) + Len(b)
      OBVIOUS
    <3>2. Len(copied) = next_rx
      BY DEF Lossless
    <3> QED BY <2>1, <2>2, <2>4, <3>1, <3>2
  <2>6. ASSUME NEW i \in 1 .. Len(copied')
        PROVE  copied'[i] = i - 1
    <3>1. Len(copied) = next_rx /\ next_rx \in Nat /\ c \in Nat
      BY <2>1, RxFacts DEF Lossless
    <3>2. CASE i <= next_rx
      BY <2>2, <2>3, <2>4, <3>1, <3>2 DEF Lossless
    <3>3. CASE i > next_rx
      <4>1. i - next_rx \in 1 .. c /\ i - next_rx - 1 \in 0 .. Unread - 1
        BY <2>1, <2>5, <3>1, <3>3, RxFacts
      <4>2. copied'[i] = b[i - next_rx]
        BY <2>2, <2>3, <2>4, <3>1, <3>3, <4>1
      <4>3. b[i - next_rx] = rx_buf[RxAdvance(rx_buf_tail, i - next_rx - 1)]
        BY <2>4, <4>1
      <4>4. rx_buf[RxAdvance(rx_buf_tail, i - next_rx - 1)] = next_rx + (i - next_rx - 1)
        BY <4>1 DEF Lossless, UnreadInOrder
      <4>5. next_rx + (i - next_rx - 1) = i - 1
        BY <3>1
      <4> QED BY <4>2, <4>3, <4>4, <4>5
    <3> QED BY <3>1, <3>2, <3>3, <2>5
  <2>7. ASSUME NEW i \in 0 .. Unread' - 1
        PROVE  rx_buf'[RxAdvance(rx_buf_tail, i)'] = next_rx' + i
    <3>1. c + i \in 0 .. Unread - 1 /\ i \in Nat /\ c \in Nat /\ c + i < UART_RX_BUF_LEN
      BY <2>1, RxFacts
    <3>2. RxAdvance(rx_buf_tail, i)' = RxAdvance(RxAdvance(rx_buf_tail, c), i)
      BY <2>1 DEF RxAdvance
    <3>3. RxAdvance(RxAdvance(rx_buf_tail, c), i) = RxAdvance(rx_buf_tail, c + i)
      BY <3>1, RxFacts, AdvanceFacts
    <3>4. rx_buf[RxAdvance(rx_buf_tail, c + i)] = next_rx + (c + i)
      BY <3>1 DEF Lossless, UnreadInOrder
    <3>5. next_rx + (c + i) = next_rx' + i
      BY <2>1, <3>1, RxFacts
    <3> QED BY <2>2, <3>2, <3>3, <3>4, <3>5
  <2> QED BY <2>5, <2>6, <2>7 DEF Lossless, UnreadInOrder
<1>4. CASE RxByte
  <2>1. /\ rx_buf' = [rx_buf EXCEPT ![rx_pos] = received]
        /\ UNCHANGED <<rx_buf_tail, next_rx, copied>>
    BY <1>4 DEF RxByte, uartRxVars
  <2>2. Unread' = Unread + 1
    BY <1>4, RxFacts DEF RxByte, Unread
  <2>3. RxAdvance(rx_buf_tail, Unread) = rx_pos
    BY RxFacts, RxLenFacts DEF RxDataLen
  <2>4. ASSUME NEW i \in 0 .. Unread' - 1
        PROVE  rx_buf'[RxAdvance(rx_buf_tail, i)] = next_rx + i
    <3>1. rx_buf \in [RxCells -> Int]
      BY DEF RingInv, RxTypeOK
    <3>2. CASE i = Unread
      BY <2>1, <2>3, <3>1, <3>2, RxFacts
    <3>3. CASE i # Unread
      <4>1. i \in 0 .. Unread - 1 /\ i \in Nat /\ Unread - i \in Nat /\ Unread - i # 0
            /\ i + (Unread - i) = Unread
        BY <2>2, <3>3, RxFacts
      <4>2. RxAdvance(rx_buf_tail, i) \in RxCells
            /\ RxAdvance(rx_buf_tail, i) # RxAdvance(rx_buf_tail, Unread)
        <5>1. i + (Unread - i) < UART_RX_BUF_LEN
          BY <4>1
        <5>2. RxAdvance(rx_buf_tail, i + (Unread - i)) # RxAdvance(rx_buf_tail, i)
          BY <4>1, <5>1, RxFacts, AdvanceFacts
        <5> QED BY <4>1, <5>1, <5>2, RxFacts, AdvanceFacts
      <4>3. rx_buf'[RxAdvance(rx_buf_tail, i)] = rx_buf[RxAdvance(rx_buf_tail, i)]
        BY <2>1, <2>3, <3>1, <4>2
      <4> QED BY <4>1, <4>3 DEF Lossless, UnreadInOrder
    <3> QED BY <3>2, <3>3
  <2>5. UnreadInOrder'
    BY <2>1, <2>4 DEF UnreadInOrder, RxAdvance
  <2> QED BY <2>1, <2>5 DEF Lossless
<1> QED BY <1>1, <1>2, <1>3, <1>4 DEF RxNext

\* Room above the marks lasts until RTS has taken effect: what has come since
\* poll() and what the peer may still send is taken off it.
LEMMA RoomStep ==
    ASSUME RoomAboveMark, RingInv, LastSizeAgrees, peer = "obeys", RoomLeft,
           [RxNext]_rxVars
    PROVE  RoomLeft'
<1> DEFINE n == UART_RX_BUF_LEN
<1>1. /\ n \in Nat /\ PollBytes \in Nat /\ Slack \in Nat
      /\ since_poll \in 0 .. PollBytes /\ peer_slack \in 0 .. Slack
      /\ rts \in BOOLEAN /\ Unread \in Nat
  BY RxFacts, RxAssumption DEF RingInv, RxTypeOK
<1>2. Unread < n
  <2>1. CASE rts
    <3>1. Unread - since_poll + PollBytes + Slack < n
      BY <2>1 DEF RoomLeft
    <3> QED BY <1>1, <3>1
  <2>2. CASE ~rts
    <3>1. Unread + peer_slack < n
      BY <2>2 DEF RoomLeft
    <3> QED BY <1>1, <3>1
  <2> QED BY <2>1, <2>2
<1>3. CASE RxPoll
  <2>1. ~OverrunSeen
    BY <1>2, RxFacts, OverrunSeenFacts
  <2>2. Unread' = Unread /\ since_poll' = 0
    BY <1>3, <2>1 DEF RxPoll, Unread, uartRxVars
  <2>3. CASE rts'
    <3>1. Unread < rx_high_water_mark
      BY <1>2, <1>3, <2>3, RxFacts DEF RxPoll, RtsFor
    <3>2. rx_high_water_mark \in Nat /\ rx_high_water_mark + PollBytes + Slack <= n
      BY RxAssumption DEF RoomAboveMark, RingInv, RxTypeOK
    <3>3. Unread - 0 + PollBytes + Slack < n
      BY <1>1, <3>1, <3>2
    <3> QED BY <2>2, <2>3, <3>3 DEF RoomLeft
  <2>4. CASE ~rts'
    <3>1. CASE rts
      <4>1. Unread - since_poll + PollBytes + Slack < n
        BY <3>1 DEF RoomLeft
      <4>2. Unread + Slack < n
        BY <1>1, <4>1
      <4>3. peer_slack' = Slack
        BY <1>3, <2>4, <3>1 DEF RxPoll
      <4> QED BY <2>2, <2>4, <4>2, <4>3 DEF RoomLeft
    <3>2. CASE ~rts
      <4>1. peer_slack' = peer_slack
        BY <1>3, <3>2 DEF RxPoll
      <4> QED BY <2>2, <2>4, <3>2, <4>1 DEF RoomLeft
    <3> QED BY <3>1, <3>2
  <2> QED BY <2>3, <2>4
<1>4. CASE Reader \/ SetMark \/ UNCHANGED rxVars
  <2>1. UNCHANGED <<rts, since_poll, peer_slack, received, next_rx>>
    BY <1>4 DEF Reader, ReadBegin, SkipRead, TakeOverrun, SetMark, rxVars, uartRxVars
  <2> QED BY <2>1 DEF RoomLeft, Unread
<1>5. CASE ReadEnd
  <2>1. UNCHANGED <<rts, since_poll, peer_slack>>
    BY <1>5 DEF ReadEnd
  <2>2. Unread' \in Int /\ Unread' <= Unread
    <3> DEFINE c == CopiedLen(reading.head, reading.len)
    <3>1. c \in Nat /\ Unread' = Unread - c
      BY <1>1, <1>5, ReadEndFacts
    <3> HIDE DEF c
    <3> QED BY <1>1, <3>1
  <2>3. CASE rts
    <3>1. Unread - since_poll + PollBytes + Slack < n
      BY <2>3 DEF RoomLeft
    <3>2. \A u \in Int : u <= Unread => u - since_poll + PollBytes + Slack < n
      BY <1>1, <3>1
    <3>3. Unread' - since_poll + PollBytes + Slack < n
      BY <2>2, <3>2
    <3> QED BY <2>1, <2>3, <3>3 DEF RoomLeft
  <2>4. CASE ~rts
    <3>1. Unread + peer_slack < n
      BY <2>4 DEF RoomLeft
    <3>2. \A u \in Int : u <= Unread => u + peer_slack < n
      BY <1>1, <3>1
    <3>3. Unread' + peer_slack < n
      BY <2>2, <3>2
    <3> QED BY <2>1, <2>4, <3>3 DEF RoomLeft
  <2> QED BY <1>1, <2>3, <2>4
<1>6. CASE RxByte
  <2>1. rts' = rts /\ since_poll' = since_poll + 1
    BY <1>6 DEF RxByte
  <2>2. Unread' = Unread + 1
    BY <1>6, RxFacts DEF RxByte, Unread
  <2>3. CASE rts
    <3>1. Unread - since_poll + PollBytes + Slack < n
      BY <2>3 DEF RoomLeft
    <3>2. (Unread + 1) - (since_poll + 1) + PollBytes + Slack < n
      BY <1>1, <3>1
    <3> QED BY <2>1, <2>2, <2>3, <3>2 DEF RoomLeft
  <2>4. CASE ~rts
    <3>1. Unread + peer_slack < n
      BY <2>4 DEF RoomLeft
    <3>2. peer_slack' = peer_slack - 1
      BY <1>6, <2>4 DEF RxByte
    <3>3. (Unread + 1) + (peer_slack - 1) < n
      BY <1>1, <3>1
    <3> QED BY <2>1, <2>2, <2>4, <3>2, <3>3 DEF RoomLeft
  <2> QED BY <1>1, <2>3, <2>4
<1> QED BY <1>3, <1>4, <1>5, <1>6 DEF RxNext

\* Where there is room left, no byte has been overwritten.
LEMMA RoomMeansFit ==
    ASSUME RxTypeOK, 0 <= Unread, RoomLeft PROVE Unread < UART_RX_BUF_LEN
<1>1. /\ UART_RX_BUF_LEN \in Nat /\ PollBytes \in Nat /\ Slack \in Nat
      /\ since_poll \in 0 .. PollBytes /\ peer_slack \in 0 .. Slack /\ Unread \in Nat
  BY RxAssumption DEF RxTypeOK, Unread
<1>2. CASE rts
  <2>1. Unread - since_poll + PollBytes + Slack < UART_RX_BUF_LEN
    BY <1>2 DEF RoomLeft
  <2> QED BY <1>1, <2>1
<1>3. CASE ~rts
  <2>1. Unread + peer_slack < UART_RX_BUF_LEN
    BY <1>3 DEF RoomLeft
  <2> QED BY <1>1, <2>1
<1> QED BY <1>2, <1>3

LEMMA PeerStays == [RxNext]_rxVars => peer' = peer
BY DEF RxNext, Reader, RxPoll, TakeOverrun, SkipRead, ReadBegin, ReadEnd, SetMark, RxByte,
       rxVars

LEMMA InvInit == RxInit => RxInv
<1> SUFFICES ASSUME RxInit PROVE RxInv
  OBVIOUS
<1> USE RxAssumption DEF RxInit
<1>1. RingInv
  BY RingInit
<1>2. Unread = 0
  BY DEF Unread
<1>3. LastSizeAgrees /\ UnreadFits
  BY <1>2 DEF LastSizeAgrees, UnreadFits
<1>4. CopiedInOrder
  BY DEF CopiedInOrder
<1>5. RoomLeft
  BY <1>2 DEF RoomLeft
<1>6. UnreadInOrder /\ Len(copied) = next_rx
  BY <1>2 DEF UnreadInOrder
<1> QED BY <1>1, <1>3, <1>4, <1>5, <1>6 DEF RxInv, LosslessInv

LEMMA InvStep == ASSUME RoomAboveMark, RxInv, [RxNext]_rxVars PROVE RxInv'
<1>1. RingInv /\ RingInv'
  BY RingStep DEF RxInv
<1>2. LastSizeAgrees /\ LastSizeAgrees'
  BY LastSizeStep DEF RxInv
<1>3. CASE peer # "obeys"
  BY <1>1, <1>2, <1>3, PeerStays DEF RxInv, CopiedInOrder, UnreadFits, LosslessInv
<1>4. CASE peer = "obeys"
  <2>1. RoomLeft /\ Lossless
    BY <1>4 DEF RxInv, LosslessInv, CopiedInOrder, Lossless
  <2>2. RoomLeft'
    BY <1>1, <1>2, <1>4, <2>1, RoomStep
  <2>3. Unread < UART_RX_BUF_LEN
    BY <1>1, <2>1, RoomMeansFit DEF RingInv, CountsAgree
  <2>4. Unread' < UART_RX_BUF_LEN
    <3>1. RxTypeOK' /\ (0 <= Unread)'
      BY <1>1 DEF RingInv, CountsAgree
    <3>2. (RxTypeOK /\ 0 <= Unread /\ RoomLeft => Unread < UART_RX_BUF_LEN)'
      BY RoomMeansFit, PTL
    <3> QED BY <2>2, <3>1, <3>2
  <2>5. Lossless'
    BY <1>1, <1>2, <2>1, <2>3, <2>4, LosslessStep
  <2> QED BY <1>1, <1>2, <2>2, <2>4, <2>5
          DEF RxInv, LosslessInv, CopiedInOrder, UnreadFits, Lossless
<1> QED BY <1>3, <1>4

----------------------------------------------------------------------------
(* Theorems *)

\* Whatever the peer does, and however often enable() is called: variables keep
\* their types, positions and byte counts agree, and no copy takes bytes that
\* have not arrived.
THEOREM RingIsConsistent == RxSpecReconfigured => []RingInv
<1>1. RxInit => RingInv
  BY RingInit
<1>2. RingInv /\ [RxNext \/ RxEnable]_rxVars => RingInv'
  BY RingStep
<1> QED BY <1>1, <1>2, PTL DEF RxSpecReconfigured

\* Type correctness, and the ring positions, as the runs check them.
THEOREM RxTypeCorrect == RxSpec => [](RxTypeOK /\ PositionsAgree)
<1>1. RingInv => RxTypeOK /\ PositionsAgree
  BY DEF RingInv
<1>2. RxInit => RingInv
  BY RingInit
<1>3. RingInv /\ [RxNext]_rxVars => RingInv'
  BY RingStep
<1> QED BY <1>1, <1>2, <1>3, PTL DEF RxSpec

\* The inductive invariant: the peer that obeys RTS and the one that does not.
THEOREM RxInvariant == ASSUME RoomAboveMark PROVE RxSpec => []RxInv
<1>1. RxInit => RxInv
  BY InvInit
<1>2. RxInv /\ [RxNext]_rxVars => RxInv'
  BY InvStep
<1> QED BY <1>1, <1>2, PTL DEF RxSpec

\* With room above the marks for what may still come, the ring is never lapped
\* by a peer that obeys RTS.
THEOREM RtsPreventsLoss == ASSUME RoomAboveMark PROVE RxSpec => []UnreadFits
<1>1. RxInv => UnreadFits
  BY DEF RxInv
<1> QED BY <1>1, RxInvariant, PTL

\* The reader gets its bytes in order, each once, while the DMA channel goes on.
THEOREM RxFifo == ASSUME RoomAboveMark PROVE RxSpec => []CopiedInOrder
<1>1. RxInv => CopiedInOrder
  BY DEF RxInv
<1> QED BY <1>1, RxInvariant, PTL

\* As long as enable() is called only once, an overrun is reported only after
\* bytes have been lost, whatever the peer does.
THEOREM NoFalseOverrun == RxSpec => OverrunMeansLoss
<1> DEFINE J == RingInv /\ LastSizeAgrees
<1>1. RxInit => J
  <2>1. RxInit => RingInv
    BY RingInit
  <2>2. RxInit => LastSizeAgrees
    BY DEF RxInit, LastSizeAgrees, Unread
  <2> QED BY <2>1, <2>2
<1>2. J /\ [RxNext]_rxVars => J'
  BY RingStep, LastSizeStep
<1>3. J /\ [RxNext]_rxVars
        => [rx_overrun_occurred' /\ ~rx_overrun_occurred
              => Unread >= UART_RX_BUF_LEN]_rxVars
  <2> SUFFICES ASSUME J, RxNext, rx_overrun_occurred', ~rx_overrun_occurred
               PROVE  Unread >= UART_RX_BUF_LEN
    BY DEF rxVars, uartRxVars
  <2>1. OverrunSeen
    BY DEF RxNext, Reader, RxPoll, TakeOverrun, SkipRead, ReadBegin, ReadEnd, SetMark,
           RxByte, uartRxVars
  <2> QED BY <2>1, OverrunSeenFacts
<1> QED BY <1>1, <1>2, <1>3, PTL DEF RxSpec, OverrunMeansLoss

\* copy_rx_data() never returns more than the caller's buffer holds.
THEOREM CopiesFit == RxSpec => CopyFits
<1>1. RxInit => RingInv
  BY RingInit
<1>2. RingInv /\ [RxNext]_rxVars => RingInv'
  BY RingStep
<1>3. RingInv /\ [RxNext]_rxVars
        => [copied' # copied => Len(copied') - Len(copied) <= reading.len]_rxVars
  <2> SUFFICES ASSUME RingInv, RxNext, copied' # copied
               PROVE  Len(copied') - Len(copied) <= reading.len
    BY DEF rxVars
  <2>1. ReadEnd
    BY DEF RxNext, Reader, RxPoll, TakeOverrun, SkipRead, ReadBegin, SetMark, RxByte
  <2> DEFINE b == CopiedBytes(reading.head, reading.len)
  <2>2. rx_buf \in [RxCells -> Int] /\ copied \in Seq(Int)
    BY DEF RingInv, RxTypeOK
  <2>3. b \in Seq(Int) /\ Len(b) \in Nat /\ Len(b) <= reading.len
    BY <2>2, RxFacts, CopiedBytesFacts
  <2>4. copied' = copied \o b
    BY <2>1 DEF ReadEnd, CopyRxData
  <2> HIDE DEF b
  <2>5. Len(copied') = Len(copied) + Len(b) /\ Len(copied) \in Nat
    BY <2>2, <2>3, <2>4
  <2> QED BY <2>3, <2>5, RxFacts
<1> QED BY <1>1, <1>2, <1>3, PTL DEF RxSpec, CopyFits
=============================================================================
